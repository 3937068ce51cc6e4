------------------------- MODULE TenantScope_proofs -------------------------
(***************************************************************************)
(* Safety of TenantScope for every number of tenants, users, workspaces,   *)
(* keys, pooled connections and requests.                                  *)
(*                                                                         *)
(* The tenant a request works for is one of: that of its workspace, that   *)
(* of its API key, or one its caller belongs to. The first two are read    *)
(* from rows that never change once they are there, so the right to the    *)
(* tenant can not be lost on the way; and a connection has one holder, so  *)
(* what it shows is decided by that request alone.                         *)
(***************************************************************************)
EXTENDS TenantScope, TLAPS

Scoped == Handling \cup {"looking_up"}

\* What is known of a request q over settings s and the tenants of the rows.
Fine(q, s, wt, kt) ==
    /\ q.pc \in {"idle", "uploaded"} => q.connection = None
    /\ q.pc \in Scoped => q.connection \in Connections /\ s[q.connection].seen = q.tenant
    /\ q.pc \in Scoped \cup {"resolved"} => q.tenant \in Tenants
    /\ q.pc = "looking_up" => q.key # None
    /\ q.key # None =>
          /\ q.key \in Keys /\ q.workspace = None
          /\ q.pc \in Handling => kt[q.key] = q.tenant
    /\ q.workspace # None =>
          /\ q.workspace \in Workspaces /\ q.user \in Users
          /\ q.pc \in Handling \cup {"resolved"} => wt[q.workspace] = q.tenant
    /\ q.key = None /\ q.workspace = None /\ q.pc \in Handling \cup {"resolved"} =>
          <<q.tenant, q.user>> \in TenantMembers
    /\ q.pc = "creating" =>
          q.target \in Workspaces /\ q.user \in Users /\ wt[q.target] = None
    /\ q.pc \in {"adding", "removing"} => q.workspace # None /\ q.target \in Users
    /\ q.pc = "issuing" => q.target \in Keys /\ kt[q.target] = None
    /\ q.pc = "revoking" => q.target \in Keys /\ kt[q.target] = q.tenant
    /\ q.pc = "uploading" => q.workspace # None

RequestInv ==
    \A r \in Requests : Fine(request[r], setting, workspace_tenant, key_tenant)

\* A connection has one holder.
ConnectionInv ==
    \A p, r \in Requests :
        p # r /\ request[p].connection # None => request[r].connection # request[p].connection

\* Nothing outlives a transaction, and only a scoped request has a setting.
SettingInv ==
    \A c \in Connections :
        /\ setting[c].kept = None /\ setting[c].pending = None
        /\ setting[c].seen # None =>
              \E r \in Requests : request[r].connection = c /\ request[r].pc \in Scoped

\* A new row's id is drawn by one request.
TargetInv ==
    \A p, r \in Requests :
        /\ p # r
        /\ request[p].pc \in {"creating", "issuing"}
        /\ request[r].pc \in {"creating", "issuing"}
        => request[p].target # request[r].target

DocumentsAgree ==
    \A d \in documents : d.tenant = workspace_tenant[d.workspace]

RowTypes ==
    /\ workspace_tenant \in [Workspaces -> Tenants \cup {None}]
    /\ member \in [Workspaces -> [Users -> Tenants \cup {None}]]
    /\ key_tenant \in [Keys -> Tenants \cup {None}]
    /\ revoked \subseteq Keys
    /\ documents \subseteq [workspace : Workspaces, tenant : Tenants]

RowsInv == RowTypes /\ MemberRowsAgree /\ DocumentsAgree

IInv ==
    /\ RowsInv
    /\ setting \in [Connections -> Settings(Tenants)]
    /\ request \in [Requests -> RequestStates]
    /\ RequestInv
    /\ ConnectionInv
    /\ SettingInv
    /\ TargetInv

-----------------------------------------------------------------------------

LEMMA IdleFine == Idle \in RequestStates /\ \A s, wt, kt : Fine(Idle, s, wt, kt)
BY DEF Idle, RequestStates, PCs, Handling, Scoped, Fine

LEMMA InitInv == Init => IInv
<1>1. SUFFICES ASSUME Init PROVE IInv
  OBVIOUS
<1>2. RowsInv
  BY <1>1 DEF Init, RowsInv, RowTypes, MemberRowsAgree, DocumentsAgree
<1>3. setting \in [Connections -> Settings(Tenants)] /\ request \in [Requests -> RequestStates]
  BY <1>1, IdleFine DEF Init, Settings, Unset
<1>4. RequestInv
  BY <1>1, IdleFine DEF Init, RequestInv
<1>5. ConnectionInv /\ SettingInv /\ TargetInv
  BY <1>1 DEF Init, Idle, Unset, ConnectionInv, SettingInv, TargetInv
<1>6. QED
  BY <1>2, <1>3, <1>4, <1>5 DEF IInv

\* The connection of q keeps its setting and rows are only added, none of them
\* under the id it has drawn.
Apart(q, s, wt, kt, s2, wt2, kt2) ==
    /\ q.connection \in Connections => s2[q.connection] = s[q.connection]
    /\ \A w \in Workspaces :
           wt2[w] = wt[w] \/ (wt[w] = None /\ ~(q.pc = "creating" /\ q.target = w))
    /\ \A k \in Keys :
           kt2[k] = kt[k] \/ (kt[k] = None /\ ~(q.pc = "issuing" /\ q.target = k))

\* What is known of a request stays true in a step apart from it.
LEMMA FineStays ==
    ASSUME NEW q, NEW s, NEW wt, NEW kt, NEW s2, NEW wt2, NEW kt2,
           Fine(q, s, wt, kt),
           Apart(q, s, wt, kt, s2, wt2, kt2)
    PROVE  Fine(q, s2, wt2, kt2)
<1>1. q.pc \in Handling \cup {"resolved"} => q.tenant # None
  BY NoneAssumption DEF Fine, Scoped
<1>2. q.key # None /\ q.pc \in Handling => kt2[q.key] = q.tenant
  BY <1>1 DEF Fine, Apart
<1>3. q.workspace # None /\ q.pc \in Handling \cup {"resolved"} => wt2[q.workspace] = q.tenant
  BY <1>1 DEF Fine, Apart
<1>4. q.pc = "creating" => wt2[q.target] = None
  BY DEF Fine, Apart
<1>5. q.pc = "issuing" => kt2[q.target] = None
  BY DEF Fine, Apart
<1>6. q.pc = "revoking" => kt2[q.target] = q.tenant
  BY <1>1 DEF Fine, Handling, Apart
<1>7. q.pc \in Scoped => s2[q.connection].seen = q.tenant
  BY DEF Fine, Apart
<1>8. QED
  BY <1>2, <1>3, <1>4, <1>5, <1>6, <1>7 DEF Fine

\* One request moves to q; rows are added under the id it has drawn at most,
\* and no setting changes but that of its connection.
LEMMA Step ==
    ASSUME IInv, NEW r \in Requests, NEW q \in RequestStates,
           request' = [request EXCEPT ![r] = q],
           RowsInv',
           \A w \in Workspaces :
               \/ workspace_tenant'[w] = workspace_tenant[w]
               \/ /\ workspace_tenant[w] = None
                  /\ request[r].pc = "creating" /\ request[r].target = w,
           \A k \in Keys :
               \/ key_tenant'[k] = key_tenant[k]
               \/ /\ key_tenant[k] = None
                  /\ request[r].pc = "issuing" /\ request[r].target = k,
           setting' \in [Connections -> Settings(Tenants)],
           \A c \in Connections : c # request[r].connection => setting'[c] = setting[c],
           \A c \in Connections : c = request[r].connection =>
               /\ setting'[c].kept = None /\ setting'[c].pending = None
               /\ setting'[c].seen # None => q.connection = c /\ q.pc \in Scoped,
           Fine(q, setting', workspace_tenant', key_tenant'),
           \/ q.connection \in {None, request[r].connection}
           \/ request[r].connection = None /\ Free(q.connection),
           q.pc \in {"creating", "issuing"} =>
               \A p \in Requests \ {r} :
                   request[p].pc \in {"creating", "issuing"} => request[p].target # q.target
    PROVE  IInv'
<1>1. request' \in [Requests -> RequestStates]
      /\ request'[r] = q
      /\ \A p \in Requests \ {r} : request'[p] = request[p]
  BY DEF IInv
<1>2. ConnectionInv'
  BY <1>1 DEF IInv, ConnectionInv, Free
<1>3. TargetInv'
  BY <1>1 DEF IInv, TargetInv
<1>4. RequestInv'
  <2>1. SUFFICES ASSUME NEW p \in Requests \ {r}
                 PROVE  Fine(request[p], setting', workspace_tenant', key_tenant')
    BY <1>1 DEF RequestInv
  <2>2. Fine(request[p], setting, workspace_tenant, key_tenant)
    BY DEF IInv, RequestInv
  <2>3. request[p].connection \in Connections =>
            setting'[request[p].connection] = setting[request[p].connection]
    BY NoneAssumption DEF IInv, ConnectionInv
  <2>4. \A w \in Workspaces :
            \/ workspace_tenant'[w] = workspace_tenant[w]
            \/ workspace_tenant[w] = None /\ ~(request[p].pc = "creating" /\ request[p].target = w)
    BY DEF IInv, TargetInv
  <2>5. \A k \in Keys :
            \/ key_tenant'[k] = key_tenant[k]
            \/ key_tenant[k] = None /\ ~(request[p].pc = "issuing" /\ request[p].target = k)
    BY DEF IInv, TargetInv
  <2>6. Apart(request[p], setting, workspace_tenant, key_tenant,
              setting', workspace_tenant', key_tenant')
    BY <2>3, <2>4, <2>5 DEF Apart
  <2>7. QED
    BY <2>2, <2>6, FineStays
<1>5. SettingInv'
  <2>1. SUFFICES ASSUME NEW c \in Connections
                 PROVE  /\ setting'[c].kept = None /\ setting'[c].pending = None
                        /\ setting'[c].seen # None =>
                              \E p \in Requests :
                                  request'[p].connection = c /\ request'[p].pc \in Scoped
    BY DEF SettingInv
  <2>2. CASE c = request[r].connection
    BY <1>1, <2>2
  <2>3. CASE c # request[r].connection
    <3>1. setting'[c] = setting[c]
      BY <2>3
    <3>2. /\ setting[c].kept = None /\ setting[c].pending = None
          /\ setting[c].seen # None =>
                \E p \in Requests : request[p].connection = c /\ request[p].pc \in Scoped
      BY DEF IInv, SettingInv
    <3>3. QED
      BY <1>1, <2>3, <3>1, <3>2
  <2>4. QED
    BY <2>2, <2>3
<1>6. QED
  BY <1>1, <1>2, <1>3, <1>4, <1>5 DEF IInv

\* A step that changes neither rows nor settings.
LEMMA Move ==
    ASSUME IInv, NEW r \in Requests, NEW q \in RequestStates,
           request' = [request EXCEPT ![r] = q],
           UNCHANGED <<rows, setting>>,
           Fine(q, setting, workspace_tenant, key_tenant),
           \/ q.connection = request[r].connection /\ (request[r].pc \in Scoped => q.pc \in Scoped)
           \/ request[r].connection = None /\ Free(q.connection),
           q.pc \in {"creating", "issuing"} =>
               \A p \in Requests \ {r} :
                   request[p].pc \in {"creating", "issuing"} => request[p].target # q.target
    PROVE  IInv'
<1>1. UNCHANGED <<workspace_tenant, member, key_tenant, revoked, documents, setting>>
  BY DEF rows
<1>2. RowsInv'
  BY <1>1 DEF IInv, RowsInv, RowTypes, MemberRowsAgree, DocumentsAgree
<1>3. \A c \in Connections : c = request[r].connection =>
          /\ setting[c].kept = None /\ setting[c].pending = None
          /\ setting[c].seen # None => q.connection = c /\ q.pc \in Scoped
  BY NoneAssumption DEF IInv, SettingInv, ConnectionInv
<1>4. Fine(q, setting', workspace_tenant', key_tenant')
  BY <1>1
<1>5. setting' \in [Connections -> Settings(Tenants)]
  BY <1>1 DEF IInv
<1>6. QED
  BY <1>1, <1>2, <1>3, <1>4, <1>5, Step

\* The end of a transaction leaves nothing on the connection.
LEMMA Released ==
    ASSUME IInv, NEW r \in Requests, Connected(r), RolledBack(r) \/ Committed(r)
    PROVE  /\ request[r].connection \in Connections
           /\ setting' = [setting EXCEPT ![request[r].connection] = Unset]
<1>1. request[r].connection \in Connections
  BY DEF IInv, RequestStates, Connected
<1>2. setting[request[r].connection].kept = None /\ setting[request[r].connection].pending = None
  BY <1>1 DEF IInv, SettingInv
<1>3. QED
  BY <1>1, <1>2 DEF RolledBack, Committed, AfterRollback, AfterCommit, Unset

\* A request gives its connection back, adding rows under its own id at most.
LEMMA Leave ==
    ASSUME IInv, NEW r \in Requests, NEW q \in RequestStates,
           request' = [request EXCEPT ![r] = q],
           RowsInv',
           \A w \in Workspaces :
               \/ workspace_tenant'[w] = workspace_tenant[w]
               \/ /\ workspace_tenant[w] = None
                  /\ request[r].pc = "creating" /\ request[r].target = w,
           \A k \in Keys :
               \/ key_tenant'[k] = key_tenant[k]
               \/ /\ key_tenant[k] = None
                  /\ request[r].pc = "issuing" /\ request[r].target = k,
           Connected(r),
           RolledBack(r) \/ Committed(r),
           q.connection = None,
           q.pc \notin {"creating", "issuing"},
           Fine(q, setting', workspace_tenant', key_tenant')
    PROVE  IInv'
<1>1. /\ request[r].connection \in Connections
      /\ setting' = [setting EXCEPT ![request[r].connection] = Unset]
  BY Released
<1>2. setting' \in [Connections -> Settings(Tenants)]
  BY <1>1 DEF IInv, Settings, Unset
<1>3. \A c \in Connections : c # request[r].connection => setting'[c] = setting[c]
  BY <1>1
<1>4. \A c \in Connections : c = request[r].connection => setting'[c] = Unset
  BY <1>1 DEF IInv
<1>5. Unset.kept = None /\ Unset.pending = None /\ Unset.seen = None
  BY DEF Unset
<1>6. \A c \in Connections : c = request[r].connection =>
          /\ setting'[c].kept = None /\ setting'[c].pending = None
          /\ setting'[c].seen # None => q.connection = c /\ q.pc \in Scoped
  BY <1>4, <1>5
<1>7. QED
  BY <1>2, <1>3, <1>6, Step

\* Rows that a step leaves alone.
LEMMA RowsStay ==
    ASSUME IInv, UNCHANGED rows
    PROVE  RowsInv'
BY DEF IInv, RowsInv, RowTypes, MemberRowsAgree, DocumentsAgree, rows

-----------------------------------------------------------------------------
(* Before the handler                                                      *)

LEMMA ReceiveInv ==
    ASSUME IInv, NEW r \in Requests, Receive(r)
    PROVE  IInv'
<1>1. PICK q \in RequestStates :
          /\ request[r] = Idle
          /\ request' = [request EXCEPT ![r] = q]
          /\ q.connection = None
          /\ q.pc \in {"arrived", "resolved"}
          /\ Fine(q, setting, workspace_tenant, key_tenant)
          /\ UNCHANGED <<rows, setting>>
  <2>1. ASSUME NEW u \in Users, NEW w \in Workspaces, ReceiveForWorkspace(r, u, w)
        PROVE  \E q \in RequestStates :
                   /\ request[r] = Idle
                   /\ request' = [request EXCEPT ![r] = q]
                   /\ q.connection = None
                   /\ q.pc \in {"arrived", "resolved"}
                   /\ Fine(q, setting, workspace_tenant, key_tenant)
                   /\ UNCHANGED <<rows, setting>>
    <3> DEFINE q == [Idle EXCEPT !.pc = "arrived", !.user = u, !.workspace = w]
    <3>1. q \in RequestStates /\ q.connection = None /\ q.pc = "arrived"
      BY DEF Idle, RequestStates, PCs
    <3>2. Fine(q, setting, workspace_tenant, key_tenant)
      BY NoneAssumption DEF Idle, Fine, Handling, Scoped
    <3>3. request[r] = Idle /\ request' = [request EXCEPT ![r] = q] /\ UNCHANGED <<rows, setting>>
      BY <2>1 DEF ReceiveForWorkspace, Go
    <3> HIDE DEF q
    <3>4. QED
      BY <3>1, <3>2, <3>3
  <2>2. ASSUME NEW u \in Users, NEW t \in Tenants, ReceiveForTenant(r, u, t)
        PROVE  \E q \in RequestStates :
                   /\ request[r] = Idle
                   /\ request' = [request EXCEPT ![r] = q]
                   /\ q.connection = None
                   /\ q.pc \in {"arrived", "resolved"}
                   /\ Fine(q, setting, workspace_tenant, key_tenant)
                   /\ UNCHANGED <<rows, setting>>
    <3> DEFINE q == [Idle EXCEPT !.pc = "arrived", !.user = u, !.tenant = t]
    <3>1. q \in RequestStates /\ q.connection = None /\ q.pc = "arrived"
      BY DEF Idle, RequestStates, PCs
    <3>2. Fine(q, setting, workspace_tenant, key_tenant)
      BY NoneAssumption DEF Idle, Fine, Handling, Scoped
    <3>3. request[r] = Idle /\ request' = [request EXCEPT ![r] = q] /\ UNCHANGED <<rows, setting>>
      BY <2>2 DEF ReceiveForTenant, Go
    <3> HIDE DEF q
    <3>4. QED
      BY <3>1, <3>2, <3>3
  <2>3. ASSUME NEW k \in Keys, NEW t \in Tenants, ReceiveWithKey(r, k, t)
        PROVE  \E q \in RequestStates :
                   /\ request[r] = Idle
                   /\ request' = [request EXCEPT ![r] = q]
                   /\ q.connection = None
                   /\ q.pc \in {"arrived", "resolved"}
                   /\ Fine(q, setting, workspace_tenant, key_tenant)
                   /\ UNCHANGED <<rows, setting>>
    <3> DEFINE q == [Idle EXCEPT !.pc = "resolved", !.key = k, !.tenant = t]
    <3>1. q \in RequestStates /\ q.connection = None /\ q.pc = "resolved"
      BY DEF Idle, RequestStates, PCs
    <3>2. Fine(q, setting, workspace_tenant, key_tenant)
      BY NoneAssumption DEF Idle, Fine, Handling, Scoped
    <3>3. request[r] = Idle /\ request' = [request EXCEPT ![r] = q] /\ UNCHANGED <<rows, setting>>
      BY <2>3 DEF ReceiveWithKey, Go
    <3> HIDE DEF q
    <3>4. QED
      BY <3>1, <3>2, <3>3
  <2>4. QED
    BY <2>1, <2>2, <2>3 DEF Receive
<1>2. request[r].connection = None /\ request[r].pc = "idle"
  BY <1>1 DEF Idle
<1>3. QED
  BY <1>1, <1>2, Move DEF Scoped, Handling

LEMMA CheckOutInv ==
    ASSUME IInv, NEW r \in Requests, NEW c \in Connections, CheckOut(r, c)
    PROVE  IInv'
<1> DEFINE q == [request[r] EXCEPT !.connection = c]
<1>1. request[r] \in RequestStates /\ Fine(request[r], setting, workspace_tenant, key_tenant)
  BY DEF IInv, RequestInv
<1>2. request[r].connection = None /\ Free(c) /\ request[r].pc \notin {"idle", "uploaded"}
  BY DEF CheckOut, Connected
<1>3. request[r].pc \notin Scoped
  BY <1>1, <1>2, NoneAssumption DEF Fine
<1>4. q \in RequestStates /\ q.connection = c /\ q.pc = request[r].pc
  BY <1>1 DEF RequestStates
<1>5. Fine(q, setting, workspace_tenant, key_tenant)
  BY <1>1, <1>2, <1>3 DEF Fine, RequestStates, Scoped, Handling
<1>6. request' = [request EXCEPT ![r] = q] /\ UNCHANGED <<rows, setting>>
  BY DEF CheckOut, Go
<1> HIDE DEF q
<1>7. QED
  BY <1>2, <1>3, <1>4, <1>5, <1>6, Move DEF Scoped, Handling

LEMMA ProvisionUserInv ==
    ASSUME IInv, NEW r \in Requests, ProvisionUser(r)
    PROVE  IInv'
<1> DEFINE q == [request[r] EXCEPT !.pc = "known"]
<1>1. request[r] \in RequestStates /\ Fine(request[r], setting, workspace_tenant, key_tenant)
      /\ request[r].pc = "arrived"
  BY DEF IInv, RequestInv, ProvisionUser
<1>2. q \in RequestStates /\ q.connection = request[r].connection /\ q.pc = "known"
  BY <1>1 DEF RequestStates, PCs
<1>3. Fine(q, setting, workspace_tenant, key_tenant)
  BY <1>1 DEF Fine, RequestStates, Scoped, Handling
<1>4. request' = [request EXCEPT ![r] = q] /\ UNCHANGED <<rows, setting>>
  BY DEF ProvisionUser, Go
<1> HIDE DEF q
<1>5. QED
  BY <1>1, <1>2, <1>3, <1>4, Move DEF Scoped, Handling

\* The tenant of a workspace request comes from a member row, which agrees with
\* the workspace.
LEMMA ResolveRoleInv ==
    ASSUME IInv, NEW r \in Requests, NEW t \in Tenants, ResolveRole(r, t)
    PROVE  IInv'
<1> DEFINE q == [request[r] EXCEPT !.pc = "resolved", !.tenant = t]
<1>1. request[r] \in RequestStates /\ Fine(request[r], setting, workspace_tenant, key_tenant)
      /\ request[r].pc = "known"
  BY DEF IInv, RequestInv, ResolveRole
<1>2. q \in RequestStates /\ q.connection = request[r].connection /\ q.pc = "resolved"
  BY <1>1 DEF RequestStates, PCs
<1>3. t \in ResolvedTenants(request[r])
  BY DEF ResolveRole
<1>4. request[r].workspace # None => workspace_tenant[request[r].workspace] = t
  BY <1>1, <1>3, NoneAssumption DEF ResolvedTenants, Fine, IInv, RowsInv, MemberRowsAgree
<1>5. request[r].workspace = None => <<t, request[r].user>> \in TenantMembers
  BY <1>3 DEF ResolvedTenants
<1>6. Fine(q, setting, workspace_tenant, key_tenant)
  BY <1>1, <1>4, <1>5 DEF Fine, RequestStates, Scoped, Handling
<1>7. request' = [request EXCEPT ![r] = q] /\ UNCHANGED <<rows, setting>>
  BY DEF ResolveRole, Go
<1> HIDE DEF q
<1>8. QED
  BY <1>1, <1>2, <1>6, <1>7, Move DEF Scoped, Handling

LEMMA LoseProvisioningInv ==
    ASSUME IInv, NEW r \in Requests, LoseProvisioning(r)
    PROVE  IInv'
<1> DEFINE q == [request[r] EXCEPT !.pc = "known", !.connection = None]
<1>1. request[r] \in RequestStates /\ Fine(request[r], setting, workspace_tenant, key_tenant)
      /\ request[r].pc = "arrived"
  BY DEF IInv, RequestInv, LoseProvisioning
<1>2. q \in RequestStates /\ q.connection = None /\ q.pc = "known"
  BY <1>1 DEF RequestStates, PCs
<1>3. Fine(q, setting', workspace_tenant', key_tenant')
  BY <1>1 DEF Fine, RequestStates, Scoped, Handling
<1>4. request' = [request EXCEPT ![r] = q] /\ UNCHANGED rows /\ Connected(r) /\ RolledBack(r)
  BY DEF LoseProvisioning, Go
<1>5. workspace_tenant' = workspace_tenant /\ key_tenant' = key_tenant
  BY <1>4 DEF rows
<1> HIDE DEF q
<1>6. QED
  BY <1>2, <1>3, <1>4, <1>5, RowsStay, Leave

\* The setting becomes the tenant of its request, until the transaction ends.
LEMMA SetTenantScopeInv ==
    ASSUME IInv, NEW r \in Requests, SetTenantScope(r)
    PROVE  IInv'
<1> DEFINE q == [request[r] EXCEPT !.pc =
                    IF request[r].key # None THEN "looking_up" ELSE "authorized"]
           c == request[r].connection
<1>1. request[r] \in RequestStates /\ Fine(request[r], setting, workspace_tenant, key_tenant)
      /\ request[r].pc = "resolved" /\ c # None
  BY DEF IInv, RequestInv, SetTenantScope, Connected
<1>2. c \in Connections /\ request[r].tenant \in Tenants
  BY <1>1 DEF RequestStates, Fine
<1>3. /\ q \in RequestStates /\ q.connection = c
      /\ q.pc = IF request[r].key # None THEN "looking_up" ELSE "authorized"
      /\ q.key = request[r].key /\ q.user = request[r].user
      /\ q.workspace = request[r].workspace /\ q.tenant = request[r].tenant
  BY <1>1 DEF RequestStates, PCs, Handling
<1>4. setting' = [setting EXCEPT ![c] = [setting[c] EXCEPT !.seen = request[r].tenant]]
  BY DEF SetTenantScope, SetLocal
<1>5. setting[c] \in Settings(Tenants) /\ setting[c].kept = None /\ setting[c].pending = None
  BY <1>2 DEF IInv, SettingInv
<1>6. /\ setting'[c] \in Settings(Tenants)
      /\ setting'[c].seen = request[r].tenant
      /\ setting'[c].kept = None /\ setting'[c].pending = None
  BY <1>2, <1>4, <1>5 DEF IInv, Settings
<1>7. setting' \in [Connections -> Settings(Tenants)]
      /\ \A d \in Connections : d # c => setting'[d] = setting[d]
  BY <1>2, <1>4, <1>6 DEF IInv
<1>8. request' = [request EXCEPT ![r] = q] /\ UNCHANGED rows
  BY DEF SetTenantScope, Go
<1>9. workspace_tenant' = workspace_tenant /\ key_tenant' = key_tenant
  BY <1>8 DEF rows
<1> HIDE DEF q
<1>10. Fine(q, setting', workspace_tenant, key_tenant)
  BY <1>1, <1>2, <1>3, <1>6 DEF Fine, Scoped, Handling
<1>11. Fine(q, setting', workspace_tenant', key_tenant')
  BY <1>9, <1>10
<1>12. q.pc \in Scoped /\ q.pc \notin {"creating", "issuing"}
  BY <1>3 DEF Scoped, Handling
<1>13. QED
  BY <1>3, <1>6, <1>7, <1>8, <1>9, <1>11, <1>12, RowsStay, Step

LEMMA ResolveApiKeyInv ==
    ASSUME IInv, NEW r \in Requests, ResolveApiKey(r)
    PROVE  IInv'
<1> DEFINE q == [request[r] EXCEPT !.pc = "authorized"]
<1>1. request[r] \in RequestStates /\ Fine(request[r], setting, workspace_tenant, key_tenant)
      /\ request[r].pc = "looking_up"
  BY DEF IInv, RequestInv, ResolveApiKey
<1>2. q \in RequestStates /\ q.connection = request[r].connection /\ q.pc = "authorized"
  BY <1>1 DEF RequestStates, PCs, Handling
<1>3. key_tenant[request[r].key] = request[r].tenant
  BY <1>1 DEF ResolveApiKey, FindsKey, Sees, Admits, Fine, Scoped
<1>4. Fine(q, setting, workspace_tenant, key_tenant)
  BY <1>1, <1>3 DEF Fine, RequestStates, Scoped, Handling
<1>5. request' = [request EXCEPT ![r] = q] /\ UNCHANGED <<rows, setting>>
  BY DEF ResolveApiKey, Go
<1> HIDE DEF q
<1>6. QED
  BY <1>1, <1>2, <1>4, <1>5, Move DEF Scoped, Handling

-----------------------------------------------------------------------------
(* The handlers                                                            *)

\* A handler only notes what it works on.
LEMMA HandleInv ==
    ASSUME IInv, NEW r \in Requests, Handle(r)
    PROVE  IInv'
<1>1. request[r] \in RequestStates /\ Fine(request[r], setting, workspace_tenant, key_tenant)
  BY DEF IInv, RequestInv
<1>2. ASSUME NEW pc \in {"creating", "issuing", "adding", "removing", "revoking"},
             NEW x \in Workspaces \cup Users \cup Keys,
             request[r].pc = "authorized",
             Go(r, [request[r] EXCEPT !.pc = pc, !.target = x]),
             UNCHANGED <<rows, setting>>,
             pc = "creating" =>
                 x \in Workspaces /\ request[r].user \in Users /\ workspace_tenant[x] = None,
             pc = "issuing" => x \in Keys /\ key_tenant[x] = None,
             pc \in {"creating", "issuing"} => ~Creating(x),
             pc \in {"adding", "removing"} => x \in Users /\ request[r].workspace # None,
             pc = "revoking" => x \in Keys /\ key_tenant[x] = request[r].tenant
      PROVE  IInv'
  <2> DEFINE q == [request[r] EXCEPT !.pc = pc, !.target = x]
  <2>1. /\ q \in RequestStates /\ q.connection = request[r].connection
        /\ q.pc = pc /\ q.target = x
    BY <1>1, <1>2 DEF RequestStates, PCs, Handling
  <2>2. /\ q.key = request[r].key /\ q.user = request[r].user
        /\ q.workspace = request[r].workspace /\ q.tenant = request[r].tenant
    BY <1>1 DEF RequestStates
  <2>3. request' = [request EXCEPT ![r] = q]
    BY <1>2 DEF Go
  <2> HIDE DEF q
  <2>4. Fine(q, setting, workspace_tenant, key_tenant)
    BY <1>1, <1>2, <2>1, <2>2 DEF Fine, Scoped, Handling
  <2>5. q.pc \in Scoped
    BY <1>2, <2>1 DEF Scoped, Handling
  <2>6. q.pc \in {"creating", "issuing"} =>
            \A p \in Requests \ {r} :
                request[p].pc \in {"creating", "issuing"} => request[p].target # q.target
    BY <1>2, <2>1 DEF Creating
  <2>7. QED
    BY <1>2, <2>1, <2>3, <2>4, <2>5, <2>6, Move
<1>3. ASSUME NEW pc \in {"uploading", "reading"},
             request[r].pc = "authorized",
             Go(r, [request[r] EXCEPT !.pc = pc]),
             UNCHANGED <<rows, setting>>,
             pc = "uploading" => request[r].workspace # None
      PROVE  IInv'
  <2> DEFINE q == [request[r] EXCEPT !.pc = pc]
  <2>1. q \in RequestStates /\ q.connection = request[r].connection /\ q.pc = pc
    BY <1>1, <1>3 DEF RequestStates, PCs, Handling
  <2>2. /\ q.key = request[r].key /\ q.user = request[r].user
        /\ q.workspace = request[r].workspace /\ q.tenant = request[r].tenant
    BY <1>1 DEF RequestStates
  <2>3. request' = [request EXCEPT ![r] = q]
    BY <1>3 DEF Go
  <2> HIDE DEF q
  <2>4. Fine(q, setting, workspace_tenant, key_tenant)
    BY <1>1, <1>3, <2>1, <2>2 DEF Fine, Scoped, Handling
  <2>5. q.pc \in Scoped /\ q.pc \notin {"creating", "issuing"}
    BY <1>3, <2>1 DEF Scoped, Handling
  <2>6. QED
    BY <1>3, <2>1, <2>3, <2>4, <2>5, Move
<1>4. ASSUME NEW w \in Workspaces, CreateWorkspace(r, w) PROVE IInv'
  <2>1. request[r].user \in Users
    BY <1>1, <1>4 DEF CreateWorkspace, ByTenantAdmin, RequestStates
  <2>2. QED
    BY <1>2, <1>4, <2>1 DEF CreateWorkspace, ByTenantAdmin
<1>5. ASSUME NEW k \in Keys, CreateApiKey(r, k) PROVE IInv'
  BY <1>2, <1>5 DEF CreateApiKey, ByTenantAdmin
<1>6. ASSUME NEW u \in Users, AddWorkspaceMember(r, u) PROVE IInv'
  BY <1>2, <1>6 DEF AddWorkspaceMember, OnWorkspace
<1>7. ASSUME NEW u \in Users, RemoveWorkspaceMember(r, u) PROVE IInv'
  BY <1>2, <1>7 DEF RemoveWorkspaceMember, OnWorkspace
<1>8. ASSUME NEW k \in Keys, RevokeApiKey(r, k) PROVE IInv'
  <2>1. key_tenant[k] = request[r].tenant
    BY <1>1, <1>8 DEF RevokeApiKey, Sees, Admits, Fine, Scoped, Handling
  <2>2. QED
    BY <1>2, <1>8, <2>1 DEF RevokeApiKey
<1>9. ASSUME UploadDocument(r) PROVE IInv'
  BY <1>3, <1>9 DEF UploadDocument, OnWorkspace
<1>10. ASSUME ReadRows(r) PROVE IInv'
  BY <1>3, <1>10 DEF ReadRows
<1>11. QED
  BY <1>4, <1>5, <1>6, <1>7, <1>8, <1>9, <1>10 DEF Handle

-----------------------------------------------------------------------------
(* The end of the transaction                                              *)

LEMMA CommitWorkspaceInv ==
    ASSUME IInv, NEW r \in Requests, CommitWorkspace(r)
    PROVE  IInv'
<1> DEFINE q == request[r]
<1>1. q \in RequestStates /\ Fine(q, setting, workspace_tenant, key_tenant) /\ q.pc = "creating"
  BY DEF IInv, RequestInv, CommitWorkspace
<1>2. /\ q.target \in Workspaces /\ workspace_tenant[q.target] = None /\ q.tenant \in Tenants
      /\ q.user \in Users
      /\ q.connection \in Connections
  BY <1>1 DEF Fine, Scoped, Handling
<1>3. /\ workspace_tenant' = [workspace_tenant EXCEPT ![q.target] = q.tenant]
      /\ member' = [member EXCEPT ![q.target][q.user] = q.tenant]
      /\ UNCHANGED <<key_tenant, revoked, documents>>
      /\ Committed(r) /\ request' = [request EXCEPT ![r] = Idle]
  BY DEF CommitWorkspace, Go
<1>4. RowTypes /\ MemberRowsAgree /\ DocumentsAgree
  BY DEF IInv, RowsInv
<1> HIDE DEF q
<1>5. RowTypes'
  BY <1>2, <1>3, <1>4 DEF RowTypes
<1>6. MemberRowsAgree'
  BY <1>2, <1>3, <1>4 DEF RowTypes, MemberRowsAgree
<1>7. DocumentsAgree'
  <2>1. \A d \in documents :
            d.workspace \in Workspaces /\ d.tenant \in Tenants /\ d.tenant = workspace_tenant[d.workspace]
    BY <1>4 DEF RowTypes, DocumentsAgree
  <2>2. \A d \in documents : d.workspace # q.target
    BY <1>2, <2>1, NoneAssumption
  <2>3. QED
    BY <1>2, <1>3, <1>4, <2>1, <2>2 DEF RowTypes, DocumentsAgree
<1>8. \A w \in Workspaces :
          \/ workspace_tenant'[w] = workspace_tenant[w]
          \/ /\ workspace_tenant[w] = None
             /\ request[r].pc = "creating" /\ request[r].target = w
  BY <1>1, <1>2, <1>3, <1>4 DEF RowTypes, q
<1>9. Connected(r)
  BY <1>2, NoneAssumption DEF Connected, q
<1>10. Idle.connection = None /\ Idle.pc = "idle"
  BY DEF Idle
<1>11. RowsInv'
  BY <1>5, <1>6, <1>7 DEF RowsInv
<1>12. QED
  BY <1>3, <1>8, <1>9, <1>10, <1>11, IdleFine, Leave

\* The handlers whose commit leaves the workspaces and the keys alone, and
\* those that fail.
LEMMA EndInv ==
    ASSUME IInv, NEW r \in Requests,
           Connected(r), RolledBack(r) \/ Committed(r), Go(r, Idle),
           RowsInv', UNCHANGED <<workspace_tenant, key_tenant>>
    PROVE  IInv'
<1>1. Idle.connection = None /\ Idle.pc = "idle"
  BY DEF Idle
<1>2. request' = [request EXCEPT ![r] = Idle]
  BY DEF Go
<1>3. QED
  BY <1>1, <1>2, IdleFine, Leave

LEMMA CommitMemberInv ==
    ASSUME IInv, NEW r \in Requests, CommitMember(r)
    PROVE  IInv'
<1> DEFINE q == request[r]
<1>1. q \in RequestStates /\ Fine(q, setting, workspace_tenant, key_tenant) /\ q.pc = "adding"
  BY DEF IInv, RequestInv, CommitMember
<1>2. /\ q.target \in Users /\ q.tenant \in Tenants /\ q.connection \in Connections
      /\ q.workspace \in Workspaces /\ workspace_tenant[q.workspace] = q.tenant
  BY <1>1 DEF Fine, Scoped, Handling
<1>3. /\ member' = [member EXCEPT ![q.workspace][q.target] = q.tenant]
      /\ UNCHANGED <<workspace_tenant, key_tenant, revoked, documents>>
  BY DEF CommitMember, CopiedTenant
<1>4. Connected(r) /\ Committed(r) /\ Go(r, Idle)
  BY <1>2, NoneAssumption DEF CommitMember, Connected
<1> HIDE DEF q
<1>5. RowsInv'
  BY <1>2, <1>3 DEF IInv, RowsInv, RowTypes, MemberRowsAgree, DocumentsAgree
<1>6. QED
  BY <1>3, <1>4, <1>5, EndInv

LEMMA CommitRemovalInv ==
    ASSUME IInv, NEW r \in Requests, CommitRemoval(r)
    PROVE  IInv'
<1> DEFINE q == request[r]
<1>1. q \in RequestStates /\ Fine(q, setting, workspace_tenant, key_tenant) /\ q.pc = "removing"
  BY DEF IInv, RequestInv, CommitRemoval
<1>2. /\ q.target \in Users /\ q.connection \in Connections /\ q.workspace \in Workspaces
  BY <1>1 DEF Fine, Scoped, Handling
<1>3. /\ member' = [member EXCEPT ![q.workspace][q.target] = None]
      /\ UNCHANGED <<workspace_tenant, key_tenant, revoked, documents>>
  BY DEF CommitRemoval
<1>4. Connected(r) /\ Committed(r) /\ Go(r, Idle)
  BY <1>2, NoneAssumption DEF CommitRemoval, Connected
<1> HIDE DEF q
<1>5. RowsInv'
  BY <1>2, <1>3 DEF IInv, RowsInv, RowTypes, MemberRowsAgree, DocumentsAgree
<1>6. QED
  BY <1>3, <1>4, <1>5, EndInv

LEMMA CommitApiKeyInv ==
    ASSUME IInv, NEW r \in Requests, CommitApiKey(r)
    PROVE  IInv'
<1> DEFINE q == request[r]
<1>1. q \in RequestStates /\ Fine(q, setting, workspace_tenant, key_tenant) /\ q.pc = "issuing"
  BY DEF IInv, RequestInv, CommitApiKey
<1>2. /\ q.target \in Keys /\ key_tenant[q.target] = None /\ q.tenant \in Tenants
      /\ q.connection \in Connections
  BY <1>1 DEF Fine, Scoped, Handling
<1>3. /\ key_tenant' = [key_tenant EXCEPT ![q.target] = q.tenant]
      /\ UNCHANGED <<workspace_tenant, member, revoked, documents>>
      /\ Committed(r) /\ request' = [request EXCEPT ![r] = Idle]
  BY DEF CommitApiKey, Go
<1>4. \A k \in Keys :
          \/ key_tenant'[k] = key_tenant[k]
          \/ /\ key_tenant[k] = None
             /\ request[r].pc = "issuing" /\ request[r].target = k
  BY <1>1, <1>2, <1>3 DEF IInv, RowsInv, RowTypes
<1>5. Connected(r)
  BY <1>2, NoneAssumption DEF Connected
<1> HIDE DEF q
<1>6. RowsInv'
  BY <1>2, <1>3 DEF IInv, RowsInv, RowTypes, MemberRowsAgree, DocumentsAgree
<1>7. Idle.connection = None /\ Idle.pc = "idle"
  BY DEF Idle
<1>8. QED
  BY <1>3, <1>4, <1>5, <1>6, <1>7, IdleFine, Leave

LEMMA CommitRevocationInv ==
    ASSUME IInv, NEW r \in Requests, CommitRevocation(r)
    PROVE  IInv'
<1>1. Fine(request[r], setting, workspace_tenant, key_tenant) /\ request[r].pc = "revoking"
  BY DEF IInv, RequestInv, CommitRevocation
<1>2. request[r].target \in Keys /\ request[r].connection \in Connections
  BY <1>1 DEF Fine, Scoped, Handling
<1>3. /\ revoked' = revoked \cup {request[r].target}
      /\ UNCHANGED <<workspace_tenant, member, key_tenant, documents>>
  BY DEF CommitRevocation
<1>4. Connected(r) /\ Committed(r) /\ Go(r, Idle)
  BY <1>2, NoneAssumption DEF CommitRevocation, Connected
<1>5. RowsInv'
  BY <1>2, <1>3 DEF IInv, RowsInv, RowTypes, MemberRowsAgree, DocumentsAgree
<1>6. QED
  BY <1>3, <1>4, <1>5, EndInv

LEMMA CommitReadInv ==
    ASSUME IInv, NEW r \in Requests, CommitRead(r)
    PROVE  IInv'
<1>1. Fine(request[r], setting, workspace_tenant, key_tenant) /\ request[r].pc = "reading"
  BY DEF IInv, RequestInv, CommitRead
<1>2. Connected(r)
  BY <1>1, NoneAssumption DEF Connected, Fine, Scoped, Handling
<1>3. Committed(r) /\ Go(r, Idle) /\ UNCHANGED rows
  BY DEF CommitRead
<1>4. UNCHANGED <<workspace_tenant, key_tenant>>
  BY <1>3 DEF rows
<1>5. QED
  BY <1>2, <1>3, <1>4, RowsStay, EndInv

LEMMA CommitUploadInv ==
    ASSUME IInv, NEW r \in Requests, CommitUpload(r)
    PROVE  IInv'
<1> DEFINE q == [request[r] EXCEPT !.pc = "uploaded", !.connection = None]
<1>1. /\ request[r] \in RequestStates /\ Fine(request[r], setting, workspace_tenant, key_tenant)
      /\ request[r].pc = "uploading"
  BY DEF IInv, RequestInv, CommitUpload
<1>2. /\ request[r].workspace \in Workspaces /\ request[r].tenant \in Tenants
      /\ workspace_tenant[request[r].workspace] = request[r].tenant
      /\ request[r].connection \in Connections
  BY <1>1 DEF Fine, Scoped, Handling
<1>3. /\ documents' = documents \cup
             {[workspace |-> request[r].workspace, tenant |-> request[r].tenant]}
      /\ UNCHANGED <<workspace_tenant, member, key_tenant, revoked>>
      /\ Committed(r) /\ request' = [request EXCEPT ![r] = q]
  BY DEF CommitUpload, Go
<1>4. Connected(r)
  BY <1>2, NoneAssumption DEF Connected
<1>5. q \in RequestStates /\ q.connection = None /\ q.pc = "uploaded"
  BY <1>1 DEF RequestStates, PCs
<1>6. Fine(q, setting', workspace_tenant', key_tenant')
  BY <1>1 DEF Fine, RequestStates, Scoped, Handling
<1> HIDE DEF q
<1>7. RowsInv'
  BY <1>2, <1>3 DEF IInv, RowsInv, RowTypes, MemberRowsAgree, DocumentsAgree
<1>8. QED
  BY <1>3, <1>4, <1>5, <1>6, <1>7, Leave

\* Without a connection the setting of none changes.
LEMMA EndWithoutConnectionInv ==
    ASSUME IInv, NEW r \in Requests, ~Connected(r), Go(r, Idle), UNCHANGED <<rows, setting>>
    PROVE  IInv'
<1>1. request[r].connection = None /\ Idle.connection = None /\ Idle.pc = "idle"
  BY DEF Connected, Idle
<1>2. request[r].pc \notin Scoped
  BY <1>1, NoneAssumption DEF IInv, RequestInv, Fine
<1>3. request' = [request EXCEPT ![r] = Idle]
  BY DEF Go
<1>4. QED
  BY <1>1, <1>2, <1>3, IdleFine, Move

LEMMA EndFailedInv ==
    ASSUME IInv, NEW r \in Requests, EndFailed(r)
    PROVE  IInv'
<1>1. UNCHANGED <<workspace_tenant, key_tenant>>
  BY DEF EndFailed, rows
<1>2. CASE Connected(r)
  BY <1>1, <1>2, RowsStay, EndInv DEF EndFailed
<1>3. CASE ~Connected(r)
  BY <1>3, EndWithoutConnectionInv DEF EndFailed
<1>4. QED
  BY <1>2, <1>3

LEMMA EndsInv ==
    ASSUME IInv, NEW r \in Requests, End(r) \/ Fail(r)
    PROVE  IInv'
<1>1. ASSUME AnswerUpload(r) PROVE IInv'
  <2>1. Fine(request[r], setting, workspace_tenant, key_tenant) /\ request[r].pc = "uploaded"
    BY <1>1 DEF IInv, RequestInv, AnswerUpload
  <2>2. ~Connected(r)
    BY <2>1 DEF Fine, Connected
  <2>3. QED
    BY <1>1, <2>2, EndWithoutConnectionInv DEF AnswerUpload
<1>2. Refuse(r) \/ Fail(r) => EndFailed(r)
  BY DEF Refuse, Fail
<1>3. QED
  BY <1>1, <1>2, CommitWorkspaceInv, CommitMemberInv, CommitRemovalInv, CommitApiKeyInv,
     CommitRevocationInv, CommitReadInv, CommitUploadInv, EndFailedInv DEF End

LEMMA AuthenticateInv ==
    ASSUME IInv, NEW r \in Requests, Authenticate(r)
    PROVE  IInv'
BY CheckOutInv, ProvisionUserInv, LoseProvisioningInv, ResolveRoleInv, SetTenantScopeInv,
   ResolveApiKeyInv DEF Authenticate

LEMMA StepInv == IInv /\ [Next]_vars => IInv'
<1>1. ASSUME IInv, Next PROVE IInv'
  BY <1>1, ReceiveInv, AuthenticateInv, HandleInv, EndsInv DEF Next
<1>2. ASSUME IInv, UNCHANGED vars PROVE IInv'
  <2>1. UNCHANGED <<rows, setting, request>>
    BY <1>2 DEF vars
  <2>2. RowsInv'
    BY <1>2, <2>1, RowsStay
  <2>3. QED
    BY <1>2, <2>1, <2>2
    DEF IInv, rows, RequestInv, ConnectionInv, SettingInv, TargetInv
<1>3. QED
  BY <1>1, <1>2

LEMMA InvariantHolds == Spec => []IInv
BY InitInv, StepInv, PTL DEF Spec

-----------------------------------------------------------------------------
(* The properties                                                          *)

\* Every variable keeps its type.
THEOREM TypeCorrect == Spec => []TypeOK
<1>1. IInv => TypeOK
  BY DEF IInv, RowsInv, RowTypes, TypeOK
<1>2. QED
  BY <1>1, InvariantHolds, PTL

\* set_tenant_scope with local=True: a connection that no request holds has no
\* tenant, however many requests have used it and however they ended.
THEOREM PoolStaysUnscoped == Spec => []PoolIsUnscoped
<1>1. ASSUME IInv PROVE PoolIsUnscoped
  <2>1. SUFFICES ASSUME NEW c \in Connections, Free(c) PROVE setting[c] = Unset
    BY DEF PoolIsUnscoped
  <2>2. setting[c].kept = None /\ setting[c].pending = None /\ setting[c].seen = None
    BY <1>1, <2>1 DEF IInv, SettingInv, Free
  <2>3. setting[c] \in Settings(Tenants)
    BY <1>1 DEF IInv
  <2>4. QED
    BY <2>2, <2>3 DEF Settings, Unset
<1>2. QED
  BY <1>1, InvariantHolds, PTL

\* Between the role check and the commit the session of a request sees its
\* tenant, however requests and pooled connections are interleaved.
THEOREM HandlersKeepTheirTenant == Spec => []HandlersSeeTheirTenant
<1>1. ASSUME IInv PROVE HandlersSeeTheirTenant
  <2>1. SUFFICES ASSUME NEW r \in Requests, request[r].pc \in Handling
                 PROVE  Connected(r) /\ Sees(r, request[r].tenant)
    BY DEF HandlersSeeTheirTenant
  <2>2. Fine(request[r], setting, workspace_tenant, key_tenant)
    BY <1>1 DEF IInv, RequestInv
  <2>3. /\ request[r].connection \in Connections /\ request[r].tenant \in Tenants
        /\ setting[request[r].connection].seen = request[r].tenant
    BY <2>1, <2>2 DEF Fine, Scoped
  <2>4. QED
    BY <2>3, NoneAssumption DEF Connected, Sees, Admits
<1>2. QED
  BY <1>1, InvariantHolds, PTL

\* The copy of the tenant in a workspace_members row is that of its workspace.
THEOREM MemberRowsStayInAgreement == Spec => []MemberRowsAgree
<1>1. IInv => MemberRowsAgree
  BY DEF IInv, RowsInv
<1>2. QED
  BY <1>1, InvariantHolds, PTL

\* Whoever is let into a workspace sees all of its documents.
THEOREM WorkspacesStayComplete == Spec => []WorkspaceIsComplete
<1>1. ASSUME IInv PROVE WorkspaceIsComplete
  <2>1. SUFFICES ASSUME NEW r \in Requests, NEW d \in documents, request[r].pc \in Handling,
                        d.workspace = request[r].workspace
                 PROVE  Sees(r, d.tenant)
    BY DEF WorkspaceIsComplete
  <2>2. Fine(request[r], setting, workspace_tenant, key_tenant)
    BY <1>1 DEF IInv, RequestInv
  <2>3. /\ d.workspace \in Workspaces /\ d.tenant \in Tenants
        /\ d.tenant = workspace_tenant[d.workspace]
    BY <1>1 DEF IInv, RowsInv, RowTypes, DocumentsAgree
  <2>4. d.tenant = request[r].tenant
    BY <2>1, <2>2, <2>3, NoneAssumption DEF Fine
  <2>5. setting[request[r].connection].seen = request[r].tenant
    BY <2>1, <2>2 DEF Fine, Scoped
  <2>6. QED
    BY <2>3, <2>4, <2>5, NoneAssumption DEF Sees, Admits
<1>2. QED
  BY <1>1, InvariantHolds, PTL

\* A connection is scoped to a tenant only for a request with a right to it.
THEOREM ScopeStaysEarned == Spec => []ScopeIsEarned
<1>1. ASSUME IInv PROVE ScopeIsEarned
  <2>1. SUFFICES ASSUME NEW c \in Connections, setting[c].seen # None
                 PROVE  \E r \in Requests :
                            /\ request[r].connection = c
                            /\ \/ request[r].pc = "looking_up"
                               \/ /\ request[r].key # None
                                  /\ key_tenant[request[r].key] = setting[c].seen
                               \/ /\ request[r].workspace # None
                                  /\ workspace_tenant[request[r].workspace] = setting[c].seen
                               \/ <<setting[c].seen, request[r].user>> \in TenantMembers
    BY DEF ScopeIsEarned
  <2>2. PICK r \in Requests : request[r].connection = c /\ request[r].pc \in Scoped
    BY <1>1, <2>1 DEF IInv, SettingInv
  <2>3. Fine(request[r], setting, workspace_tenant, key_tenant)
    BY <1>1 DEF IInv, RequestInv
  <2>4. setting[c].seen = request[r].tenant
    BY <2>2, <2>3 DEF Fine
  <2>5. CASE request[r].pc = "looking_up"
    BY <2>2, <2>5
  <2>6. CASE request[r].pc \in Handling
    <3>1. \/ request[r].key # None /\ key_tenant[request[r].key] = setting[c].seen
          \/ request[r].workspace # None /\ workspace_tenant[request[r].workspace] = setting[c].seen
          \/ <<setting[c].seen, request[r].user>> \in TenantMembers
      BY <2>3, <2>4, <2>6 DEF Fine
    <3>2. QED
      BY <2>2, <3>1
  <2>7. QED
    BY <2>2, <2>5, <2>6 DEF Scoped
<1>2. QED
  BY <1>1, InvariantHolds, PTL

\* revoke_api_key finds its row by the id alone, and the policy keeps it to the
\* keys of the tenant in the path.
THEOREM RevocationsStayInTheTenant == Spec => RevokedByItsTenant
<1> DEFINE Revokes ==
        \A k \in revoked' \ revoked :
            \E r \in Requests : request[r].pc = "revoking" /\ request[r].tenant = key_tenant[k]
<1>1. ASSUME IInv, NEW r \in Requests, CommitRevocation(r) PROVE Revokes
  <2>1. Fine(request[r], setting, workspace_tenant, key_tenant) /\ request[r].pc = "revoking"
    BY <1>1 DEF IInv, RequestInv, CommitRevocation
  <2>2. revoked' = revoked \cup {request[r].target}
    BY <1>1 DEF CommitRevocation
  <2>3. QED
    BY <2>1, <2>2 DEF Fine
<1>2. ASSUME NEW r \in Requests,
             Receive(r) \/ Authenticate(r) \/ Handle(r) \/ End(r) \/ Fail(r)
      PROVE  CommitRevocation(r) \/ revoked' = revoked
  <2>1. Receive(r) => revoked' = revoked
    BY DEF Receive, ReceiveForWorkspace, ReceiveForTenant, ReceiveWithKey, rows
  <2>2. Authenticate(r) => revoked' = revoked
    BY DEF Authenticate, CheckOut, ProvisionUser, LoseProvisioning, ResolveRole, SetTenantScope,
       ResolveApiKey, rows
  <2>3. Handle(r) => revoked' = revoked
    BY DEF Handle, CreateWorkspace, CreateApiKey, AddWorkspaceMember, RemoveWorkspaceMember,
       RevokeApiKey, UploadDocument, ReadRows, rows
  <2>4. End(r) => CommitRevocation(r) \/ revoked' = revoked
    BY DEF End, CommitWorkspace, CommitMember, CommitRemoval, CommitApiKey, CommitRead,
       CommitUpload, AnswerUpload, Refuse, EndFailed, rows
  <2>5. Fail(r) => revoked' = revoked
    BY DEF Fail, EndFailed, rows
  <2>6. QED
    BY <1>2, <2>1, <2>2, <2>3, <2>4, <2>5
<1>3. IInv /\ [Next]_vars => [Revokes]_vars
  BY <1>1, <1>2 DEF Next
<1>4. QED
  BY <1>3, InvariantHolds, PTL DEF Spec, RevokedByItsTenant
=============================================================================
