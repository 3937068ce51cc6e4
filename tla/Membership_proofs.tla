-------------------------- MODULE Membership_proofs --------------------------
(***************************************************************************)
(* What Membership guarantees for any number of users and of requests that *)
(* overlap in any way.                                                     *)
(***************************************************************************)
EXTENDS Membership, TLAPS

Existing == {s \in Scopes : Exists(s)}
Creations == {"create_tenant", "create_workspace"}
Created == [create_tenant |-> "tenant", create_workspace |-> "workspace"]

\* What is known of a request q while acc are the accounts and ex the scopes
\* that exist.
Fine(q, acc, ex) ==
    /\ q.pc = "idle" => q = Idle
    /\ q.pc \in {"provisioning", "identified"} => q.user \in Users /\ q.scope = None
    /\ q.pc = "authorized" => q.scope \in Scopes
    /\ q.pc # "answered" => q.action = None /\ q.rank = None
    /\ q.pc \in {"identified", "authorized", "answered"} =>
          q.inserted \/ q.user \in acc \cup {None}
    /\ q.inserted =>
          /\ q.pc \in {"identified", "authorized", "answered"}
          /\ q.user \in Users
          /\ \A w \in acc : ~Conflict(w, q.user)
    /\ q.scope # None => q.scope \in ex
    /\ q.action \in Creations => q.user \in Users /\ Created[q.action] \notin ex
    /\ q.action \in {"create_key", "revoke_key"} => q.scope = "tenant"
    /\ q.action \in MemberActions => q.scope \in Scopes /\ q.target \in Users
    /\ q.action \in {"add", "role_change"} => q.rank \in Ranks
    /\ q.action = "remove" => q.rank = None

\* session.get found the row of which q changes the rank, or which it removes.
Loaded(q, had) ==
    q.action \in {"role_change", "remove"} => q.loaded \in had[q.scope][q.target]

\* What is known of two requests.
Apart(p, q) ==
    /\ p.inserted /\ q.inserted => ~Conflict(p.user, q.user)
    /\ p.action = q.action => p.action \notin Creations

RequestInv ==
    /\ \A r \in Requests : Fine(request[r], account, Existing) /\ Loaded(request[r], held)
    /\ \A p, r \in Requests : p # r => Apart(request[p], request[r])

\* The property about the log, of one scope: h the ranks held, a the audit
\* rows, m the member rows.
Tells(h, a, m) ==
    /\ \A u \in Users :
          /\ a[u] \ {None} \subseteq h[u]
          /\ h[u] \ a[u] \subseteq {Owner}
          /\ a[u] # {} => h[u] # {}
          /\ h[u] # {} /\ m[u] = None => None \in a[u]
    /\ \A u, w \in Users : ~(h[u] \subseteq a[u]) /\ ~(h[w] \subseteq a[w]) => u = w

RanksAreHeld == \A s \in Scopes, u \in Users : role[s][u] # None => role[s][u] \in held[s][u]

RowsInv ==
    /\ key # "absent" => "tenant" \in Existing
    /\ MembersHaveAccounts
    /\ AccountsDiffer
    /\ RanksAreHeld
    /\ \A s \in Scopes : Tells(held[s], audit[s], role[s])

IInv == TypeOK /\ RequestInv /\ RowsInv

-----------------------------------------------------------------------------

LEMMA IdleFine ==
    /\ Idle \in RequestStates
    /\ \A acc, ex : Fine(Idle, acc, ex)
    /\ \A had : Loaded(Idle, had)
    /\ \A q : Apart(Idle, q) /\ Apart(q, Idle)
  BY NoneAssumption DEF Idle, RequestStates, PCs, Fine, Loaded, Apart, Creations, MemberActions, Actions

LEMMA ConflictSymmetric == \A u, w : Conflict(u, w) <=> Conflict(w, u)
<1>1. \A u, w : {u, w} = {w, u}
  OBVIOUS
<1>2. QED
  BY <1>1 DEF Conflict

LEMMA InitInv == Init => IInv
<1>1. SUFFICES ASSUME Init PROVE IInv
  OBVIOUS
<1>2. TypeOK
  BY <1>1, IdleFine DEF Init, TypeOK
<1>3. Existing = {}
  BY <1>1 DEF Init, Existing, Exists
<1>4. RequestInv
  BY <1>1, IdleFine DEF Init, RequestInv
<1>5. RowsInv
  BY <1>1 DEF Init, RowsInv, MembersHaveAccounts, AccountsDiffer, RanksAreHeld, Tells
<1>6. QED
  BY <1>2, <1>4, <1>5 DEF IInv

-----------------------------------------------------------------------------
(* A request that moves                                                    *)

LEMMA RequestMoves ==
    ASSUME request \in [Requests -> RequestStates], RequestInv,
           NEW r \in Requests, NEW q \in RequestStates, Set(r, q),
           Fine(q, account', Existing'), Loaded(q, held'),
           \A p \in Requests \ {r} :
               /\ Fine(request[p], account', Existing') /\ Loaded(request[p], held')
               /\ Apart(q, request[p]) /\ Apart(request[p], q)
    PROVE  request' \in [Requests -> RequestStates] /\ RequestInv'
<1>1. request' = [request EXCEPT ![r] = q]
  BY DEF Set
<1>2. request' \in [Requests -> RequestStates]
  BY <1>1
<1>3. \A p \in Requests : request'[p] = IF p = r THEN q ELSE request[p]
  BY <1>1
<1>4. \A p \in Requests : Fine(request'[p], account', Existing') /\ Loaded(request'[p], held')
  BY <1>3
<1>5. \A p, s \in Requests : p # s => Apart(request'[p], request'[s])
  BY <1>3 DEF RequestInv
<1>6. QED
  BY <1>2, <1>4, <1>5 DEF RequestInv

\* Before the commit nothing but the request itself changes.
LEMMA Quiet ==
    ASSUME IInv, NEW r \in Requests, NEW q \in RequestStates, Set(r, q),
           UNCHANGED <<account, role, audit, held, key>>,
           Fine(q, account, Existing), Loaded(q, held),
           \A p \in Requests \ {r} : Apart(q, request[p]) /\ Apart(request[p], q)
    PROVE  IInv'
<1>1. Existing' = Existing
  BY DEF Existing, Exists
<1>2. request' \in [Requests -> RequestStates] /\ RequestInv'
  BY <1>1, RequestMoves DEF IInv, TypeOK, RequestInv
<1>3. TypeOK'
  BY <1>2 DEF IInv, TypeOK
<1>4. RowsInv'
  BY <1>1 DEF IInv, RowsInv, MembersHaveAccounts, AccountsDiffer, RanksAreHeld
<1>5. QED
  BY <1>2, <1>3, <1>4 DEF IInv

\* The same for a request that inserts no row and creates nothing.
LEMMA QuietMove ==
    ASSUME IInv, NEW r \in Requests, NEW q \in RequestStates, Set(r, q),
           UNCHANGED <<account, role, audit, held, key>>,
           Fine(q, account, Existing), Loaded(q, held),
           q.inserted => request[r].inserted /\ q.user = request[r].user,
           q.action \notin Creations
    PROVE  IInv'
<1>1. ASSUME NEW p \in Requests \ {r} PROVE Apart(q, request[p]) /\ Apart(request[p], q)
  BY ConflictSymmetric DEF IInv, RequestInv, Apart
<1>2. QED
  BY <1>1, Quiet

-----------------------------------------------------------------------------
(* Up to the response                                                      *)

\* A request as the invariant has it.
LEMMA RequestAsIs ==
    ASSUME IInv, NEW r \in Requests
    PROVE  /\ request[r] \in RequestStates
           /\ Fine(request[r], account, Existing)
           /\ Loaded(request[r], held)
  BY DEF IInv, TypeOK, RequestInv

LEMMA LookUpUserInv ==
    ASSUME IInv, NEW r \in Requests, NEW u \in Users, LookUpUser(r, u) PROVE IInv'
<1> DEFINE q == [Idle EXCEPT !.pc = IF u \in account THEN "identified" ELSE "provisioning",
                             !.user = u]
<1>1. /\ q \in RequestStates /\ q.user = u /\ ~q.inserted /\ q.scope = None /\ q.action = None
      /\ q.rank = None /\ q.pc = IF u \in account THEN "identified" ELSE "provisioning"
  BY DEF Idle, RequestStates, PCs
<1>2. Set(r, q) /\ UNCHANGED <<account, role, audit, held, key>>
  BY DEF LookUpUser
<1> HIDE DEF q
<1>3. Fine(q, account, Existing) /\ Loaded(q, held) /\ q.action \notin Creations
  BY <1>1, NoneAssumption DEF Fine, Loaded, Creations, MemberActions, Actions
<1>4. QED
  BY <1>1, <1>2, <1>3, QuietMove

LEMMA InsertUserInv ==
    ASSUME IInv, NEW r \in Requests, InsertUser(r) PROVE IInv'
<1> DEFINE q == [request[r] EXCEPT !.pc = "identified", !.inserted = TRUE]
<1>1. request[r] \in RequestStates /\ Fine(request[r], account, Existing)
  BY RequestAsIs
<1>2. /\ q \in RequestStates /\ q.user = request[r].user /\ q.inserted
      /\ q.scope = request[r].scope /\ q.action = request[r].action
      /\ q.rank = request[r].rank /\ q.pc = "identified"
  BY <1>1 DEF RequestStates, PCs
<1>3. Set(r, q) /\ UNCHANGED <<account, role, audit, held, key>>
  BY DEF InsertUser
<1> HIDE DEF q
<1>4. q.user \in Users /\ q.scope = None /\ q.action = None /\ q.rank = None
  BY <1>1, <1>2 DEF InsertUser, Fine
<1>5. \A w \in account : ~Conflict(w, q.user)
  BY <1>2 DEF InsertUser, RowIsTaken
<1>6. Fine(q, account, Existing) /\ Loaded(q, held)
  BY <1>2, <1>4, <1>5, NoneAssumption DEF Fine, Loaded, Creations, MemberActions, Actions
<1>7. ASSUME NEW p \in Requests \ {r} PROVE Apart(q, request[p]) /\ Apart(request[p], q)
  BY <1>2, <1>4, ConflictSymmetric, NoneAssumption DEF InsertUser, RowIsHeld, Apart, Creations, Actions
<1>8. QED
  BY <1>2, <1>3, <1>6, <1>7, Quiet

LEMMA EndsQuietly ==
    ASSUME IInv, NEW r \in Requests, Set(r, Idle), UNCHANGED <<account, role, audit, held, key>>
    PROVE  IInv'
  BY IdleFine, Quiet

LEMMA RequeryUserInv ==
    ASSUME IInv, NEW r \in Requests, RequeryUser(r) PROVE IInv'
<1>1. CASE ~FoundAgain(r)
  BY <1>1, EndsQuietly DEF RequeryUser
<1>2. CASE FoundAgain(r)
  <2> DEFINE q == [request[r] EXCEPT !.pc = "identified"]
  <2>1. request[r] \in RequestStates /\ Fine(request[r], account, Existing)
    BY RequestAsIs
  <2>2. /\ q \in RequestStates /\ q.user = request[r].user /\ q.inserted = request[r].inserted
        /\ q.scope = request[r].scope /\ q.action = request[r].action
        /\ q.rank = request[r].rank /\ q.pc = "identified"
    BY <2>1 DEF RequestStates, PCs
  <2>3. Set(r, q) /\ UNCHANGED <<account, role, audit, held, key>>
    BY <1>2 DEF RequeryUser
  <2> HIDE DEF q
  <2>4. q.user \in account /\ q.user \in Users /\ q.scope = None /\ q.action = None /\ q.rank = None
        /\ ~q.inserted
    BY <1>2, <2>1, <2>2 DEF RequeryUser, FoundAgain, Fine, RequestStates
  <2>5. Fine(q, account, Existing) /\ Loaded(q, held) /\ q.action \notin Creations
    BY <2>2, <2>4, NoneAssumption DEF Fine, Loaded, Creations, MemberActions, Actions
  <2>6. QED
    BY <2>2, <2>3, <2>4, <2>5, QuietMove
<1>3. QED
  BY <1>1, <1>2

LEMMA AuthorizeInv ==
    ASSUME IInv, NEW r \in Requests, NEW s \in Scopes, Authorize(r, s) PROVE IInv'
<1> DEFINE q == [request[r] EXCEPT !.pc = "authorized", !.scope = s]
<1>1. request[r] \in RequestStates /\ Fine(request[r], account, Existing)
  BY RequestAsIs
<1>2. /\ q \in RequestStates /\ q.user = request[r].user /\ q.inserted = request[r].inserted
      /\ q.scope = s /\ q.action = request[r].action /\ q.rank = request[r].rank /\ q.pc = "authorized"
  BY <1>1 DEF RequestStates, PCs
<1>3. Set(r, q) /\ UNCHANGED <<account, role, audit, held, key>>
  BY DEF Authorize
<1>4. s \in Existing
  <2>1. role[s][request[r].user] # None /\ request[r].user \in Users
    BY <1>1 DEF Authorize, Fine
  <2>2. held[s][request[r].user] # {}
    BY <2>1 DEF IInv, RowsInv, RanksAreHeld
  <2>3. QED
    BY <2>1, <2>2 DEF Existing, Exists
<1> HIDE DEF q
<1>5. q.action = None /\ q.rank = None
  BY <1>1, <1>2 DEF Authorize, Fine
<1>6. Fine(q, account, Existing) /\ Loaded(q, held) /\ q.action \notin Creations
  BY <1>1, <1>2, <1>4, <1>5, NoneAssumption
  DEF Authorize, Fine, Loaded, Creations, MemberActions, Actions
<1>7. QED
  BY <1>2, <1>3, <1>6, QuietMove

LEMMA AuthorizeKeyInv ==
    ASSUME IInv, NEW r \in Requests, AuthorizeKey(r) PROVE IInv'
<1> DEFINE q == [Idle EXCEPT !.pc = "authorized", !.scope = "tenant"]
<1>1. /\ q \in RequestStates /\ q.user = None /\ ~q.inserted /\ q.scope = "tenant"
      /\ q.action = None /\ q.rank = None /\ q.pc = "authorized"
  BY DEF Idle, RequestStates, PCs, Scopes
<1>2. Set(r, q) /\ UNCHANGED <<account, role, audit, held, key>>
  BY DEF AuthorizeKey
<1>3. "tenant" \in Existing
  BY DEF AuthorizeKey, IInv, RowsInv
<1> HIDE DEF q
<1>4. Fine(q, account, Existing) /\ Loaded(q, held) /\ q.action \notin Creations
  BY <1>1, <1>3, NoneAssumption DEF Fine, Loaded, Creations, MemberActions, Actions, Scopes
<1>5. QED
  BY <1>1, <1>2, <1>4, QuietMove

-----------------------------------------------------------------------------
(* The handlers                                                            *)

\* A request that is answered, without creating anything.
LEMMA AnswerInv ==
    ASSUME IInv, NEW r \in Requests, request[r].pc \in {"identified", "authorized"},
           NEW q \in RequestStates, Set(r, q), UNCHANGED <<account, role, audit, held, key>>,
           q.pc = "answered", q.user = request[r].user, q.inserted = request[r].inserted,
           q.scope = request[r].scope, q.action \in Actions \ Creations,
           q.action \in {"create_key", "revoke_key"} => q.scope = "tenant",
           q.action \in MemberActions => q.scope \in Scopes /\ q.target \in Users,
           q.action \in {"add", "role_change"} => q.rank \in Ranks,
           q.action = "remove" => q.rank = None, Loaded(q, held)
    PROVE  IInv'
<1>1. Fine(request[r], account, Existing)
  BY RequestAsIs
<1>2. Fine(q, account, Existing)
  BY <1>1 DEF Fine
<1>3. QED
  BY <1>2, QuietMove

\* One that creates s.
LEMMA CreateInv ==
    ASSUME IInv, NEW r \in Requests, NEW a \in Creations,
           request[r].pc \in {"identified", "authorized"}, request[r].user \in Users,
           Created[a] \notin Existing, ~Creating(a),
           Set(r, Answer(r, a)), UNCHANGED <<account, role, audit, held, key>>
    PROVE  IInv'
<1> DEFINE q == Answer(r, a)
<1>1. request[r] \in RequestStates /\ Fine(request[r], account, Existing)
  BY RequestAsIs
<1>2. /\ q \in RequestStates /\ q.user = request[r].user /\ q.inserted = request[r].inserted
      /\ q.scope = request[r].scope /\ q.action = a /\ q.pc = "answered"
  BY <1>1 DEF Answer, RequestStates, PCs, Creations, Actions
<1>3. Set(r, q)
  OBVIOUS
<1> HIDE DEF q
<1>4. a \notin {"create_key", "revoke_key"} \cup MemberActions
  BY DEF Creations, MemberActions
<1>5. Fine(q, account, Existing) /\ Loaded(q, held)
  BY <1>1, <1>2, <1>4 DEF Fine, Loaded, MemberActions
<1>6. ASSUME NEW p \in Requests \ {r} PROVE Apart(q, request[p]) /\ Apart(request[p], q)
  BY <1>2, ConflictSymmetric DEF IInv, RequestInv, Apart, Creating
<1>7. QED
  BY <1>2, <1>3, <1>5, <1>6, Quiet

LEMMA CreationsInv ==
    ASSUME IInv, NEW r \in Requests, CreateTenant(r) \/ CreateWorkspace(r) PROVE IInv'
<1>1. request[r] \in RequestStates /\ Fine(request[r], account, Existing)
  BY RequestAsIs
<1>2. CASE CreateTenant(r)
  <2>1. request[r].user \in Users
    BY <1>1, <1>2 DEF CreateTenant, Fine
  <2>2. Created["create_tenant"] \notin Existing
    BY <1>2 DEF CreateTenant, Created, Existing
  <2>3. QED
    BY <1>2, <2>1, <2>2, CreateInv DEF CreateTenant, Creations
<1>3. CASE CreateWorkspace(r)
  <2>1. request[r].user \in Users
    BY <1>1, <1>3 DEF CreateWorkspace, RequestStates
  <2>2. Created["create_workspace"] \notin Existing
    BY <1>3 DEF CreateWorkspace, Created, Existing
  <2>3. QED
    BY <1>3, <2>1, <2>2, CreateInv DEF CreateWorkspace, Creations
<1>4. QED
  BY <1>2, <1>3

LEMMA PlainAnswersInv ==
    ASSUME IInv, NEW r \in Requests, Read(r) \/ CreateApiKey(r) \/ RevokeApiKey(r) PROVE IInv'
<1>1. request[r] \in RequestStates
  BY RequestAsIs
<1>2. PICK a \in {"read", "create_key", "revoke_key"} :
        /\ Set(r, Answer(r, a)) /\ UNCHANGED <<account, role, audit, held, key>>
        /\ request[r].pc \in {"identified", "authorized"}
        /\ a # "read" => request[r].scope = "tenant"
  BY DEF Read, CreateApiKey, RevokeApiKey
<1> DEFINE q == Answer(r, a)
<1>3. /\ q \in RequestStates /\ q.user = request[r].user /\ q.inserted = request[r].inserted
      /\ q.scope = request[r].scope /\ q.action = a /\ q.pc = "answered"
  BY <1>1 DEF Answer, RequestStates, PCs, Actions
<1>4. Set(r, q)
  BY <1>2
<1> HIDE DEF q
<1>5. a \in Actions \ Creations /\ a \notin MemberActions
  BY DEF Actions, Creations, MemberActions
<1>6. QED
  BY <1>2, <1>3, <1>4, <1>5, AnswerInv DEF MemberActions, Loaded

LEMMA MemberAnswersInv ==
    ASSUME IInv, NEW r \in Requests, NEW t \in Users,
           \/ \E k \in Grants : AddMember(r, t, k) \/ UpdateMemberRole(r, t, k)
           \/ RemoveMember(r, t)
    PROVE  IInv'
<1>1. request[r] \in RequestStates /\ Fine(request[r], account, Existing)
  BY RequestAsIs
<1>2. PICK q : /\ Set(r, q) /\ UNCHANGED <<account, role, audit, held, key>>
               /\ \/ \E k \in Grants : AddMember(r, t, k) /\ q = [Answer(r, "add") EXCEPT !.target = t, !.rank = k]
                  \/ \E k \in Grants : UpdateMemberRole(r, t, k)
                        /\ q = [Answer(r, "role_change") EXCEPT
                                   !.target = t, !.rank = k, !.loaded = role[request[r].scope][t]]
                  \/ RemoveMember(r, t)
                        /\ q = [Answer(r, "remove") EXCEPT
                                   !.target = t, !.loaded = role[request[r].scope][t]]
  BY DEF AddMember, UpdateMemberRole, RemoveMember
<1>3. request[r].pc = "authorized"
  BY <1>2 DEF AddMember, UpdateMemberRole, RemoveMember
<1>4. request[r].scope \in Scopes
  BY <1>1, <1>3 DEF Fine
<1>5. /\ request[r].rank = None
      /\ role[request[r].scope][t] \in Ranks \cup {None}
      /\ role[request[r].scope][t] # None =>
            role[request[r].scope][t] \in held[request[r].scope][t]
  BY <1>1, <1>3, <1>4 DEF IInv, TypeOK, RowsInv, RanksAreHeld, Fine
<1>6. /\ q \in RequestStates /\ q.pc = "answered" /\ q.user = request[r].user
      /\ q.inserted = request[r].inserted /\ q.scope = request[r].scope
      /\ q.action \in MemberActions /\ q.target = t
      /\ q.action \in {"add", "role_change"} => q.rank \in Ranks
      /\ q.action = "remove" => q.rank = None
      /\ q.action # "add" => q.loaded = role[request[r].scope][t]
  <2>1. CASE \E k \in Grants : q = [Answer(r, "add") EXCEPT !.target = t, !.rank = k]
    BY <1>1, <2>1, RankAssumption DEF Answer, RequestStates, PCs, Actions, MemberActions
  <2>2. CASE \E k \in Grants :
               q = [Answer(r, "role_change") EXCEPT
                       !.target = t, !.rank = k, !.loaded = role[request[r].scope][t]]
    BY <1>1, <1>5, <2>2, RankAssumption DEF Answer, RequestStates, PCs, Actions, MemberActions
  <2>3. CASE q = [Answer(r, "remove") EXCEPT !.target = t, !.loaded = role[request[r].scope][t]]
    BY <1>1, <1>5, <2>3 DEF Answer, RequestStates, PCs, Actions, MemberActions
  <2>4. QED
    BY <1>2, <2>1, <2>2, <2>3
<1>7. q.action \in Actions \ Creations /\ q.action \notin {"create_key", "revoke_key"}
  BY <1>6 DEF MemberActions, Actions, Creations
<1>8. Loaded(q, held)
  <2>1. CASE q.action = "add"
    BY <2>1 DEF Loaded
  <2>2. CASE q.action # "add"
    <3>1. role[request[r].scope][t] # None
      <4>1. ASSUME NEW k \in Grants PROVE q # [Answer(r, "add") EXCEPT !.target = t, !.rank = k]
        BY <1>1, <2>2 DEF Answer, RequestStates
      <4>2. QED
        BY <1>2, <4>1 DEF UpdateMemberRole, RemoveMember
    <3>2. QED
      BY <1>5, <1>6, <2>2, <3>1 DEF Loaded
  <2>3. QED
    BY <2>1, <2>2
<1>9. QED
  BY <1>2, <1>3, <1>4, <1>6, <1>7, <1>8, AnswerInv

LEMMA HandleInv ==
    ASSUME IInv, NEW r \in Requests, Handle(r) PROVE IInv'
  BY CreationsInv, PlainAnswersInv, MemberAnswersInv DEF Handle

-----------------------------------------------------------------------------
(* The commit                                                              *)

\* What other requests know stays true when accounts and scopes are added.
LEMMA FineGrows ==
    ASSUME NEW acc, NEW more, NEW ex, NEW wider, acc \subseteq more, ex \subseteq wider,
           NEW q, Fine(q, acc, ex),
           q.inserted => \A w \in more \ acc : ~Conflict(w, q.user),
           q.action \in Creations => Created[q.action] \notin wider
    PROVE  Fine(q, more, wider)
<1>1. q.inserted => \A w \in more : ~Conflict(w, q.user)
  BY DEF Fine
<1>2. QED
  BY <1>1 DEF Fine

\* The accounts of a request that commits.
LEMMA CommittedAccounts ==
    ASSUME IInv, NEW r \in Requests, account' = Visible(r)
    PROVE  /\ account \subseteq account' /\ account' \subseteq Users
           /\ AccountsDiffer'
           /\ \A p \in Requests \ {r} : request[p].inserted =>
                 \A w \in account' \ account : ~Conflict(w, request[p].user)
<1>1. request[r] \in RequestStates /\ Fine(request[r], account, Existing)
  BY RequestAsIs
<1>2. account' = account \cup {u \in Users : request[r].inserted /\ u = request[r].user}
  BY DEF Visible
<1>3. account \subseteq Users /\ AccountsDiffer
  BY DEF IInv, TypeOK, RowsInv
<1>4. account \subseteq account' /\ account' \subseteq Users
  BY <1>2, <1>3
<1>5. \A w \in account' \ account : request[r].inserted /\ w = request[r].user
  BY <1>2
<1>6. \A w \in account' \ account : \A u \in account : ~Conflict(u, w) /\ ~Conflict(w, u)
  BY <1>1, <1>5, ConflictSymmetric DEF Fine
<1>7. ASSUME NEW u \in account', NEW w \in account', Conflict(u, w) PROVE u = w
  <2>1. CASE u \in account /\ w \in account
    BY <1>3, <1>7, <2>1 DEF AccountsDiffer
  <2>2. CASE u \notin account /\ w \notin account
    BY <1>5, <2>2
  <2>3. CASE (u \in account /\ w \notin account) \/ (u \notin account /\ w \in account)
    BY <1>6, <1>7, <2>3
  <2>4. QED
    BY <2>1, <2>2, <2>3
<1>8. AccountsDiffer'
  BY <1>7 DEF AccountsDiffer
<1>9. ASSUME NEW p \in Requests \ {r}, request[p].inserted, NEW w \in account' \ account
      PROVE  ~Conflict(w, request[p].user)
  BY <1>5, <1>9 DEF IInv, RequestInv, Apart
<1>10. QED
  BY <1>4, <1>8, <1>9

\* A commit, given what it makes of the rows.
LEMMA CommitInv ==
    ASSUME IInv, NEW r \in Requests, Committed(r),
           role' \in [Scopes -> [Users -> Ranks \cup {None}]],
           audit' \in [Scopes -> [Users -> SUBSET AuditRows]],
           held' \in [Scopes -> [Users -> SUBSET Ranks]],
           \A s \in Scopes, u \in Users : held[s][u] \subseteq held'[s][u],
           key' \in {"absent", "active", "revoked"},
           Existing \subseteq Existing',
           \A p \in Requests \ {r} :
               request[p].action \in Creations => Created[request[p].action] \notin Existing',
           key' # "absent" => "tenant" \in Existing',
           MembersHaveAccounts', RanksAreHeld',
           \A s \in Scopes : Tells(held'[s], audit'[s], role'[s])
    PROVE  IInv'
<1>1. Set(r, Idle) /\ account' = Visible(r)
  BY DEF Committed
<1>2. /\ account \subseteq account' /\ account' \subseteq Users
      /\ AccountsDiffer'
      /\ \A p \in Requests \ {r} : request[p].inserted =>
            \A w \in account' \ account : ~Conflict(w, request[p].user)
  BY <1>1, CommittedAccounts
<1>3. ASSUME NEW p \in Requests \ {r}
      PROVE  /\ Fine(request[p], account', Existing') /\ Loaded(request[p], held')
             /\ Apart(Idle, request[p]) /\ Apart(request[p], Idle)
  <2>1. Fine(request[p], account, Existing) /\ Loaded(request[p], held)
    BY RequestAsIs
  <2>2. Loaded(request[p], held')
    BY <2>1 DEF Fine, Loaded, MemberActions
  <2>3. QED
    BY <1>2, <2>1, <2>2, FineGrows, IdleFine
<1>4. request' \in [Requests -> RequestStates] /\ RequestInv'
  BY <1>1, <1>3, IdleFine, RequestMoves DEF IInv, TypeOK
<1>5. TypeOK'
  BY <1>2, <1>4 DEF TypeOK
<1>6. RowsInv'
  BY <1>2 DEF RowsInv
<1>7. QED
  BY <1>4, <1>5, <1>6 DEF IInv

LEMMA OthersCreateNothing ==
    ASSUME IInv, NEW p \in Requests, request[p].action \in Creations
    PROVE  Created[request[p].action] \notin Existing
  BY RequestAsIs DEF Fine

LEMMA SameRowsInv ==
    ASSUME IInv, NEW r \in Requests, Committed(r), UNCHANGED <<role, audit, held>>,
           key' \in {"absent", "active", "revoked"},
           key' # "absent" => "tenant" \in Existing
    PROVE  IInv'
<1>1. Existing' = Existing
  BY DEF Existing, Exists
<1>2. account \subseteq account'
  BY CommittedAccounts DEF Committed
<1>3. MembersHaveAccounts' /\ RanksAreHeld'
  BY <1>2 DEF IInv, RowsInv, MembersHaveAccounts, RanksAreHeld
<1>4. QED
  BY <1>1, <1>3, OthersCreateNothing, CommitInv DEF IInv, TypeOK, RowsInv

LEMMA CommitReadInv ==
    ASSUME IInv, NEW r \in Requests, CommitRead(r) PROVE IInv'
  BY SameRowsInv DEF CommitRead, IInv, TypeOK, RowsInv

LEMMA CommitApiKeyInv ==
    ASSUME IInv, NEW r \in Requests, CommitApiKey(r) PROVE IInv'
<1>1. request[r].scope = "tenant" /\ "tenant" \in Existing
  BY RequestAsIs, NoneAssumption DEF CommitApiKey, Fine, Scopes
<1>2. QED
  BY <1>1, SameRowsInv DEF CommitApiKey

\* The first member of s, whose creation was the only one under way.
LEMMA CommitCreationInv ==
    ASSUME IInv, NEW r \in Requests, NEW s \in Scopes, CommitCreation(r, s) PROVE IInv'
<1> DEFINE u == request[r].user
<1>1. Fine(request[r], account, Existing)
  BY RequestAsIs
<1>2. request[r].action \in Creations /\ Created[request[r].action] = s
  BY DEF CommitCreation, Creations, Created, Scopes
<1>3. u \in Users /\ s \notin Existing
  BY <1>1, <1>2 DEF Fine
<1>4. \A w \in Users : held[s][w] = {} /\ audit[s][w] = {}
  BY <1>3 DEF Existing, Exists, IInv, RowsInv, Tells
<1>5. /\ role \in [Scopes -> [Users -> Ranks \cup {None}]]
      /\ held \in [Scopes -> [Users -> SUBSET Ranks]]
      /\ role' = [role EXCEPT ![s][u] = Owner]
      /\ held' = [held EXCEPT ![s][u] = @ \cup ({Owner} \ {None})]
      /\ UNCHANGED <<audit, key>>
  BY DEF CommitCreation, Holds, IInv, TypeOK
<1>6. Owner \in Ranks /\ Owner # None
  BY RankAssumption DEF Owner, Ranks
<1>7. /\ role' \in [Scopes -> [Users -> Ranks \cup {None}]]
      /\ held' \in [Scopes -> [Users -> SUBSET Ranks]]
  BY <1>3, <1>5, <1>6
<1>8. \A x \in Scopes, w \in Users :
        /\ role'[x][w] = IF x = s /\ w = u THEN Owner ELSE role[x][w]
        /\ held'[x][w] = IF x = s /\ w = u THEN {Owner} ELSE held[x][w]
  BY <1>3, <1>4, <1>5, <1>6
<1>9. Existing' = Existing \cup {s}
  BY <1>3, <1>5, <1>6, <1>8 DEF Existing, Exists
<1>10. account \subseteq account' /\ u \in account'
  <2>1. account' = Visible(r)
    BY DEF CommitCreation, Committed
  <2>2. request[r].inserted \/ u \in account
    BY <1>1, <1>3, UserAssumption DEF Fine, CommitCreation
  <2>3. QED
    BY <1>3, <2>1, <2>2 DEF Visible
<1>11. MembersHaveAccounts'
  BY <1>8, <1>10 DEF MembersHaveAccounts, IInv, RowsInv
<1>12. RanksAreHeld'
  BY <1>8 DEF RanksAreHeld, IInv, RowsInv
<1>13. ASSUME NEW x \in Scopes PROVE Tells(held'[x], audit'[x], role'[x])
  <2>1. Tells(held[x], audit[x], role[x]) /\ audit' = audit
    BY <1>5 DEF IInv, RowsInv
  <2>2. CASE x = s
    BY <1>4, <1>6, <1>8, <2>1, <2>2 DEF Tells
  <2>3. CASE x # s
    BY <1>8, <2>1, <2>3 DEF Tells
  <2>4. QED
    BY <2>2, <2>3
<1>14. ASSUME NEW p \in Requests \ {r}, request[p].action \in Creations
       PROVE  Created[request[p].action] \notin Existing'
  <2>1. request[p].action # request[r].action
    BY <1>14 DEF IInv, RequestInv, Apart
  <2>2. Created[request[p].action] # s
    BY <1>2, <1>14, <2>1 DEF Creations, Created
  <2>3. QED
    BY <1>9, <1>14, <2>2, OthersCreateNothing
<1>15. \A x \in Scopes, w \in Users : held[x][w] \subseteq held'[x][w]
  BY <1>4, <1>8
<1>16. /\ audit' \in [Scopes -> [Users -> SUBSET AuditRows]]
       /\ key' \in {"absent", "active", "revoked"}
       /\ key' # "absent" => "tenant" \in Existing'
       /\ Existing \subseteq Existing'
  BY <1>5, <1>9 DEF IInv, TypeOK, RowsInv
<1>17. QED
  BY <1>7, <1>11, <1>12, <1>13, <1>14, <1>15, <1>16, CommitInv DEF CommitCreation

\* A member row and its audit row. n is the rank the audit row names.
LEMMA PutRowInv ==
    ASSUME IInv, NEW r \in Requests, request[r].action \in MemberActions,
           NEW s, s = request[r].scope, NEW t, t = request[r].target,
           NEW n, n = request[r].rank,
           NEW k \in Ranks \cup {None}, PutRow(request[r], k), Committed(r),
           k # None => t \in account',
           n # None => n \in held[s][t] \cup {k},
           k # None => k \in held[s][t] \cup {n},
           k = None => held[s][t] # {} /\ (n = None \/ role[s][t] = None)
    PROVE  IInv'
<1>1. request[r] \in RequestStates /\ Fine(request[r], account, Existing)
  BY RequestAsIs
<1>2. s \in Scopes /\ t \in Users /\ s \in Existing /\ n \in AuditRows
  BY <1>1, NoneAssumption DEF Fine, AuditRows, RequestStates
<1>3. /\ role \in [Scopes -> [Users -> Ranks \cup {None}]]
      /\ audit \in [Scopes -> [Users -> SUBSET AuditRows]]
      /\ held \in [Scopes -> [Users -> SUBSET Ranks]]
      /\ role' = [role EXCEPT ![s][t] = k]
      /\ audit' = [audit EXCEPT ![s][t] = @ \cup {n}]
      /\ held' = [held EXCEPT ![s][t] = @ \cup ({k} \ {None})]
      /\ key' = key
  BY DEF PutRow, Holds, IInv, TypeOK
<1>4. /\ role' \in [Scopes -> [Users -> Ranks \cup {None}]]
      /\ audit' \in [Scopes -> [Users -> SUBSET AuditRows]]
      /\ held' \in [Scopes -> [Users -> SUBSET Ranks]]
  BY <1>2, <1>3
<1>5. \A x \in Scopes, w \in Users :
        /\ role'[x][w] = IF x = s /\ w = t THEN k ELSE role[x][w]
        /\ audit'[x][w] = IF x = s /\ w = t THEN audit[s][t] \cup {n} ELSE audit[x][w]
        /\ held'[x][w] = IF x = s /\ w = t THEN held[s][t] \cup ({k} \ {None}) ELSE held[x][w]
  BY <1>2, <1>3
<1>6. Existing' = Existing
  <2>1. ASSUME NEW x \in Scopes, Exists(x) PROVE Exists(x)'
    BY <1>5, <2>1 DEF Exists
  <2>2. ASSUME NEW x \in Scopes \ {s} PROVE Exists(x)' <=> Exists(x)
    BY <1>5 DEF Exists
  <2>3. QED
    BY <1>2, <2>1, <2>2 DEF Existing
<1>7. account \subseteq account'
  BY CommittedAccounts DEF Committed
<1>8. MembersHaveAccounts' /\ RanksAreHeld'
  BY <1>5, <1>7 DEF MembersHaveAccounts, RanksAreHeld, IInv, RowsInv
<1>9. ASSUME NEW x \in Scopes PROVE Tells(held'[x], audit'[x], role'[x])
  <2>1. Tells(held[x], audit[x], role[x])
    BY DEF IInv, RowsInv
  <2>2. CASE x # s
    BY <1>5, <2>1, <2>2 DEF Tells
  <2>3. CASE x = s
    <3>1. /\ audit'[x][t] \ {None} \subseteq held'[x][t]
          /\ held'[x][t] \ audit'[x][t] \subseteq held[x][t] \ audit[x][t]
          /\ held'[x][t] # {}
          /\ role'[x][t] = None => None \in audit'[x][t]
      BY <1>2, <1>5, <2>1, <2>3 DEF Tells
    <3>2. \A w \in Users \ {t} : /\ audit'[x][w] = audit[x][w]
                                 /\ held'[x][w] = held[x][w]
                                 /\ role'[x][w] = role[x][w]
      BY <1>5
    <3>3. \A w \in Users : ~(held'[x][w] \subseteq audit'[x][w]) =>
                           ~(held[x][w] \subseteq audit[x][w])
      BY <3>1, <3>2
    <3>4. QED
      BY <1>2, <2>1, <3>1, <3>2, <3>3 DEF Tells
  <2>4. QED
    BY <2>2, <2>3
<1>10. \A x \in Scopes, w \in Users : held[x][w] \subseteq held'[x][w]
  BY <1>5
<1>11. QED
  BY <1>3, <1>4, <1>6, <1>8, <1>9, <1>10, OthersCreateNothing, CommitInv DEF IInv, TypeOK, RowsInv

LEMMA CommitMemberInv ==
    ASSUME IInv, NEW r \in Requests, CommitAdd(r) \/ CommitRoleChange(r) \/ CommitRemove(r)
    PROVE  IInv'
<1> DEFINE s == request[r].scope
           t == request[r].target
           n == request[r].rank
           now == role[s][t]
<1>1. /\ request[r] \in RequestStates /\ Fine(request[r], account, Existing)
      /\ Loaded(request[r], held)
  BY RequestAsIs
<1>2. request[r].action \in MemberActions
  BY DEF CommitAdd, CommitRoleChange, CommitRemove, MemberActions
<1>3. /\ s \in Scopes /\ t \in Users
      /\ now \in Ranks \cup {None}
      /\ now # None => t \in account /\ now \in held[s][t]
  BY <1>1, <1>2 DEF Fine, IInv, TypeOK, RowsInv, MembersHaveAccounts, RanksAreHeld
<1>4. CASE CommitAdd(r)
  <2>1. n \in Ranks /\ n # None
    BY <1>1, <1>4, RankAssumption DEF CommitAdd, Fine
  <2>2. PutRow(request[r], n) /\ Committed(r) /\ t \in account'
    BY <1>4 DEF CommitAdd, CanInsert, Committed
  <2> HIDE DEF s, t, n, now
  <2>3. QED
    BY <1>2, <2>1, <2>2, PutRowInv DEF s, t, n
<1>5. CASE CommitRoleChange(r)
  <2> DEFINE k == IF n # request[r].loaded THEN n ELSE now
  <2>1. n \in Ranks /\ n # None /\ request[r].loaded \in held[s][t]
    BY <1>1, <1>5, RankAssumption DEF CommitRoleChange, Fine, Loaded
  <2>2. k \in Ranks \cup {None} /\ (k # None => now # None)
    BY <1>3, <1>5, <2>1 DEF CommitRoleChange
  <2>3. account \subseteq account'
    BY <1>5, CommittedAccounts DEF CommitRoleChange, Committed
  <2>4. PutRow(request[r], k) /\ Committed(r)
    BY <1>5 DEF CommitRoleChange
  <2>5. /\ n \in held[s][t] \cup {k}
        /\ k # None => k \in held[s][t] \cup {n}
        /\ k = None => now = None
    BY <1>3, <2>1, <2>2
  <2> HIDE DEF k
  <2>6. QED
    BY <1>2, <1>3, <2>1, <2>2, <2>3, <2>4, <2>5, PutRowInv
<1>6. CASE CommitRemove(r)
  <2>1. n = None /\ held[s][t] # {}
    BY <1>1, <1>6 DEF CommitRemove, Fine, Loaded
  <2>2. PutRow(request[r], None) /\ Committed(r)
    BY <1>6 DEF CommitRemove
  <2>3. QED
    BY <1>2, <2>1, <2>2, PutRowInv
<1>7. QED
  BY <1>4, <1>5, <1>6

LEMMA StepInv == IInv /\ [Next]_vars => IInv'
<1>1. SUFFICES ASSUME IInv, [Next]_vars PROVE IInv'
  OBVIOUS
<1>2. CASE \E r \in Requests, u \in Users : LookUpUser(r, u)
  BY <1>1, <1>2, LookUpUserInv
<1>3. CASE \E r \in Requests : AuthorizeKey(r)
  BY <1>1, <1>3, AuthorizeKeyInv
<1>4. ASSUME NEW r \in Requests, Continue(r) PROVE IInv'
  <2>1. CASE InsertUser(r)
    BY <1>1, <2>1, InsertUserInv
  <2>2. CASE RequeryUser(r)
    BY <1>1, <2>2, RequeryUserInv
  <2>3. CASE \E s \in Scopes : Authorize(r, s)
    BY <1>1, <2>3, AuthorizeInv
  <2>4. CASE Handle(r)
    BY <1>1, <2>4, HandleInv
  <2>5. CASE Commit(r)
    BY <1>1, <2>5, CommitCreationInv, CommitReadInv, CommitApiKeyInv, CommitMemberInv DEF Commit
  <2>6. CASE Fail(r)
    BY <1>1, <2>6, EndsQuietly DEF Fail
  <2>7. QED
    BY <1>4, <2>1, <2>2, <2>3, <2>4, <2>5, <2>6 DEF Continue
<1>5. CASE UNCHANGED vars
  <2>1. Existing' = Existing
    BY <1>5 DEF vars, Existing, Exists
  <2>2. TypeOK' /\ RequestInv'
    BY <1>1, <1>5, <2>1 DEF IInv, TypeOK, RequestInv, vars
  <2>3. RowsInv'
    BY <1>1, <1>5, <2>1
    DEF IInv, RowsInv, MembersHaveAccounts, AccountsDiffer, RanksAreHeld, vars
  <2>4. QED
    BY <2>2, <2>3 DEF IInv
<1>6. QED
  BY <1>1, <1>2, <1>3, <1>4, <1>5 DEF Next

LEMMA InvariantHolds == Spec => []IInv
  BY InitInv, StepInv, PTL DEF Spec

-----------------------------------------------------------------------------

\* Type correctness of the rows and of what the requests hold.
THEOREM TypeCorrect == Spec => []TypeOK
<1>1. IInv => TypeOK
  BY DEF IInv
<1>2. QED
  BY <1>1, InvariantHolds, PTL

\* A request past get_or_provision_user acts for a user whose row exists,
\* whichever race for the row it won or lost.
THEOREM IdentitiesAreReal == Spec => []IdentityIsReal
<1>1. ASSUME IInv PROVE IdentityIsReal
  <2>1. SUFFICES ASSUME NEW r \in Requests,
                        request[r].pc \in {"identified", "authorized", "answered"}
                 PROVE  request[r].user \in Visible(r) \cup {None}
    BY DEF IdentityIsReal
  <2>2. Fine(request[r], account, Existing)
    BY <1>1, RequestAsIs
  <2>3. QED
    BY <2>1, <2>2 DEF Fine, Visible
<1>2. QED
  BY <1>1, InvariantHolds, PTL

\* No membership without an account (the foreign key of the member tables and
\* the commits that rely on it).
THEOREM MembersKeepAccounts == Spec => []MembersHaveAccounts
<1>1. IInv => MembersHaveAccounts
  BY DEF IInv, RowsInv
<1>2. QED
  BY <1>1, InvariantHolds, PTL

\* One account per subject and per email address (get_or_provision_user).
THEOREM AccountsStayDifferent == Spec => []AccountsDiffer
<1>1. IInv => AccountsDiffer
  BY DEF IInv, RowsInv
<1>2. QED
  BY <1>1, InvariantHolds, PTL

\* Read without an order, the audit log names the ranks every member has held
\* but the creator's, and the removal of everyone who is gone, whichever
\* requests overlap (create_tenant, add_member, update_member_role and
\* remove_member of tenants.py, the same of workspaces.py).
THEOREM LogTellsRanks == Spec => []LogTellsRanksHeld
<1>1. IInv => LogTellsRanksHeld
  BY DEF IInv, RowsInv, Tells, LogTellsRanksHeld
<1>2. QED
  BY <1>1, InvariantHolds, PTL

-----------------------------------------------------------------------------

\* Without anybody left to manage s, no step changes its members or lets
\* somebody in who could.
LEMMA Frozen ==
    ASSUME IInv, [Next]_vars, NEW s \in Scopes, Exists(s), ~Managed(s)
    PROVE  ~Managed(s)' /\ role'[s] = role[s]
<1>1. /\ \A u \in Users : role[s][u] # None => ~(role[s][u] >= MinRank[s])
      /\ s = "tenant" => key # "active"
      /\ \A r \in Requests : request[r].scope # s
  BY DEF Managed
<1>2. SUFFICES /\ role'[s] = role[s]
               /\ s = "tenant" => key' # "active"
               /\ \A r \in Requests : request'[r].scope # s
  BY <1>1 DEF Managed
<1>3. /\ request \in [Requests -> RequestStates]
      /\ role \in [Scopes -> [Users -> Ranks \cup {None}]]
  BY DEF IInv, TypeOK
<1>4. Idle.scope # s
  BY NoneAssumption DEF Idle
<1>5. ASSUME NEW r \in Requests, NEW q, Set(r, q), q.scope # s
      PROVE  \A p \in Requests : request'[p].scope # s
  BY <1>1, <1>3, <1>5 DEF Set
<1>6. CASE \E r \in Requests, u \in Users : LookUpUser(r, u)
  <2>1. PICK r \in Requests, u \in Users : LookUpUser(r, u)
    BY <1>6
  <2> DEFINE q == [Idle EXCEPT !.pc = IF u \in account THEN "identified" ELSE "provisioning",
                               !.user = u]
  <2>2. q.scope # s
    BY <1>4 DEF Idle
  <2>3. Set(r, q) /\ role' = role /\ key' = key
    BY <2>1 DEF LookUpUser
  <2> HIDE DEF q
  <2>4. QED
    BY <1>1, <1>5, <2>2, <2>3
<1>7. CASE \E r \in Requests : AuthorizeKey(r)
  <2>1. PICK r \in Requests : AuthorizeKey(r)
    BY <1>7
  <2> DEFINE q == [Idle EXCEPT !.pc = "authorized", !.scope = "tenant"]
  <2>2. q.scope # s
    BY <1>1, <2>1 DEF Idle, AuthorizeKey
  <2>3. Set(r, q) /\ role' = role /\ key' = key
    BY <2>1 DEF AuthorizeKey
  <2> HIDE DEF q
  <2>4. QED
    BY <1>1, <1>5, <2>2, <2>3
<1>8. ASSUME NEW r \in Requests, Continue(r)
      PROVE  /\ role'[s] = role[s]
             /\ s = "tenant" => key' # "active"
             /\ \A p \in Requests : request'[p].scope # s
  <2>1. request[r] \in RequestStates /\ Fine(request[r], account, Existing)
    BY RequestAsIs
  <2>2. ASSUME NEW q \in RequestStates, Set(r, q), q.scope = request[r].scope,
               UNCHANGED <<role, key>>
        PROVE  /\ role'[s] = role[s]
               /\ s = "tenant" => key' # "active"
               /\ \A p \in Requests : request'[p].scope # s
    BY <1>1, <1>5, <2>2
  <2>3. ASSUME Set(r, Idle), UNCHANGED <<role, key>>
        PROVE  /\ role'[s] = role[s]
               /\ s = "tenant" => key' # "active"
               /\ \A p \in Requests : request'[p].scope # s
    BY <1>1, <1>4, <1>5, <2>3
  <2>4. CASE InsertUser(r)
    <3>1. [request[r] EXCEPT !.pc = "identified", !.inserted = TRUE].scope = request[r].scope
      BY <2>1 DEF RequestStates
    <3>2. [request[r] EXCEPT !.pc = "identified", !.inserted = TRUE] \in RequestStates
      BY <2>1 DEF RequestStates, PCs
    <3>3. QED
      BY <2>2, <2>4, <3>1, <3>2 DEF InsertUser
  <2>5. CASE RequeryUser(r)
    <3>1. [request[r] EXCEPT !.pc = "identified"].scope = request[r].scope
      BY <2>1 DEF RequestStates
    <3>2. [request[r] EXCEPT !.pc = "identified"] \in RequestStates
      BY <2>1 DEF RequestStates, PCs
    <3>3. QED
      BY <2>2, <2>3, <2>5, <3>1, <3>2 DEF RequeryUser
  <2>6. CASE \E x \in Scopes : Authorize(r, x)
    <3>1. PICK x \in Scopes : Authorize(r, x)
      BY <2>6
    <3>2. request[r].user \in Users
      BY <2>1, <3>1 DEF Authorize, Fine
    <3>3. x # s
      BY <1>1, <3>1, <3>2 DEF Authorize
    <3>4. [request[r] EXCEPT !.pc = "authorized", !.scope = x].scope = x
      BY <2>1 DEF RequestStates
    <3>5. Set(r, [request[r] EXCEPT !.pc = "authorized", !.scope = x]) /\ role' = role /\ key' = key
      BY <3>1 DEF Authorize
    <3>6. QED
      BY <1>1, <1>5, <3>3, <3>4, <3>5
  <2>7. CASE Handle(r)
    <3>1. UNCHANGED <<role, key>>
      BY <2>7 DEF Handle, CreateTenant, CreateWorkspace, Read, AddMember, UpdateMemberRole,
                  RemoveMember, CreateApiKey, RevokeApiKey
    <3>2. \E q : Set(r, q) /\ q.scope = request[r].scope
      <4>1. ASSUME NEW a PROVE Answer(r, a).scope = request[r].scope
        BY <2>1 DEF Answer, RequestStates
      <4>3. CASE \/ CreateTenant(r) \/ CreateWorkspace(r) \/ Read(r)
                 \/ CreateApiKey(r) \/ RevokeApiKey(r)
        BY <4>1, <4>3 DEF CreateTenant, CreateWorkspace, Read, CreateApiKey, RevokeApiKey
      <4>4. ASSUME NEW t \in Users, NEW k \in Grants, AddMember(r, t, k)
            PROVE  \E q : Set(r, q) /\ q.scope = request[r].scope
        <5> DEFINE q == [Answer(r, "add") EXCEPT !.target = t, !.rank = k]
        <5>1. Set(r, q)
          BY <4>4 DEF AddMember
        <5>2. q.scope = request[r].scope
          BY <2>1 DEF Answer, RequestStates
        <5>3. QED
          BY <5>1, <5>2
      <4>5. ASSUME NEW t \in Users, NEW k \in Grants, UpdateMemberRole(r, t, k)
            PROVE  \E q : Set(r, q) /\ q.scope = request[r].scope
        <5> DEFINE q == [Answer(r, "role_change") EXCEPT
                            !.target = t, !.rank = k, !.loaded = role[request[r].scope][t]]
        <5>1. Set(r, q)
          BY <4>5 DEF UpdateMemberRole
        <5>2. q.scope = request[r].scope
          BY <2>1 DEF Answer, RequestStates
        <5>3. QED
          BY <5>1, <5>2
      <4>6. ASSUME NEW t \in Users, RemoveMember(r, t)
            PROVE  \E q : Set(r, q) /\ q.scope = request[r].scope
        <5> DEFINE q == [Answer(r, "remove") EXCEPT
                            !.target = t, !.loaded = role[request[r].scope][t]]
        <5>1. Set(r, q)
          BY <4>6 DEF RemoveMember
        <5>2. q.scope = request[r].scope
          BY <2>1 DEF Answer, RequestStates
        <5>3. QED
          BY <5>1, <5>2
      <4>7. QED
        BY <2>7, <4>3, <4>4, <4>5, <4>6 DEF Handle
    <3>3. PICK q : Set(r, q) /\ q.scope = request[r].scope
      BY <3>2
    <3>4. QED
      BY <1>1, <1>5, <3>1, <3>3
  <2>8. CASE Commit(r)
    <3>1. Set(r, Idle)
      BY <2>8 DEF Commit, CommitCreation, CommitRead, CommitAdd, CommitRoleChange, CommitRemove,
                  CommitApiKey, Committed
    <3>2. \A p \in Requests : request'[p].scope # s
      BY <1>4, <1>5, <3>1
    <3>3. CASE \E x \in Scopes : CommitCreation(r, x)
      <4>1. PICK x \in Scopes : CommitCreation(r, x)
        BY <3>3
      <4>2. x \notin Existing
        BY <2>1, <4>1 DEF CommitCreation, Fine, Creations, Created, Scopes
      <4>3. x # s
        BY <4>2 DEF Existing
      <4>4. role' = [role EXCEPT ![x][request[r].user] = Owner] /\ key' = key
        BY <4>1 DEF CommitCreation
      <4>5. role'[s] = role[s]
        BY <1>3, <4>3, <4>4
      <4>6. QED
        BY <1>1, <3>2, <4>4, <4>5
    <3>4. CASE CommitRead(r)
      BY <2>3, <3>1, <3>4 DEF CommitRead
    <3>5. CASE CommitAdd(r) \/ CommitRoleChange(r) \/ CommitRemove(r)
      <4>1. \E k : PutRow(request[r], k)
        BY <3>5 DEF CommitAdd, CommitRoleChange, CommitRemove
      <4>2. PICK k : /\ role' = [role EXCEPT ![request[r].scope][request[r].target] = k]
                     /\ key' = key
        BY <4>1 DEF PutRow
      <4>3. role'[s] = role[s]
        BY <1>1, <1>3, <4>2
      <4>4. QED
        BY <1>1, <3>2, <4>2, <4>3
    <3>6. CASE CommitApiKey(r)
      <4>1. request[r].scope = "tenant"
        BY <2>1, <3>6 DEF CommitApiKey, Fine
      <4>2. s # "tenant" /\ role' = role
        BY <1>1, <3>6, <4>1 DEF CommitApiKey
      <4>3. QED
        BY <3>2, <4>2
    <3>7. QED
      BY <2>8, <3>3, <3>4, <3>5, <3>6 DEF Commit
  <2>9. CASE Fail(r)
    BY <2>3, <2>9 DEF Fail
  <2>10. QED
    BY <1>8, <2>4, <2>5, <2>6, <2>7, <2>8, <2>9 DEF Continue
<1>9. CASE UNCHANGED vars
  BY <1>1, <1>9 DEF vars
<1>10. QED
  BY <1>6, <1>7, <1>8, <1>9 DEF Next

\* When nobody is left who may change the members of a scope, nobody ever will
\* be (require_tenant_role, require_workspace_role).
THEOREM UnmanagedStaysFrozen == Spec => UnmanagedIsFrozen
<1>1. ASSUME IInv, [Next]_vars
      PROVE  [\A s \in Scopes :
                 Exists(s) /\ ~Managed(s) => ~Managed(s)' /\ role'[s] = role[s]]_vars
  BY <1>1, Frozen
<1>2. QED
  BY <1>1, InvariantHolds, PTL DEF Spec, UnmanagedIsFrozen
=============================================================================
