---------------------------- MODULE MembershipProofs ----------------------------
(***************************************************************************)
(* Proofs about accounts, roles and invitations, for any number of people, *)
(* roles, invitations and overlapping requests.                            *)
(*                                                                         *)
(* The argument is the unique constraint on (person, role): the rows that  *)
(* requests are about to commit are rows nobody has, each of them held by  *)
(* one request, and a row that is there never goes away.  An acceptance    *)
(* inserts such a row for its invitation, so there is no second one.       *)
(***************************************************************************)
EXTENDS Membership, TLAPS

\* What a request has collected refers to rows that are there; what it inserts
\* next is new, and it is the only one to insert it.
Collected(q) ==
    LET w == request[q] IN
    w.pc # "idle" =>
        /\ w.user \in Users
        /\ \A ro \in w.drops : assigned[w.user][ro] # "none"
        /\ w.revokes # None => invitation[w.revokes] # None
        /\ w.accepts # None =>
              /\ invitation[w.accepts] # None
              /\ invitation[w.accepts].user = w.user
              /\ w.grants = {invitation[w.accepts].role}
        /\ w.pc = "commit" =>
              /\ \A ro \in w.grants : assigned[w.user][ro] = "none"
              /\ \A p \in Requests \ {q} :
                    request[p].pc = "commit" /\ request[p].user = w.user =>
                        w.grants \cap request[p].grants = {}

\* An accepted invitation has left its mark.
Marked(i) == accepts[i] # 0 =>
    /\ accepts[i] = 1
    /\ invitation[i] # None
    /\ assigned[invitation[i].user][invitation[i].role] # "none"

Inv ==
    /\ TypeOK
    /\ \A q \in Requests : Collected(q)
    /\ \A i \in Invitations : Marked(i)

-----------------------------------------------------------------------------
LEMMA NoneIsApart ==
    /\ None \notin Users /\ None \notin Roles /\ None \notin Invitations
    /\ None \notin InvitationRow /\ MaxRows \in Nat
BY MembershipAssumption

LEMMA IdleState == Idle \in RequestState /\ Idle.pc = "idle"
BY NoneIsApart DEF Idle, RequestState

LEMMA InitInv == Init => Inv
<1>. SUFFICES ASSUME Init PROVE Inv  OBVIOUS
<1>1. TypeOK
  <2>1. 0 \in 0..MaxRows  BY NoneIsApart
  <2>. QED  BY <2>1, IdleState, NoneIsApart DEF Init, TypeOK
<1>2. \A q \in Requests : Collected(q)  BY IdleState DEF Init, Collected
<1>3. \A i \in Invitations : Marked(i)  BY DEF Init, Marked
<1>. QED  BY <1>1, <1>2, <1>3 DEF Inv

\* A request moves on; nothing is committed.
LEMMA RequestStep ==
    ASSUME Inv, NEW q \in Requests, NEW w \in RequestState,
           request' = [request EXCEPT ![q] = w],
           UNCHANGED <<account, rows, employee, roles, assigned, invitation, accepts>>,
           Collected(q)',
           w.pc = "commit" => \A p \in Requests \ {q}, ro \in w.grants :
               ~(request[p].pc = "commit" /\ request[p].user = w.user
                 /\ ro \in request[p].grants)
    PROVE  Inv'
<1>1. TypeOK'  BY DEF Inv, TypeOK
<1>2. request'[q] = w /\ \A p \in Requests \ {q} : request'[p] = request[p]
  BY DEF Inv, TypeOK
<1>3. ASSUME NEW p \in Requests PROVE Collected(p)'
  <2>1. CASE p = q  BY <2>1
  <2>2. CASE p # q
    <3>1. Collected(p) /\ request'[p] = request[p]  BY <1>2, <2>2 DEF Inv
    <3>2. \A o \in Requests \ {p} :
             /\ request[p].pc = "commit" /\ request'[o].pc = "commit"
             /\ request'[o].user = request[p].user
             => request[p].grants \cap request'[o].grants = {}
      <4>1. ASSUME NEW o \in Requests \ {p}, o # q,
                   request[p].pc = "commit", request'[o].pc = "commit",
                   request'[o].user = request[p].user
            PROVE  request[p].grants \cap request'[o].grants = {}
        BY <1>2, <3>1, <4>1 DEF Collected
      <4>2. ASSUME request[p].pc = "commit", request'[q].pc = "commit",
                   request'[q].user = request[p].user
            PROVE  request[p].grants \cap request'[q].grants = {}
        BY <1>2, <2>2, <4>2
      <4>. QED  BY <4>1, <4>2
    <3>. QED  BY <3>1, <3>2 DEF Collected
  <2>. QED  BY <2>1, <2>2
<1>4. \A i \in Invitations : Marked(i)'  BY DEF Inv, Marked
<1>. QED  BY <1>1, <1>3, <1>4 DEF Inv
\* A request starts, with writes that are prepared for rows that are there.
LEMMA StartsPreserves ==
    ASSUME Inv, NEW q \in Requests, NEW w \in RequestState, Starts(q, w),
           w.user \in Users,
           \A ro \in w.drops : assigned[w.user][ro] # "none",
           w.revokes # None => invitation[w.revokes] # None,
           w.accepts # None =>
              /\ invitation[w.accepts] # None
              /\ invitation[w.accepts].user = w.user
              /\ w.grants = {invitation[w.accepts].role},
           w.pc = "commit" => w.grants = {}
    PROVE  Inv'
<1>1. request' = [request EXCEPT ![q] = w]
      /\ UNCHANGED <<account, rows, employee, roles, assigned, invitation, accepts>>
  BY DEF Starts
<1>2. request'[q] = w  BY <1>1 DEF Inv, TypeOK
<1>3. Collected(q)'  BY <1>1, <1>2 DEF Collected
<1>. QED  BY <1>1, <1>3, RequestStep

LEMMA IdleFields ==
    /\ Idle \in RequestState /\ Idle.grants = {} /\ Idle.drops = {}
    /\ Idle.revokes = None /\ Idle.accepts = None
BY IdleState DEF Idle

LEMMA LiveRows == \A u \in Users : \A ro \in Live(u) : ro \in Roles /\ assigned[u][ro] # "none"
BY DEF Live

LEMMA CreatePreserves ==
    ASSUME Inv, NEW q \in Requests, create_invitation(q)
    PROVE  Inv'
<1>1. PICK u \in Users, ro \in roles :
        /\ u \in account => employee[u] = {}
        /\ Cardinality(Pending(u)) <= 1
        /\ \E old \in IF Pending(u) = {} THEN {None} ELSE Pending(u) :
              Starts(q, [Idle EXCEPT !.pc = "commit", !.user = u, !.offers = ro,
                                     !.revokes = old])
  BY DEF create_invitation
<1>2. PICK old \in IF Pending(u) = {} THEN {None} ELSE Pending(u) :
        Starts(q, [Idle EXCEPT !.pc = "commit", !.user = u, !.offers = ro, !.revokes = old])
  BY <1>1
<1>3. old \in Invitations \cup {None} /\ (old # None => invitation[old] # None)
      /\ ro \in Roles
  BY DEF Pending, Inv, TypeOK
<1>. DEFINE w == [Idle EXCEPT !.pc = "commit", !.user = u, !.offers = ro, !.revokes = old]
<1>4. Starts(q, w)  BY <1>2
<1>5. /\ w \in RequestState /\ w.user = u /\ w.drops = {} /\ w.grants = {}
      /\ w.revokes = old /\ w.accepts = None
  BY <1>3, IdleFields DEF RequestState
<1>. HIDE DEF w
<1>. QED  BY <1>3, <1>4, <1>5, StartsPreserves

LEMMA AcceptPreserves ==
    ASSUME Inv, NEW q \in Requests, accept_invitation(q)
    PROVE  Inv'
<1>1. PICK i \in Invitations :
        /\ invitation[i] # None
        /\ i \in Pending(invitation[i].user)
        /\ ~invitation[i].expired
        /\ Starts(q, [Idle EXCEPT !.pc = "find", !.user = invitation[i].user,
                                  !.joins = TRUE, !.accepts = i,
                                  !.grants = {invitation[i].role}])
  BY DEF accept_invitation
<1>2. invitation[i].user \in Users /\ invitation[i].role \in Roles
  BY <1>1 DEF Inv, TypeOK, InvitationRow
<1>. DEFINE w == [Idle EXCEPT !.pc = "find", !.user = invitation[i].user,
                              !.joins = TRUE, !.accepts = i,
                              !.grants = {invitation[i].role}]
<1>3. Starts(q, w)  BY <1>1
<1>4. /\ w \in RequestState /\ w.user = invitation[i].user /\ w.drops = {}
      /\ w.grants = {invitation[i].role} /\ w.revokes = None /\ w.accepts = i
      /\ w.pc = "find"
  BY <1>2, IdleFields DEF RequestState
<1>. HIDE DEF w
<1>. QED  BY <1>1, <1>2, <1>3, <1>4, StartsPreserves

LEMMA RolesPreserve ==
    ASSUME Inv, NEW q \in Requests,
           update_user_roles(q) \/ assign_role(q) \/ revoke_role(q)
    PROVE  Inv'
<1>1. ASSUME NEW u \in account, NEW grants \in SUBSET Roles, NEW drops \in SUBSET Live(u),
             NEW w \in RequestState, Starts(q, w), w.user = u, w.drops = drops,
             w.grants = grants, w.revokes = None, w.accepts = None,
             w.pc = "commit" => grants = {}
      PROVE  Inv'
  <2>1. u \in Users  BY DEF Inv, TypeOK
  <2>. QED  BY <1>1, <2>1, LiveRows, StartsPreserves
<1>2. \A u \in account : u \in Users /\ Live(u) \subseteq Roles  BY DEF Inv, TypeOK, Live
<1>3. CASE update_user_roles(q)
  <2>1. PICK u \in account, some \in SUBSET Roles :
          /\ Cardinality(employee[u]) = 1
          /\ \/ Starts(q, [Idle EXCEPT !.pc = "grant", !.user = u, !.drops = Live(u),
                                       !.grants = some])
             \/ Starts(q, [Idle EXCEPT !.pc = "grant", !.user = u,
                                       !.grants = some \ Live(u)])
             \/ Starts(q, [Idle EXCEPT !.pc = "commit", !.user = u,
                                       !.drops = some \cap Live(u)])
    BY <1>3 DEF update_user_roles
  <2>2. u \in Users /\ Live(u) \in SUBSET Roles  BY <1>2
  <2>3. ASSUME Starts(q, [Idle EXCEPT !.pc = "grant", !.user = u, !.drops = Live(u),
                                      !.grants = some])
        PROVE  Inv'
    <3>. DEFINE w == [Idle EXCEPT !.pc = "grant", !.user = u, !.drops = Live(u),
                                  !.grants = some]
    <3>1. /\ w \in RequestState /\ w.user = u /\ w.drops = Live(u) /\ w.grants = some
          /\ w.revokes = None /\ w.accepts = None /\ w.pc = "grant"
      BY <2>2, IdleFields DEF RequestState
    <3>2. Starts(q, w)  BY <2>3
    <3>. HIDE DEF w
    <3>. QED  BY <1>1, <3>1, <3>2
  <2>4. ASSUME Starts(q, [Idle EXCEPT !.pc = "grant", !.user = u, !.grants = some \ Live(u)])
        PROVE  Inv'
    <3>. DEFINE more == some \ Live(u)
                w == [Idle EXCEPT !.pc = "grant", !.user = u, !.grants = more]
    <3>0. more \in SUBSET Roles  OBVIOUS
    <3>2. Starts(q, w)  BY <2>4
    <3>. HIDE DEF more
    <3>1. /\ w \in RequestState /\ w.user = u /\ w.drops = {} /\ w.grants = more
          /\ w.revokes = None /\ w.accepts = None /\ w.pc = "grant"
      BY <2>2, <3>0, IdleFields DEF RequestState
    <3>. HIDE DEF w
    <3>. QED  BY <1>1, <3>0, <3>1, <3>2
  <2>5. ASSUME Starts(q, [Idle EXCEPT !.pc = "commit", !.user = u,
                                      !.drops = some \cap Live(u)])
        PROVE  Inv'
    <3>. DEFINE less == some \cap Live(u)
                w == [Idle EXCEPT !.pc = "commit", !.user = u, !.drops = less]
    <3>0. less \in SUBSET Roles /\ less \in SUBSET Live(u)  OBVIOUS
    <3>2. Starts(q, w)  BY <2>5
    <3>. HIDE DEF less
    <3>1. /\ w \in RequestState /\ w.user = u /\ w.drops = less /\ w.grants = {}
          /\ w.revokes = None /\ w.accepts = None
      BY <2>2, <3>0, IdleFields DEF RequestState
    <3>. HIDE DEF w
    <3>. QED  BY <1>1, <3>0, <3>1, <3>2
  <2>. QED  BY <2>1, <2>3, <2>4, <2>5
<1>4. CASE assign_role(q)
  <2>1. PICK u \in account, ro \in roles :
          Starts(q, [Idle EXCEPT !.pc = "grant", !.user = u, !.grants = {ro}])
    BY <1>4 DEF assign_role
  <2>. DEFINE w == [Idle EXCEPT !.pc = "grant", !.user = u, !.grants = {ro}]
  <2>2. u \in Users /\ {ro} \in SUBSET Roles  BY <1>2 DEF Inv, TypeOK
  <2>3. /\ w \in RequestState /\ w.user = u /\ w.drops = {} /\ w.grants = {ro}
        /\ w.revokes = None /\ w.accepts = None /\ w.pc = "grant"
    BY <2>2, IdleFields DEF RequestState
  <2>4. Starts(q, w)  BY <2>1
  <2>. HIDE DEF w
  <2>. QED  BY <1>1, <2>2, <2>3, <2>4
<1>5. CASE revoke_role(q)
  <2>1. PICK u \in account : \E ro \in Live(u) :
          Starts(q, [Idle EXCEPT !.pc = "commit", !.user = u, !.drops = {ro}])
    BY <1>5 DEF revoke_role
  <2>2. PICK ro \in Live(u) :
          Starts(q, [Idle EXCEPT !.pc = "commit", !.user = u, !.drops = {ro}])
    BY <2>1
  <2>. DEFINE w == [Idle EXCEPT !.pc = "commit", !.user = u, !.drops = {ro}]
  <2>3. u \in Users /\ {ro} \in SUBSET Roles /\ {ro} \in SUBSET Live(u)  BY <1>2
  <2>4. /\ w \in RequestState /\ w.user = u /\ w.drops = {ro} /\ w.grants = {}
        /\ w.revokes = None /\ w.accepts = None
    BY <2>3, IdleFields DEF RequestState
  <2>5. Starts(q, w)  BY <2>2
  <2>. HIDE DEF w
  <2>. QED  BY <1>1, <2>3, <2>4, <2>5
<1>. QED  BY <1>3, <1>4, <1>5

LEMMA MembersPreserve ==
    ASSUME Inv, NEW q \in Requests,
           remove_user_from_organization(q) \/ invite_employee(q)
    PROVE  Inv'
<1>1. CASE remove_user_from_organization(q)
  <2>1. PICK u \in account :
          /\ Cardinality(employee[u]) = 1
          /\ \E n \in employee[u] :
                Starts(q, [Idle EXCEPT !.pc = "commit", !.user = u, !.leaves = n,
                                       !.drops = Live(u)])
    BY <1>1 DEF remove_user_from_organization
  <2>2. PICK n \in employee[u] :
          Starts(q, [Idle EXCEPT !.pc = "commit", !.user = u, !.leaves = n,
                                 !.drops = Live(u)])
    BY <2>1
  <2>. DEFINE w == [Idle EXCEPT !.pc = "commit", !.user = u, !.leaves = n,
                                !.drops = Live(u)]
  <2>3. u \in Users /\ Live(u) \in SUBSET Roles /\ n \in 0..MaxRows
    BY NoneIsApart DEF Inv, TypeOK, Live
  <2>4. /\ w \in RequestState /\ w.user = u /\ w.drops = Live(u) /\ w.grants = {}
        /\ w.revokes = None /\ w.accepts = None
    BY <2>3, IdleFields DEF RequestState
  <2>5. Starts(q, w)  BY <2>2
  <2>. HIDE DEF w
  <2>. QED  BY <2>3, <2>4, <2>5, LiveRows, StartsPreserves
<1>2. CASE invite_employee(q)
  <2>1. PICK u \in account :
          /\ employee[u] = {}
          /\ Starts(q, [Idle EXCEPT !.pc = "commit", !.user = u, !.joins = TRUE])
    BY <1>2 DEF invite_employee
  <2>. DEFINE w == [Idle EXCEPT !.pc = "commit", !.user = u, !.joins = TRUE]
  <2>2. u \in Users  BY DEF Inv, TypeOK
  <2>3. /\ w \in RequestState /\ w.user = u /\ w.drops = {} /\ w.grants = {}
        /\ w.revokes = None /\ w.accepts = None
    BY <2>2, IdleFields DEF RequestState
  <2>4. Starts(q, w)  BY <2>1
  <2>. HIDE DEF w
  <2>. QED  BY <2>2, <2>3, <2>4, StartsPreserves
<1>. QED  BY <1>1, <1>2
\* Looking for the account and inserting it change no other write.
LEMMA GoesPreserves ==
    ASSUME Inv, NEW q \in Requests, NEW pc \in {"create", "grant"}, NEW creates \in BOOLEAN,
           request[q].pc # "idle",
           \/ request' = [request EXCEPT ![q].pc = pc]
           \/ request' = [request EXCEPT ![q].pc = pc, ![q].creates = creates],
           UNCHANGED <<account, rows, employee, roles, assigned, invitation, accepts>>
    PROVE  Inv'
<1>0. request[q] \in RequestState  BY DEF Inv, TypeOK
<1>1. PICK w \in RequestState :
        /\ request' = [request EXCEPT ![q] = w]
        /\ w.pc = pc /\ w.user = request[q].user /\ w.drops = request[q].drops
        /\ w.grants = request[q].grants /\ w.revokes = request[q].revokes
        /\ w.accepts = request[q].accepts
  <2>1. CASE request' = [request EXCEPT ![q].pc = pc]
    <3>. DEFINE w == [request[q] EXCEPT !.pc = pc]
    <3>1. request' = [request EXCEPT ![q] = w]  BY <2>1
    <3>2. /\ w.pc = pc /\ w.user = request[q].user /\ w.drops = request[q].drops
          /\ w.grants = request[q].grants /\ w.revokes = request[q].revokes
          /\ w.accepts = request[q].accepts /\ w \in RequestState
      BY <1>0 DEF RequestState
    <3>. HIDE DEF w
    <3>. QED  BY <3>1, <3>2
  <2>2. CASE request' = [request EXCEPT ![q].pc = pc, ![q].creates = creates]
    <3>. DEFINE w == [request[q] EXCEPT !.pc = pc, !.creates = creates]
    <3>1. request' = [request EXCEPT ![q] = w]  BY <2>2
    <3>2. /\ w.pc = pc /\ w.user = request[q].user /\ w.drops = request[q].drops
          /\ w.grants = request[q].grants /\ w.revokes = request[q].revokes
          /\ w.accepts = request[q].accepts /\ w \in RequestState
      BY <1>0 DEF RequestState
    <3>. HIDE DEF w
    <3>. QED  BY <3>1, <3>2
  <2>. QED  BY <2>1, <2>2
<1>2. request'[q] = w  BY <1>1 DEF Inv, TypeOK
<1>3. Collected(q)'
  <2>1. Collected(q)  BY DEF Inv
  <2>. QED  BY <1>1, <1>2, <2>1 DEF Collected
<1>. QED  BY <1>1, <1>3, RequestStep

\* The rows that are inserted are nobody's, and nobody else inserts them.
LEMMA GrantPreserves ==
    ASSUME Inv, NEW q \in Requests, Grant(q)
    PROVE  Inv'
<1>. DEFINE w == [request[q] EXCEPT !.pc = "commit"]
<1>1. request' = [request EXCEPT ![q] = w]
      /\ UNCHANGED <<account, rows, employee, roles, assigned, invitation, accepts>>
  BY DEF Grant, Goes
<1>2. /\ w \in RequestState /\ w.pc = "commit" /\ w.user = request[q].user
      /\ w.drops = request[q].drops /\ w.grants = request[q].grants
      /\ w.revokes = request[q].revokes /\ w.accepts = request[q].accepts
  <2>1. request[q] \in RequestState  BY DEF Inv, TypeOK
  <2>. QED  BY <2>1 DEF RequestState
<1>. HIDE DEF w
<1>3. /\ request[q].pc = "grant"
      /\ \A ro \in w.grants :
            /\ ro \in roles /\ ~Taken(w.user, ro)
            /\ ~Held(q, w.user, ro)
  BY <1>2 DEF Grant
<1>4. \A ro \in w.grants :
        /\ assigned[w.user][ro] = "none"
        /\ \A p \in Requests \ {q} :
              ~(request[p].pc = "commit" /\ request[p].user = w.user
                /\ ro \in request[p].grants)
  BY <1>3 DEF Taken, Held
<1>5. request'[q] = w /\ \A p \in Requests \ {q} : request'[p] = request[p]
  BY <1>1, <1>2 DEF Inv, TypeOK
<1>6. Collected(q)'
  <2>1. Collected(q)  BY DEF Inv
  <2>. QED  BY <1>1, <1>2, <1>3, <1>4, <1>5, <2>1 DEF Collected
<1>. QED  BY <1>1, <1>2, <1>4, <1>6, RequestStep

LEMMA AbortPreserves ==
    ASSUME Inv, NEW q \in Requests, Abort(q)
    PROVE  Inv'
<1>1. request' = [request EXCEPT ![q] = Idle]
      /\ UNCHANGED <<account, rows, employee, roles, assigned, invitation, accepts>>
  BY DEF Abort
<1>2. request'[q] = Idle  BY <1>1 DEF Inv, TypeOK
<1>3. Collected(q)'  BY <1>2, IdleState DEF Collected
<1>. QED  BY <1>1, <1>3, IdleState, RequestStep

\* Rows of rbac_user_roles are inserted and marked, and never taken away.
LEMMA CommitRows ==
    ASSUME Inv, NEW q \in Requests, Commit(q)
    PROVE  /\ request[q].user \in Users
           /\ assigned' = [assigned EXCEPT ![request[q].user] = [ro \in Roles |->
                 IF ro \in request[q].grants THEN "live"
                 ELSE IF ro \in request[q].drops THEN "revoked"
                 ELSE assigned[request[q].user][ro]]]
           /\ \A u \in Users, ro \in Roles :
                 assigned[u][ro] # "none" => assigned'[u][ro] # "none"
           /\ \A ro \in request[q].grants : assigned[request[q].user][ro] = "none"
           /\ \A u \in Users, ro \in Roles :
                 /\ assigned[u][ro] = "none"
                 /\ ~(u = request[q].user /\ ro \in request[q].grants)
                 => assigned'[u][ro] = "none"
<1>1. /\ request[q].pc = "commit"
      /\ assigned' = [assigned EXCEPT ![request[q].user] = [ro \in Roles |->
            IF ro \in request[q].grants THEN "live"
            ELSE IF ro \in request[q].drops THEN "revoked"
            ELSE assigned[request[q].user][ro]]]
  BY DEF Commit
<1>2. /\ request[q].user \in Users
      /\ \A ro \in request[q].grants : assigned[request[q].user][ro] = "none"
      /\ \A ro \in request[q].drops : assigned[request[q].user][ro] # "none"
  BY <1>1 DEF Inv, Collected
<1>3. assigned \in [Users -> [Roles -> {"none", "live", "revoked"}]]
  BY DEF Inv, TypeOK
<1>. QED  BY <1>1, <1>2, <1>3

LEMMA CommitInvitations ==
    ASSUME Inv, NEW q \in Requests, Commit(q)
    PROVE  /\ invitation' \in [Invitations -> InvitationRow \cup {None}]
           /\ \A i \in Invitations : invitation[i] # None =>
                 /\ invitation'[i] # None
                 /\ invitation'[i].user = invitation[i].user
                 /\ invitation'[i].role = invitation[i].role
<1>. DEFINE w == request[q]
<1>1. PICK new \in IF w.offers = None THEN {None}
                   ELSE {i \in Invitations : invitation[i] = None} :
        invitation' = [i \in Invitations |->
            IF i = new
            THEN [user |-> w.user, role |-> w.offers, status |-> "pending",
                  live |-> TRUE, expired |-> FALSE]
            ELSE IF i = w.accepts THEN [invitation[i] EXCEPT !.status = "accepted"]
            ELSE IF i = w.revokes
            THEN [invitation[i] EXCEPT !.status = "revoked", !.live = FALSE]
            ELSE invitation[i]]
  BY DEF Commit
<1>2. /\ w.user \in Users /\ w.offers \in Roles \cup {None}
      /\ (w.accepts # None => invitation[w.accepts] # None)
      /\ (w.revokes # None => invitation[w.revokes] # None)
  BY DEF Inv, TypeOK, RequestState, Collected, Commit
<1>3. ASSUME NEW i \in Invitations
      PROVE  /\ invitation'[i] \in InvitationRow \cup {None}
             /\ invitation[i] # None =>
                   /\ invitation'[i] \in InvitationRow
                   /\ invitation'[i].user = invitation[i].user
                   /\ invitation'[i].role = invitation[i].role
  <2>0. invitation[i] \in InvitationRow \cup {None} /\ i # None
    BY NoneIsApart DEF Inv, TypeOK
  <2>1. CASE i = new
    <3>1. w.offers # None  BY <1>1, <2>0, <2>1
    <3>2. invitation[i] = None  BY <1>1, <2>1, <3>1
    <3>3. invitation'[i] = [user |-> w.user, role |-> w.offers, status |-> "pending",
                            live |-> TRUE, expired |-> FALSE]
      BY <1>1, <2>1
    <3>. QED  BY <1>2, <3>1, <3>2, <3>3 DEF InvitationRow, Statuses
  <2>2. CASE i # new /\ i = w.accepts
    <3>1. invitation'[i] = [invitation[i] EXCEPT !.status = "accepted"]
      BY <1>1, <2>2
    <3>2. invitation[i] \in InvitationRow  BY <1>2, <2>0, <2>2
    <3>. QED  BY <3>1, <3>2 DEF InvitationRow, Statuses
  <2>3. CASE i # new /\ i # w.accepts /\ i = w.revokes
    <3>1. invitation'[i] = [invitation[i] EXCEPT !.status = "revoked", !.live = FALSE]
      BY <1>1, <2>3
    <3>2. invitation[i] \in InvitationRow  BY <1>2, <2>0, <2>3
    <3>. QED  BY <3>1, <3>2 DEF InvitationRow, Statuses
  <2>4. CASE i # new /\ i # w.accepts /\ i # w.revokes
    <3>1. invitation'[i] = invitation[i]  BY <1>1, <2>4
    <3>. QED  BY <2>0, <3>1
  <2>. QED  BY <2>1, <2>2, <2>3, <2>4
<1>4. invitation' = [i \in Invitations |-> invitation'[i]]  BY <1>1
<1>5. \A i \in Invitations : invitation[i] # None => invitation'[i] # None
  BY <1>3, NoneIsApart
<1>. QED  BY <1>3, <1>4, <1>5
LEMMA CommitPreserves ==
    ASSUME Inv, NEW q \in Requests, Commit(q)
    PROVE  Inv'
<1>. DEFINE w == request[q]
            u == w.user
            n == rows[u] + 1
<1>1. /\ w.pc = "commit" /\ (w.joins => rows[u] < MaxRows)
      /\ account' = IF w.creates THEN account \cup {u} ELSE account
      /\ rows' = [rows EXCEPT ![u] = IF w.joins THEN n ELSE @]
      /\ employee' = [employee EXCEPT
            ![u] = (@ \ {w.leaves}) \cup (IF w.joins THEN {n} ELSE {})]
      /\ accepts' = [i \in Invitations |-> accepts[i] + IF i = w.accepts THEN 1 ELSE 0]
      /\ request' = [request EXCEPT ![q] = Idle]
      /\ roles' = roles
  BY DEF Commit
<1>0. /\ request[q].user \in Users
      /\ assigned' = [assigned EXCEPT ![request[q].user] = [ro \in Roles |->
            IF ro \in request[q].grants THEN "live"
            ELSE IF ro \in request[q].drops THEN "revoked"
            ELSE assigned[request[q].user][ro]]]
      /\ \A v \in Users, ro \in Roles :
            assigned[v][ro] # "none" => assigned'[v][ro] # "none"
      /\ \A ro \in request[q].grants : assigned[request[q].user][ro] = "none"
      /\ \A v \in Users, ro \in Roles :
            /\ assigned[v][ro] = "none"
            /\ ~(v = request[q].user /\ ro \in request[q].grants)
            => assigned'[v][ro] = "none"
  BY CommitRows
<1>00. /\ invitation' \in [Invitations -> InvitationRow \cup {None}]
       /\ \A i \in Invitations : invitation[i] # None =>
             /\ invitation'[i] # None
             /\ invitation'[i].user = invitation[i].user
             /\ invitation'[i].role = invitation[i].role
  BY CommitInvitations
<1>2. w \in RequestState /\ u \in Users  BY <1>0 DEF Inv, TypeOK
<1>3. TypeOK'
  <2>1. account' \subseteq Users /\ roles' \subseteq Roles
    BY <1>1, <1>2 DEF Inv, TypeOK
  <2>2. rows' \in [Users -> 0..MaxRows] /\ \A v \in Users : v # u => rows'[v] = rows[v]
    BY <1>1, <1>2, NoneIsApart DEF Inv, TypeOK
  <2>3. /\ employee' \in [Users -> SUBSET (1..MaxRows)]
        /\ \A v \in Users : employee'[v] \subseteq 1..rows'[v]
    <3>1. /\ employee \in [Users -> SUBSET (1..MaxRows)]
          /\ rows \in [Users -> 0..MaxRows] /\ rows[u] \in 0..MaxRows
          /\ \A v \in Users : employee[v] \subseteq 1..rows[v]
      BY <1>2 DEF Inv, TypeOK
    <3>2. CASE w.joins
      <4>1. /\ rows'[u] = n /\ employee'[u] = (employee[u] \ {w.leaves}) \cup {n}
            /\ n \in 1..MaxRows /\ rows[u] <= n /\ rows[u] \in Nat
        BY <1>1, <1>2, <3>1, <3>2, NoneIsApart
      <4>2. employee'[u] \subseteq 1..rows'[u] /\ employee'[u] \subseteq 1..MaxRows
        BY <3>1, <4>1, <1>2, NoneIsApart
      <4>. QED  BY <1>1, <1>2, <2>2, <3>1, <4>2
    <3>3. CASE ~w.joins
      <4>1. rows'[u] = rows[u] /\ employee'[u] = employee[u] \ {w.leaves}
        BY <1>1, <1>2, <3>1, <3>3
      <4>. QED  BY <1>1, <1>2, <2>2, <3>1, <4>1
    <3>. QED  BY <3>2, <3>3
  <2>4. assigned' \in [Users -> [Roles -> {"none", "live", "revoked"}]]
    BY <1>0 DEF Inv, TypeOK
  <2>5. accepts' \in [Invitations -> Nat]  BY <1>1 DEF Inv, TypeOK
  <2>6. request' \in [Requests -> RequestState]
    BY <1>1, IdleState DEF Inv, TypeOK
  <2>. QED  BY <2>1, <2>2, <2>3, <2>4, <2>5, <2>6, <1>00 DEF TypeOK
<1>4. request'[q] = Idle /\ \A p \in Requests \ {q} : request'[p] = request[p]
  BY <1>1 DEF Inv, TypeOK
<1>5. ASSUME NEW p \in Requests PROVE Collected(p)'
  <2>1. CASE p = q  BY <1>4, <2>1, IdleState DEF Collected
  <2>2. CASE p # q
    <3>. DEFINE x == request[p]
    <3>1. request'[p] = x /\ x \in RequestState /\ Collected(p)
      BY <1>4, <2>2 DEF Inv, TypeOK
    <3>2. CASE x.pc = "idle"  BY <3>1, <3>2 DEF Collected
    <3>3. CASE x.pc # "idle"
      <4>1. /\ x.user \in Users /\ x.grants \subseteq Roles /\ x.drops \subseteq Roles
            /\ \A ro \in x.drops : assigned[x.user][ro] # "none"
            /\ x.revokes # None => x.revokes \in Invitations /\ invitation[x.revokes] # None
            /\ x.accepts # None =>
                  /\ x.accepts \in Invitations
                  /\ invitation[x.accepts] # None
                  /\ invitation[x.accepts].user = x.user
                  /\ x.grants = {invitation[x.accepts].role}
        BY <3>1, <3>3 DEF Collected, RequestState
      <4>2. \A ro \in x.drops : assigned'[x.user][ro] # "none"
        BY <1>0, <4>1
      <4>3. x.revokes # None => invitation'[x.revokes] # None
        BY <1>00, <4>1
      <4>4. x.accepts # None =>
               /\ invitation'[x.accepts] # None
               /\ invitation'[x.accepts].user = x.user
               /\ x.grants = {invitation'[x.accepts].role}
        BY <1>00, <4>1
      <4>5. ASSUME x.pc = "commit"
            PROVE  /\ \A ro \in x.grants : assigned'[x.user][ro] = "none"
                   /\ \A o \in Requests \ {p} :
                         request'[o].pc = "commit" /\ request'[o].user = x.user =>
                             x.grants \cap request'[o].grants = {}
        <5>1. \A ro \in x.grants : assigned[x.user][ro] = "none"
          BY <3>1, <4>5 DEF Collected
        <5>2. x.user = u => x.grants \cap w.grants = {}
          BY <1>1, <2>2, <3>1, <4>5 DEF Collected
        <5>3. \A ro \in x.grants : ~(x.user = u /\ ro \in w.grants)
          BY <5>2
        <5>4. \A ro \in x.grants : assigned'[x.user][ro] = "none"
          BY <4>1, <5>1, <5>3, <1>0
        <5>5. ASSUME NEW o \in Requests \ {p}, request'[o].pc = "commit",
                     request'[o].user = x.user
              PROVE  x.grants \cap request'[o].grants = {}
          <6>1. o # q /\ request'[o] = request[o]
            BY <1>4, <5>5, IdleState
          <6>. QED  BY <3>1, <4>5, <5>5, <6>1 DEF Collected
        <5>. QED  BY <5>4, <5>5
      <4>. QED  BY <3>1, <4>1, <4>2, <4>3, <4>4, <4>5 DEF Collected
    <3>. QED  BY <3>2, <3>3
  <2>. QED  BY <2>1, <2>2
<1>6. ASSUME NEW i \in Invitations PROVE Marked(i)'
  <2>0. accepts'[i] = accepts[i] + IF i = w.accepts THEN 1 ELSE 0
    BY <1>1
  <2>00. accepts[i] \in Nat /\ Marked(i)  BY DEF Inv, TypeOK
  <2>1. CASE i # w.accepts
    <3>1. accepts'[i] = accepts[i]  BY <2>0, <2>00, <2>1
    <3>2. invitation[i] # None =>
             invitation[i].user \in Users /\ invitation[i].role \in Roles
      BY DEF Inv, TypeOK, InvitationRow
    <3>. QED  BY <2>00, <3>1, <3>2, <1>0, <1>00 DEF Marked
  <2>2. CASE i = w.accepts
    <3>0. i # None  BY NoneIsApart
    <3>1. /\ invitation[i] # None /\ invitation[i].user = u
          /\ w.grants = {invitation[i].role} /\ invitation[i].role \in Roles
      BY <1>1, <2>2, <3>0 DEF Inv, TypeOK, Collected, InvitationRow
    <3>2. assigned[u][invitation[i].role] = "none"  BY <1>0, <3>1
    <3>3. accepts[i] = 0  BY <2>00, <3>1, <3>2 DEF Marked
    <3>4. accepts'[i] = 1  BY <2>0, <2>2, <3>3
    <3>5. assigned'[u][invitation[i].role] = "live"
      BY <1>2, <3>1, <1>0 DEF Inv, TypeOK
    <3>. QED  BY <3>1, <3>4, <3>5, <1>00 DEF Marked
  <2>. QED  BY <2>1, <2>2
<1>. QED  BY <1>3, <1>5, <1>6 DEF Inv

-----------------------------------------------------------------------------
\* A sign-up, the end of a role and of an invitation's time change nothing that
\* the requests rely on.
LEMMA OthersPreserve ==
    ASSUME Inv, Register \/ delete_role \/ Expire
    PROVE  Inv'
<1>1. CASE Register \/ delete_role
  <2>1. UNCHANGED <<rows, employee, assigned, invitation, request, accepts>>
    BY <1>1 DEF Register, delete_role
  <2>2. TypeOK'  BY <1>1, <2>1 DEF Register, delete_role, Inv, TypeOK
  <2>. QED  BY <2>1, <2>2 DEF Inv, Collected, Marked
<1>2. CASE Expire
  <2>1. PICK i \in Invitations :
          /\ invitation[i] # None
          /\ i \in Pending(invitation[i].user)
          /\ ~invitation[i].expired
          /\ invitation' = [invitation EXCEPT ![i].expired = TRUE]
          /\ UNCHANGED <<account, rows, employee, roles, assigned, request, accepts>>
    BY <1>2 DEF Expire
  <2>. DEFINE row == [invitation[i] EXCEPT !.expired = TRUE]
  <2>2. invitation' = [invitation EXCEPT ![i] = row]  BY <2>1
  <2>3. invitation[i] \in InvitationRow /\ invitation \in [Invitations -> InvitationRow \cup {None}]
    BY <2>1 DEF Inv, TypeOK
  <2>4. row \in InvitationRow /\ row.user = invitation[i].user /\ row.role = invitation[i].role
    BY <2>3 DEF InvitationRow
  <2>. HIDE DEF row
  <2>5. row # None  BY <2>4, NoneIsApart
  <2>6. TypeOK'  BY <2>1, <2>2, <2>3, <2>4 DEF Inv, TypeOK
  <2>7. \A j \in Invitations : invitation[j] # None =>
           /\ invitation'[j] # None /\ invitation'[j].user = invitation[j].user
           /\ invitation'[j].role = invitation[j].role
    BY <2>2, <2>3, <2>4, <2>5
  <2>8. ASSUME NEW q \in Requests PROVE Collected(q)'
    <3>1. request' = request /\ assigned' = assigned /\ Collected(q)
      BY <2>1 DEF Inv
    <3>2. request[q].revokes \in Invitations \cup {None}
          /\ request[q].accepts \in Invitations \cup {None}
      BY DEF Inv, TypeOK, RequestState
    <3>. QED  BY <2>7, <3>1, <3>2 DEF Collected
  <2>9. \A j \in Invitations : Marked(j)'
    BY <2>1, <2>7 DEF Inv, Marked
  <2>. QED  BY <2>6, <2>8, <2>9 DEF Inv
<1>. QED  BY <1>1, <1>2

LEMMA HandlePreserves ==
    ASSUME Inv, NEW q \in Requests, Handle(q)
    PROVE  Inv'
<1>1. CASE FindUser(q)
  <2>. DEFINE pc == IF request[q].user \in account THEN "grant" ELSE "create"
  <2>1. /\ request[q].pc = "find" /\ request' = [request EXCEPT ![q].pc = pc]
        /\ UNCHANGED <<account, rows, employee, roles, assigned, invitation, accepts>>
    BY <1>1 DEF FindUser, Goes
  <2>2. pc \in {"create", "grant"}  OBVIOUS
  <2>. HIDE DEF pc
  <2>. QED  BY <2>1, <2>2, GoesPreserves
<1>2. CASE InsertUser(q)
  BY <1>2, GoesPreserves DEF InsertUser
<1>. QED
  BY <1>1, <1>2, CreatePreserves, AcceptPreserves, RolesPreserve, MembersPreserve,
     GrantPreserves, CommitPreserves, AbortPreserves DEF Handle

LEMMA NextInv == Inv /\ [Next]_vars => Inv'
<1>. SUFFICES ASSUME Inv, [Next]_vars PROVE Inv'  OBVIOUS
<1>1. CASE UNCHANGED vars  BY <1>1 DEF vars, Inv, TypeOK, Collected, Marked
<1>. QED  BY <1>1, HandlePreserves, OthersPreserve DEF Next

LEMMA Invariance == Spec => []Inv
BY InitInv, NextInv, PTL DEF Spec

\* Rows keep the values of their columns, and employee rows their numbers.
THEOREM Typing == Spec => []TypeOK
<1>1. Inv => TypeOK  BY DEF Inv
<1>. QED  BY <1>1, Invariance, PTL

\* However requests overlap, an invitation is accepted once at most.
THEOREM NoSecondAcceptance == Spec => []AcceptedOnce
<1>1. Inv => AcceptedOnce  BY DEF Inv, TypeOK, Marked, AcceptedOnce
<1>. QED  BY <1>1, Invariance, PTL

\* What the constraint makes of every replacement: no operation gives a person a
\* role back that was taken from them, although update_user_roles means to
\* (rbac/models.py:78-80, user_management/service.py:678-685).
THEOREM NoRoleComesBack == Spec => RevokedStays
<1>1. ASSUME Inv, [Next]_vars
      PROVE  [\A u \in Users, ro \in Roles :
                 assigned[u][ro] = "revoked" => assigned'[u][ro] = "revoked"]_vars
  <2>1. CASE assigned' = assigned  BY <2>1
  <2>2. ASSUME NEW q \in Requests, Commit(q)
        PROVE  \A u \in Users, ro \in Roles :
                  assigned[u][ro] = "revoked" => assigned'[u][ro] = "revoked"
    <3>1. /\ request[q].user \in Users
          /\ assigned' = [assigned EXCEPT ![request[q].user] = [ro \in Roles |->
                IF ro \in request[q].grants THEN "live"
                ELSE IF ro \in request[q].drops THEN "revoked"
                ELSE assigned[request[q].user][ro]]]
          /\ \A ro \in request[q].grants : assigned[request[q].user][ro] = "none"
      BY <1>1, <2>2, CommitRows
    <3>2. assigned \in [Users -> [Roles -> {"none", "live", "revoked"}]]
      BY <1>1 DEF Inv, TypeOK
    <3>. QED  BY <3>1, <3>2
  <2>3. ASSUME NEW q \in Requests, Handle(q)
        PROVE  assigned' = assigned \/ Commit(q)
    <3>1. \A w : Starts(q, w) => assigned' = assigned  BY DEF Starts
    <3>2. create_invitation(q) \/ accept_invitation(q) => assigned' = assigned
      BY <3>1 DEF create_invitation, accept_invitation
    <3>3. update_user_roles(q) => assigned' = assigned
      BY <3>1 DEF update_user_roles
    <3>4. assign_role(q) \/ revoke_role(q) => assigned' = assigned
      BY <3>1 DEF assign_role, revoke_role
    <3>5. remove_user_from_organization(q) \/ invite_employee(q) => assigned' = assigned
      BY <3>1 DEF remove_user_from_organization, invite_employee
    <3>6. FindUser(q) \/ InsertUser(q) \/ Grant(q) \/ Abort(q) => assigned' = assigned
      BY DEF FindUser, InsertUser, Grant, Goes, Abort
    <3>. QED  BY <2>3, <3>2, <3>3, <3>4, <3>5, <3>6 DEF Handle
  <2>4. ASSUME delete_role \/ Register \/ Expire \/ UNCHANGED vars
        PROVE  assigned' = assigned
    BY <2>4 DEF delete_role, Register, Expire, vars
  <2>5. assigned' = assigned \/ \E q \in Requests : Commit(q)
    BY <1>1, <2>3, <2>4 DEF Next
  <2>. QED  BY <2>1, <2>2, <2>5
<1>. QED  BY <1>1, Invariance, PTL DEF Spec, RevokedStays
================================================================================
