------------------------------- MODULE Membership -------------------------------
(***************************************************************************)
(* Who belongs to an organization: accounts, employee rows, roles and      *)
(* invitations (app/user_management/service.py, organizations/service.py,  *)
(* enterprise/modules/rbac/service.py), for one organization.              *)
(*                                                                         *)
(* Every operation is a transaction of its own under READ COMMITTED: it    *)
(* reads what others have committed, collects its writes, and Commit makes *)
(* them all visible; requests overlap in any way.  Nothing is ever         *)
(* deleted: rows are marked, and the unique constraints count the marked   *)
(* ones too.                                                               *)
(***************************************************************************)
EXTENDS Naturals, FiniteSets

CONSTANTS
    Users,        \* people, by e-mail address
    Roles,        \* roles of the organization; a new role is a new element
    Defaults,     \* those seeded with it, which are never deleted
    Invitations,  \* bound: rows of user_invitations
    Requests,     \* HTTP requests under way
    MaxRows,      \* bound: employee rows of a person
    None          \* no person, no invitation, no role

Statuses == {"pending", "accepted", "revoked"}

InvitationRow == [user : Users, role : Roles, status : Statuses, live : BOOLEAN,
                  expired : BOOLEAN]

ASSUME MembershipAssumption ==
    /\ Defaults \subseteq Roles
    /\ MaxRows \in Nat
    /\ None \notin Users \cup Roles \cup Invitations \cup InvitationRow

VARIABLES
    account,     \* people with a row in users
    rows,        \* how many employee rows each person ever had
    employee,    \* those that are not marked as deleted
    roles,       \* roles not marked as deleted
    assigned,    \* the row of rbac_user_roles of each person and role
    invitation,  \* user_invitations
    request,     \* what each request has done so far
    accepts      \* history: how often each invitation was accepted

vars == <<account, rows, employee, roles, assigned, invitation, request, accepts>>

\* The writes of a request: grants are rows of rbac_user_roles it inserts, drops
\* those it marks; creates says that it inserts the person's row in users, joins
\* the employee row; leaves is an employee row it marks, 0 for none; offers is the
\* role of a new invitation.
RequestState ==
    [pc      : {"idle", "find", "create", "grant", "commit"},
     user    : Users \cup {None},
     creates : BOOLEAN,
     joins   : BOOLEAN,
     leaves  : 0..MaxRows,
     grants  : SUBSET Roles,
     drops   : SUBSET Roles,
     accepts : Invitations \cup {None},
     revokes : Invitations \cup {None},
     offers  : Roles \cup {None}]

Idle == [pc |-> "idle", user |-> None, creates |-> FALSE, joins |-> FALSE,
         leaves |-> 0, grants |-> {}, drops |-> {}, accepts |-> None,
         revokes |-> None, offers |-> None]

Init ==
    /\ account = {}
    /\ rows = [u \in Users |-> 0]
    /\ employee = [u \in Users |-> {}]
    /\ roles = Roles
    /\ assigned = [u \in Users |-> [ro \in Roles |-> "none"]]
    /\ invitation = [i \in Invitations |-> None]
    /\ request = [q \in Requests |-> Idle]
    /\ accepts = [i \in Invitations |-> 0]

-----------------------------------------------------------------------------
(* Mutants: plausible bugs, each put in the place of the definition it is  *)
(* named for to show that a property notices.  No specification uses them. *)

\* the unique constraint counts only rows that are not marked
Taken_live(u, ro) == assigned[u][ro] = "live"

\* rows that another transaction has inserted and not committed are not waited for
Held_never(q, u, ro) == FALSE

\* what accept_invitation sets before it raises is committed
Expire_recorded == \E i \in Invitations :
    /\ invitation[i] # None
    /\ invitation[i].status = "pending"
    /\ invitation' = [invitation EXCEPT ![i].status = "expired"]
    /\ UNCHANGED <<account, rows, employee, roles, assigned, request, accepts>>

-----------------------------------------------------------------------------
(* Rows, constraints and locks.                                            *)

Live(u) == {ro \in Roles : assigned[u][ro] = "live"}

Pending(u) == {i \in Invitations :
    /\ invitation[i] # None
    /\ invitation[i].user = u
    /\ invitation[i].status = "pending"
    /\ invitation[i].live}

\* uq_user_role_org: there is a row of this person and role, marked or not.
Taken(u, ro) == assigned[u][ro] # "none"

\* Another transaction has inserted the row and has not ended: inserts wait.
Held(q, u, ro) == \E p \in Requests \ {q} :
    request[p].pc = "commit" /\ request[p].user = u /\ ro \in request[p].grants

\* A request that did not start, or that failed, has written nothing.
Starts(q, writes) ==
    /\ request[q].pc = "idle"
    /\ request' = [request EXCEPT ![q] = writes]
    /\ UNCHANGED <<account, rows, employee, roles, assigned, invitation, accepts>>

Goes(q, pc) ==
    /\ request' = [request EXCEPT ![q].pc = pc]
    /\ UNCHANGED <<account, rows, employee, roles, assigned, invitation, accepts>>

Abort(q) ==
    /\ request[q].pc # "idle"
    /\ request' = [request EXCEPT ![q] = Idle]
    /\ UNCHANGED <<account, rows, employee, roles, assigned, invitation, accepts>>

-----------------------------------------------------------------------------
(* Invitations.                                                            *)

\* The role exists, the person is no member, and a pending invitation is to be
\* replaced; with two of them the query for one raises.
create_invitation(q) == \E u \in Users, ro \in roles :
    /\ u \in account => employee[u] = {}
    /\ Cardinality(Pending(u)) <= 1
    /\ \E old \in IF Pending(u) = {} THEN {None} ELSE Pending(u) :
          Starts(q, [Idle EXCEPT !.pc = "commit", !.user = u, !.offers = ro,
                                 !.revokes = old])

\* The invitation is not marked, pending and in time.
accept_invitation(q) == \E i \in Invitations :
    /\ invitation[i] # None
    /\ i \in Pending(invitation[i].user)
    /\ ~invitation[i].expired
    /\ Starts(q, [Idle EXCEPT !.pc = "find", !.user = invitation[i].user,
                              !.joins = TRUE, !.accepts = i,
                              !.grants = {invitation[i].role}])

\* An account is looked for, and one is created when there is none.
FindUser(q) ==
    /\ request[q].pc = "find"
    /\ Goes(q, IF request[q].user \in account THEN "grant" ELSE "create")

\* The address is unique: the insert waits for one that has not ended, and fails
\* after one that was committed.
InsertUser(q) ==
    /\ request[q].pc = "create"
    /\ request[q].user \notin account
    /\ \A p \in Requests : ~(request[p].creates /\ request[p].user = request[q].user)
    /\ request' = [request EXCEPT ![q].pc = "grant", ![q].creates = TRUE]
    /\ UNCHANGED <<account, rows, employee, roles, assigned, invitation, accepts>>

-----------------------------------------------------------------------------
(* Roles.                                                                  *)

\* assign_role for each role: it must exist, and the row is inserted.  A row that
\* is there ends the request, by the check or, when it is marked or was committed
\* after the check, by the constraint.
Grant(q) ==
    /\ request[q].pc = "grant"
    /\ request[q].grants \subseteq roles
    /\ \A ro \in request[q].grants :
          ~Taken(request[q].user, ro) /\ ~Held(q, request[q].user, ro)
    /\ Goes(q, "commit")

\* The person has one employee row; roles they have are not granted again, except
\* by a replacement, which has marked them first.
update_user_roles(q) == \E u \in account, some \in SUBSET Roles :
    /\ Cardinality(employee[u]) = 1
    /\ \/ Starts(q, [Idle EXCEPT !.pc = "grant", !.user = u, !.drops = Live(u),
                                 !.grants = some])
       \/ Starts(q, [Idle EXCEPT !.pc = "grant", !.user = u, !.grants = some \ Live(u)])
       \/ Starts(q, [Idle EXCEPT !.pc = "commit", !.user = u,
                                 !.drops = some \cap Live(u)])

\* The two operations of the roles page, which ask for no employee row.
assign_role(q) == \E u \in account, ro \in roles :
    Starts(q, [Idle EXCEPT !.pc = "grant", !.user = u, !.grants = {ro}])

revoke_role(q) == \E u \in account : \E ro \in Live(u) :
    Starts(q, [Idle EXCEPT !.pc = "commit", !.user = u, !.drops = {ro}])

delete_role == \E ro \in roles \ Defaults :
    /\ roles' = roles \ {ro}
    /\ UNCHANGED <<account, rows, employee, assigned, invitation, request, accepts>>

-----------------------------------------------------------------------------
(* Members.                                                                *)

\* The only employee row and all roles the person has are marked.
remove_user_from_organization(q) == \E u \in account :
    /\ Cardinality(employee[u]) = 1
    /\ \E n \in employee[u] :
          Starts(q, [Idle EXCEPT !.pc = "commit", !.user = u, !.leaves = n,
                                 !.drops = Live(u)])

\* A person with an account and no employee row becomes a member without a role.
invite_employee(q) == \E u \in account :
    /\ employee[u] = {}
    /\ Starts(q, [Idle EXCEPT !.pc = "commit", !.user = u, !.joins = TRUE])

\* A person signs up.
Register == \E u \in Users \ account :
    /\ \A p \in Requests : ~(request[p].creates /\ request[p].user = u)
    /\ account' = account \cup {u}
    /\ UNCHANGED <<rows, employee, roles, assigned, invitation, request, accepts>>

-----------------------------------------------------------------------------
(* The end of a transaction, and of an invitation's time.                  *)

Commit(q) ==
    LET w == request[q]
        u == w.user
        n == rows[u] + 1 IN
    /\ w.pc = "commit"
    /\ w.joins => rows[u] < MaxRows
    /\ account' = IF w.creates THEN account \cup {u} ELSE account
    /\ rows' = [rows EXCEPT ![u] = IF w.joins THEN n ELSE @]
    /\ employee' = [employee EXCEPT
          ![u] = (@ \ {w.leaves}) \cup (IF w.joins THEN {n} ELSE {})]
    /\ assigned' = [assigned EXCEPT ![u] = [ro \in Roles |->
          IF ro \in w.grants THEN "live"
          ELSE IF ro \in w.drops THEN "revoked" ELSE assigned[u][ro]]]
    /\ \E new \in IF w.offers = None THEN {None}
                  ELSE {i \in Invitations : invitation[i] = None} :
          invitation' = [i \in Invitations |->
              IF i = new
              THEN [user |-> u, role |-> w.offers, status |-> "pending",
                    live |-> TRUE, expired |-> FALSE]
              ELSE IF i = w.accepts THEN [invitation[i] EXCEPT !.status = "accepted"]
              ELSE IF i = w.revokes
              THEN [invitation[i] EXCEPT !.status = "revoked", !.live = FALSE]
              ELSE invitation[i]]
    /\ accepts' = [i \in Invitations |-> accepts[i] + IF i = w.accepts THEN 1 ELSE 0]
    /\ request' = [request EXCEPT ![q] = Idle]
    /\ UNCHANGED roles

\* The status stays: a request that finds the time over sets it, raises, and is
\* rolled back.
Expire == \E i \in Invitations :
    /\ invitation[i] # None
    /\ i \in Pending(invitation[i].user)
    /\ ~invitation[i].expired
    /\ invitation' = [invitation EXCEPT ![i].expired = TRUE]
    /\ UNCHANGED <<account, rows, employee, roles, assigned, request, accepts>>

Handle(q) ==
    \/ create_invitation(q)
    \/ accept_invitation(q) \/ FindUser(q) \/ InsertUser(q)
    \/ update_user_roles(q) \/ assign_role(q) \/ revoke_role(q) \/ Grant(q)
    \/ remove_user_from_organization(q) \/ invite_employee(q)
    \/ Commit(q) \/ Abort(q)

Next == (\E q \in Requests : Handle(q)) \/ delete_role \/ Register \/ Expire

Spec == Init /\ [][Next]_vars

-----------------------------------------------------------------------------
(* Type invariant.                                                         *)

\* Rows have the values of their columns; the marked and the live employee rows
\* of a person are numbered as they were inserted (organizations/models.py:38,
\* rbac/models.py:58-83, user_management/models.py:16-41).
TypeOK ==
    /\ account \subseteq Users
    /\ rows \in [Users -> 0..MaxRows]
    /\ employee \in [Users -> SUBSET (1..MaxRows)]
    /\ \A u \in Users : employee[u] \subseteq 1..rows[u]
    /\ roles \subseteq Roles
    /\ assigned \in [Users -> [Roles -> {"none", "live", "revoked"}]]
    /\ invitation \in [Invitations -> InvitationRow \cup {None}]
    /\ request \in [Requests -> RequestState]
    /\ accepts \in [Invitations -> Nat]

-----------------------------------------------------------------------------
(* Safety.                                                                 *)

\* An invitation makes a member once: nothing in accept_invitation stops a second
\* request that read it as pending, or one that comes after its status has been
\* overwritten, but the row of its role, live or marked, does, even after the
\* member was removed (user_management/service.py:569-660, rbac/models.py:78-80).
AcceptedOnce == \A i \in Invitations : accepts[i] <= 1

\* "Revoke all existing roles", "Assign new roles": an assignment is refused only
\* to somebody who has the role, as the check of assign_role says.  The unique
\* constraint counts the rows that are marked too, those of this replacement
\* included, and refuses the others (user_management/service.py:678-685,
\* rbac/service.py:269-278, rbac/models.py:78-80).
RefusedOnlyIfHeld ==
    \A q \in Requests : request[q].pc = "grant" =>
        \A ro \in request[q].grants :
            Taken(request[q].user, ro) => ro \in Live(request[q].user) \ request[q].drops

\* What the constraint makes of it: a role that was taken from a person does not
\* come back to them, by whichever operation (rbac/service.py:263-290, 327-341).
RevokedStays ==
    [][\A u \in Users, ro \in Roles :
          assigned[u][ro] = "revoked" => assigned'[u][ro] = "revoked"]_vars
================================================================================
