---------------------------- MODULE StaffAccess ----------------------------
(***************************************************************************)
(* Accounts, their sessions, and the one part of the administration that   *)
(* edits accounts: AuthService, the two guards every admin route runs      *)
(* through, and AdminUsersService.  A call is admitted by the guards,      *)
(* checked against the rows the handler reads, and written in a            *)
(* transaction of its own, with anything in between, calls of the same     *)
(* user included: neither the guards nor the dashboard's rows, each with   *)
(* a busy flag of its own, keep a user from sending several at once.       *)
(***************************************************************************)
EXTENDS Naturals, FiniteSets

CONSTANTS Users,       \* email addresses, each with at most one account
          Sessions,    \* session ids
          Calls,       \* requests the API may have in flight
          FirstStaff,  \* the role of each account the store starts with
          NoUser

StaffRoles == {"SUPER_ADMIN", "SUPPORT"}   \* SUPPORT stands for every lesser role
Roles      == StaffRoles \cup {"CUSTOMER"}

ASSUME StaffAssumption ==
    /\ IsFiniteSet(Calls)
    /\ FirstStaff \in [Users -> Roles \cup {"NONE"}]
    /\ \E u \in Users : FirstStaff[u] = "SUPER_ADMIN"
    /\ NoUser \notin Users

VARIABLES
    account,     \* account[u]: role ("NONE": no row) and isActive
    session,     \* session[s]: whose it is (NoUser: not issued) and whether it has ended
    call,        \* call[c]: a request in flight, of login, register or AdminUsersService
    pending,     \* history: calls u had past the guards when it was removed
    late         \* history: edits u has written since

staffVars == <<account, session, call, pending, late>>

NoCall     == [phase |-> "none"]
Signing(u) == [phase |-> "signing", user |-> u]

Edit ==
    [kind : {"create"}, target : Users, role : StaffRoles]
      \cup [kind : {"role"}, target : Users, role : StaffRoles]
      \cup [kind : {"active"}, target : Users, active : BOOLEAN]

StaffInit ==
    /\ account = [u \in Users |-> [role |-> FirstStaff[u], active |-> TRUE]]
    /\ session = [s \in Sessions |-> [user |-> NoUser, ended |-> FALSE]]
    /\ call = [c \in Calls |-> NoCall]
    /\ pending = [u \in Users |-> 0]
    /\ late = [u \in Users |-> 0]

Exists(u) == account[u].role # "NONE"

SuperAdmins == {u \in Users : account[u].role = "SUPER_ADMIN" /\ account[u].active}

(* The calls of u that are past the guards.                                *)
CallsOf(u) == {c \in Calls : call[c].phase \in {"admitted", "checked"} /\ call[c].user = u}

(* A request arrives: which place it takes makes no difference.            *)
Starts(request) ==
    LET free == {c \in Calls : call[c] = NoCall}
    IN  /\ free # {}
        /\ call' = [call EXCEPT ![CHOOSE c \in free : TRUE] = request]

Ends(c) == call' = [call EXCEPT ![c] = NoCall]

(***************************************************************************)
(* AuthService.                                                            *)
(***************************************************************************)

(* validateSession: not revoked, not expired, and its account is active.   *)
MutantValidateSession(s) ==
    /\ session[s].user # NoUser
    /\ ~session[s].ended

ValidateSession(s) ==
    /\ session[s].user # NoUser
    /\ ~session[s].ended
    /\ account[session[s].user].active

(* login reads the account, then takes its time over the password hash.    *)
Login(u) ==
    /\ Exists(u) /\ account[u].active
    /\ Starts(Signing(u))
    /\ UNCHANGED <<account, session, pending, late>>

(* register: a free address becomes a customer's.                          *)
Register(u) ==
    /\ ~Exists(u)
    /\ account' = [account EXCEPT ![u] = [role |-> "CUSTOMER", active |-> TRUE]]
    /\ Starts(Signing(u))
    /\ UNCHANGED <<session, pending, late>>

(* The id is a random one: any that is still free stands for all of them.  *)
CreateSession(c) ==
    LET free == {s \in Sessions : session[s].user = NoUser}
        s    == CHOOSE x \in free : TRUE
    IN
    /\ call[c].phase = "signing"
    /\ free # {}
    /\ session' = [session EXCEPT ![s].user = call[c].user]
    /\ Ends(c)
    /\ UNCHANGED <<account, pending, late>>

Logout(s) ==
    /\ ValidateSession(s)
    /\ session' = [session EXCEPT ![s].ended = TRUE]
    /\ UNCHANGED <<account, call, pending, late>>

Expire(s) ==
    /\ session[s].user # NoUser /\ ~session[s].ended
    /\ session' = [session EXCEPT ![s].ended = TRUE]
    /\ UNCHANGED <<account, call, pending, late>>

(***************************************************************************)
(* SessionAuthGuard and RolesGuard: one read of the session with its user. *)
(* Any browser that was given a session may send it, as often as it likes. *)
(***************************************************************************)
RolesAllow(u) == account[u].role = "SUPER_ADMIN"

Admit(s, edit) ==
    /\ ValidateSession(s)
    /\ RolesAllow(session[s].user)
    /\ Starts([phase |-> "admitted", user |-> session[s].user, edit |-> edit])
    /\ UNCHANGED <<account, session, pending, late>>

(***************************************************************************)
(* AdminUsersService.                                                      *)
(***************************************************************************)

(* Nobody may deactivate or demote the account the request came with.      *)
MutantSelfLockout(u, edit) == edit.kind = "role" /\ edit.target = u /\ edit.role # "SUPER_ADMIN"

SelfLockout(u, edit) ==
    /\ edit.target = u
    /\ \/ edit.kind = "active" /\ ~edit.active
       \/ edit.kind = "role" /\ edit.role # "SUPER_ADMIN"

Acceptable(u, edit) ==
    IF edit.kind = "create"
    THEN ~Exists(edit.target)
    ELSE /\ Exists(edit.target)
         /\ account[edit.target].role # "CUSTOMER"
         /\ ~SelfLockout(u, edit)

CheckEdit(c) ==
    /\ call[c].phase = "admitted"
    /\ Acceptable(call[c].user, call[c].edit)
    /\ call' = [call EXCEPT ![c].phase = "checked"]
    /\ UNCHANGED <<account, session, pending, late>>

RefuseEdit(c) ==
    /\ call[c].phase = "admitted"
    /\ ~Acceptable(call[c].user, call[c].edit)
    /\ Ends(c)
    /\ UNCHANGED <<account, session, pending, late>>

(* The histories, once u has written: a SUPER_ADMIN who is removed has so  *)
(* many calls under way, and somebody who was removed before is late.      *)
Recorded(u) ==
    /\ pending' = [w \in Users |-> IF w \in SuperAdmins' THEN 0
                                   ELSE IF w \in SuperAdmins THEN Cardinality(CallsOf(w))
                                   ELSE pending[w]]
    /\ late' = [w \in Users |-> IF w \in SuperAdmins \cup SuperAdmins' THEN 0
                                ELSE IF w = u THEN late[w] + 1 ELSE late[w]]

(* The transaction of a creation: the unique address decides, so it fails  *)
(* when the address was taken since the check.                             *)
MutantCommitCreate(c) ==
    /\ call[c].phase = "checked" /\ call[c].edit.kind = "create"
    /\ account' = [account EXCEPT ![call[c].edit.target] =
                       [role |-> call[c].edit.role, active |-> TRUE]]
    /\ Recorded(call[c].user)
    /\ Ends(c)
    /\ UNCHANGED session

CommitCreate(c) ==
    /\ call[c].phase = "checked" /\ call[c].edit.kind = "create"
    /\ IF Exists(call[c].edit.target)
       THEN UNCHANGED <<account, pending, late>>
       ELSE /\ account' = [account EXCEPT ![call[c].edit.target] =
                              [role |-> call[c].edit.role, active |-> TRUE]]
            /\ Recorded(call[c].user)
    /\ Ends(c)
    /\ UNCHANGED session

(* The transaction of an update looks at nothing again.                    *)
CommitUpdate(c) ==
    LET edit == call[c].edit
        t    == edit.target
    IN  /\ call[c].phase = "checked" /\ edit.kind # "create"
        /\ account' = IF edit.kind = "role"
                      THEN [account EXCEPT ![t].role = edit.role]
                      ELSE [account EXCEPT ![t].active = edit.active]
        /\ Recorded(call[c].user)
        /\ Ends(c)
        /\ UNCHANGED session

(* The API process dies with the request in it.                            *)
DropCall(c) ==
    /\ call[c] # NoCall
    /\ Ends(c)
    /\ UNCHANGED <<account, session, pending, late>>

StaffStep ==
    \/ \E u \in Users : Login(u) \/ Register(u)
    \/ \E c \in Calls :
          \/ CreateSession(c) \/ CheckEdit(c) \/ RefuseEdit(c)
          \/ CommitCreate(c) \/ CommitUpdate(c) \/ DropCall(c)
    \/ \E s \in Sessions : Logout(s) \/ Expire(s)

StaffNext == StaffStep \/ \E s \in Sessions, edit \in Edit : Admit(s, edit)

StaffSpec == StaffInit /\ [][StaffNext]_staffVars

(***************************************************************************)
(* Properties.                                                             *)
(***************************************************************************)
Call ==
    {NoCall} \cup [phase : {"signing"}, user : Users]
      \cup [phase : {"admitted", "checked"}, user : Users, edit : Edit]

StaffTypeOK ==
    /\ account \in [Users -> [role : Roles \cup {"NONE"}, active : BOOLEAN]]
    /\ session \in [Sessions -> [user : Users \cup {NoUser}, ended : BOOLEAN]]
    /\ call \in [Calls -> Call]
    /\ pending \in [Users -> Nat]
    /\ late \in [Users -> Nat]

(* Removing an account from the SUPER_ADMINs, by deactivation or demotion, *)
(* stops it: of the edits it sends, only those it had past the guards at   *)
(* that moment can still be written, however many they are; old sessions,  *)
(* fresh logins and logins caught half way let nothing more through.       *)
RemovalBites == \A u \in Users : late[u] <= pending[u]

(* The last active SUPER_ADMIN is never removed by a request whose sender  *)
(* is one: the rule against locking oneself out is enough for any number   *)
(* of edits under way at once, from any number of administrators, except   *)
(* where a request outlives its sender's own removal (two administrators   *)
(* who remove each other at once both pass the rule).                      *)
LastSuperAdminStays ==
    [][SuperAdmins # {} /\ SuperAdmins' = {} =>
          \E c \in Calls : /\ call[c].phase = "checked" /\ call'[c] = NoCall
                           /\ call[c].user \notin SuperAdmins]_staffVars

(* A customer's account never turns into a staff account, nor a staff      *)
(* account into a customer's, by any race of registering an address,       *)
(* creating staff under it and editing it.                                 *)
CustomersStayCustomers ==
    [][\A u \in Users :
          account[u].role # "NONE" =>
             (account[u].role = "CUSTOMER" <=> account'[u].role = "CUSTOMER")]_staffVars
=============================================================================
