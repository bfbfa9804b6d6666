-------------------------- MODULE BackOffice_proofs --------------------------
(***************************************************************************)
(* What the store's own people rely on.  StaffAccess, for any accounts,    *)
(* sessions and calls: who is left to administer the store, what a removed *)
(* account can still do, and which accounts belong to whom.  AdminForms,   *)
(* for any fields and texts: what a save may overwrite.  Invoicing, for    *)
(* any orders, sellers and texts: whose number an invoice has, and what    *)
(* its QR code says.                                                       *)
(***************************************************************************)
EXTENDS StaffAccess, AdminForms, Invoicing,
        SequenceTheorems, FiniteSetTheorems, WellFoundedInduction, TLAPS

-----------------------------------------------------------------------------
(* The staff's accounts.                                                   *)

PastGuards == {"admitted", "checked"}

\* An update that passed its check is one of a staff account, and not of oneself.
CallInv ==
    \A c \in Calls :
        call[c].phase = "checked" /\ call[c].edit.kind # "create" =>
            /\ account[call[c].edit.target].role \notin {"NONE", "CUSTOMER"}
            /\ ~SelfLockout(call[c].user, call[c].edit)

\* What a removed account has written, and what it has still under way, was all
\* past the guards when it was removed.
LateInv ==
    \A u \in Users :
        IF u \in SuperAdmins THEN late[u] = 0
        ELSE late[u] + Cardinality(CallsOf(u)) <= pending[u]

StaffInv == StaffTypeOK /\ CallInv /\ LateInv

\* The kinds of edit, and the fields each names.
LEMMA StaffEditShape ==
    ASSUME NEW edit \in Edit
    PROVE  /\ edit.target \in Users
           /\ edit.kind \in {"create", "role", "active"}
           /\ edit.kind \in {"create", "role"} => edit.role \in StaffRoles
           /\ edit.kind = "active" => edit.active \in BOOLEAN
BY DEF Edit

\* A call past the guards has a user and an edit; one that signs in, a user.
LEMMA CallShape ==
    ASSUME StaffTypeOK, NEW c \in Calls
    PROVE  /\ call[c].phase \in PastGuards =>
                 call[c] \in [phase : PastGuards, user : Users, edit : Edit]
           /\ call[c].phase = "signing" => call[c].user \in Users
BY DEF StaffTypeOK, Call, NoCall, PastGuards

\* Finitely many calls are under way, and a user that gets none has no more.
LEMMA CallsCounted ==
    ASSUME NEW u
    PROVE  /\ IsFiniteSet(CallsOf(u)) /\ Cardinality(CallsOf(u)) \in Nat
           /\ CallsOf(u)' \subseteq CallsOf(u) =>
                 /\ Cardinality(CallsOf(u)') \in Nat
                 /\ Cardinality(CallsOf(u)') <= Cardinality(CallsOf(u))
<1>1. CallsOf(u) \subseteq Calls
  BY DEF CallsOf
<1>2. IsFiniteSet(CallsOf(u))
  BY <1>1, StaffAssumption, FS_Subset
<1> QED BY <1>2, FS_Subset, FS_CardinalityType

\* A user one of whose calls has ended has one fewer.
LEMMA OneCallLess ==
    ASSUME NEW u, NEW c \in CallsOf(u), CallsOf(u)' \subseteq CallsOf(u) \ {c}
    PROVE  Cardinality(CallsOf(u)') + 1 <= Cardinality(CallsOf(u))
<1>1. IsFiniteSet(CallsOf(u)) /\ Cardinality(CallsOf(u)) \in Nat
  BY CallsCounted
<1>2. /\ IsFiniteSet(CallsOf(u) \ {c})
      /\ Cardinality(CallsOf(u) \ {c}) = Cardinality(CallsOf(u)) - 1
  BY <1>1, FS_RemoveElement
<1>3. /\ IsFiniteSet(CallsOf(u)')
      /\ Cardinality(CallsOf(u)') <= Cardinality(CallsOf(u) \ {c})
  BY <1>2, FS_Subset
<1>4. Cardinality(CallsOf(u)') \in Nat
  BY <1>3, FS_CardinalityType
<1> QED BY <1>1, <1>2, <1>3, <1>4

\* The store starts with its first staff, nobody signed in.
LEMMA InitStaff == StaffInit => StaffInv
<1> SUFFICES ASSUME StaffInit PROVE StaffInv
  OBVIOUS
<1>1. StaffTypeOK
  BY StaffAssumption DEF StaffInit, StaffTypeOK, Call
<1>2. \A c \in Calls : call[c].phase \notin PastGuards
  BY DEF StaffInit, NoCall, PastGuards
<1>3. CallInv
  BY <1>2 DEF CallInv, PastGuards
<1>4. \A u \in Users : CallsOf(u) = {}
  BY <1>2 DEF CallsOf, PastGuards
<1>5. \A u \in Users : late[u] = 0 /\ pending[u] = 0
  BY DEF StaffInit
<1>6. LateInv
  BY <1>4, <1>5, FS_EmptySet DEF LateInv
<1> QED BY <1>1, <1>3, <1>6 DEF StaffInv

\* A request takes a place that was free, or leaves its own.
LEMMA StartsShape ==
    ASSUME StaffTypeOK, NEW x \in Call, Starts(x)
    PROVE  \E c \in Calls : call[c] = NoCall /\ call' = [call EXCEPT ![c] = x]
<1> DEFINE free == {c \in Calls : call[c] = NoCall}
<1>1. (CHOOSE c \in free : TRUE) \in free
  BY DEF Starts
<1> QED BY <1>1 DEF Starts

LEMMA EndsShape ==
    ASSUME StaffTypeOK, NEW c \in Calls, Ends(c)
    PROVE  /\ call' \in [Calls -> Call] /\ call'[c] = NoCall
           /\ \A d \in Calls : d # c => call'[d] = call[d]
           /\ \A d \in Calls : call'[d].phase \in PastGuards => d # c /\ call'[d] = call[d]
BY DEF StaffTypeOK, Ends, Call, NoCall, PastGuards

LEMMA SigningShape ==
    ASSUME StaffTypeOK, NEW u \in Users, Starts(Signing(u))
    PROVE  /\ call' \in [Calls -> Call]
           /\ \A d \in Calls : call'[d].phase \in PastGuards => call'[d] = call[d]
<1>1. Signing(u) \in Call
  BY DEF Signing, Call
<1>2. PICK c \in Calls : call' = [call EXCEPT ![c] = Signing(u)]
  BY <1>1, StartsShape
<1>3. Signing(u).phase \notin PastGuards
  BY DEF Signing, PastGuards
<1> QED BY <1>1, <1>2, <1>3 DEF StaffTypeOK

\* A step that edits no account and lets no call past the guards or the check.
LEMMA StepQuiet ==
    ASSUME StaffInv, StaffTypeOK', UNCHANGED <<account, pending, late>>,
           \A d \in Calls : call'[d].phase \in PastGuards => call'[d] = call[d]
    PROVE  StaffInv'
<1>1. CallInv'
  BY DEF StaffInv, CallInv, SelfLockout, PastGuards
<1>2. \A u \in Users : CallsOf(u)' \subseteq CallsOf(u)
  BY DEF CallsOf, PastGuards
<1>3. LateInv'
  <2> SUFFICES ASSUME NEW u \in Users
               PROVE  IF u \in SuperAdmins' THEN late'[u] = 0
                      ELSE late'[u] + Cardinality(CallsOf(u)') <= pending'[u]
    BY DEF LateInv
  <2>1. SuperAdmins' = SuperAdmins /\ late'[u] = late[u] /\ pending'[u] = pending[u]
    BY DEF SuperAdmins
  <2>2. IF u \in SuperAdmins THEN late[u] = 0
        ELSE late[u] + Cardinality(CallsOf(u)) <= pending[u]
    BY DEF StaffInv, LateInv
  <2>3. late[u] \in Nat /\ pending[u] \in Nat
    BY DEF StaffInv, StaffTypeOK
  <2>4. /\ Cardinality(CallsOf(u)) \in Nat /\ Cardinality(CallsOf(u)') \in Nat
        /\ Cardinality(CallsOf(u)') <= Cardinality(CallsOf(u))
    BY <1>2, CallsCounted
  <2> QED BY <2>1, <2>2, <2>3, <2>4
<1> QED BY <1>1, <1>3 DEF StaffInv

\* Signing in and out, the end of a session, and a call that is refused or dies.
LEMMA StepLogin ==
    ASSUME StaffInv, NEW u \in Users, Login(u)
    PROVE  StaffInv'
<1>1. Starts(Signing(u)) /\ UNCHANGED <<account, session, pending, late>>
  BY DEF Login
<1>2. /\ call' \in [Calls -> Call]
      /\ \A d \in Calls : call'[d].phase \in PastGuards => call'[d] = call[d]
  BY <1>1, SigningShape DEF StaffInv
<1>3. StaffTypeOK'
  BY <1>1, <1>2 DEF StaffInv, StaffTypeOK
<1> QED BY <1>1, <1>2, <1>3, StepQuiet

LEMMA StepCreateSession ==
    ASSUME StaffInv, NEW c \in Calls, CreateSession(c)
    PROVE  StaffInv'
<1> DEFINE free == {s \in Sessions : session[s].user = NoUser}
           s == CHOOSE x \in free : TRUE
<1>1. /\ s \in Sessions /\ call[c].phase = "signing" /\ Ends(c)
      /\ session' = [session EXCEPT ![s].user = call[c].user]
      /\ UNCHANGED <<account, pending, late>>
  <2>1. s \in free
    BY DEF CreateSession
  <2> QED BY <2>1 DEF CreateSession
<1> HIDE DEF s
<1>2. /\ call' \in [Calls -> Call]
      /\ \A d \in Calls : call'[d].phase \in PastGuards => call'[d] = call[d]
  BY <1>1, EndsShape DEF StaffInv
<1>3. call[c].user \in Users
  BY <1>1, CallShape DEF StaffInv
<1>4. StaffTypeOK'
  BY <1>1, <1>2, <1>3 DEF StaffInv, StaffTypeOK
<1> QED BY <1>1, <1>2, <1>4, StepQuiet

LEMMA StepSessionEnds ==
    ASSUME StaffInv, NEW s \in Sessions, Logout(s) \/ Expire(s)
    PROVE  StaffInv'
<1>1. /\ session' = [session EXCEPT ![s].ended = TRUE]
      /\ UNCHANGED <<account, call, pending, late>>
  BY DEF Logout, Expire
<1>2. StaffTypeOK'
  BY <1>1 DEF StaffInv, StaffTypeOK
<1> QED BY <1>1, <1>2, StepQuiet

LEMMA StepCallEnds ==
    ASSUME StaffInv, NEW c \in Calls, Ends(c), UNCHANGED <<account, session, pending, late>>
    PROVE  StaffInv'
<1>1. /\ call' \in [Calls -> Call]
      /\ \A d \in Calls : call'[d].phase \in PastGuards => call'[d] = call[d]
  BY EndsShape DEF StaffInv
<1>2. StaffTypeOK'
  BY <1>1 DEF StaffInv, StaffTypeOK
<1> QED BY <1>1, <1>2, StepQuiet

\* The guards let in only an active SUPER_ADMIN, who is not late.
LEMMA StepAdmit ==
    ASSUME StaffInv, NEW s \in Sessions, NEW edit \in Edit, Admit(s, edit)
    PROVE  StaffInv'
<1> DEFINE u == session[s].user
           request == [phase |-> "admitted", user |-> u, edit |-> edit]
<1>1. u \in Users /\ u \in SuperAdmins
  BY DEF Admit, ValidateSession, RolesAllow, SuperAdmins, StaffInv, StaffTypeOK
<1>2. request \in Call
  BY <1>1 DEF Call
<1>3. PICK c \in Calls : call[c] = NoCall /\ call' = [call EXCEPT ![c] = request]
  BY <1>2, StartsShape DEF Admit, StaffInv
<1>4. UNCHANGED <<account, session, pending, late>>
  BY DEF Admit
<1>5. call'[c] = request /\ \A d \in Calls : d # c => call'[d] = call[d]
  BY <1>3 DEF StaffInv, StaffTypeOK
<1>6. StaffTypeOK'
  BY <1>2, <1>3, <1>4 DEF StaffInv, StaffTypeOK
<1>7. CallInv'
  BY <1>4, <1>5 DEF StaffInv, CallInv, SelfLockout
<1>8. LateInv'
  <2> SUFFICES ASSUME NEW w \in Users
               PROVE  IF w \in SuperAdmins' THEN late'[w] = 0
                      ELSE late'[w] + Cardinality(CallsOf(w)') <= pending'[w]
    BY DEF LateInv
  <2>1. SuperAdmins' = SuperAdmins /\ late'[w] = late[w] /\ pending'[w] = pending[w]
    BY <1>4 DEF SuperAdmins
  <2>2. w \notin SuperAdmins => CallsOf(w)' = CallsOf(w)
    <3>1. ASSUME w # u, NEW d \in Calls
          PROVE  call'[d].phase \in PastGuards /\ call'[d].user = w
                   <=> call[d].phase \in PastGuards /\ call[d].user = w
      BY <1>3, <1>5, <3>1 DEF NoCall, PastGuards
    <3> QED BY <1>1, <3>1 DEF CallsOf, PastGuards
  <2> QED BY <2>1, <2>2 DEF StaffInv, LateInv
<1> QED BY <1>6, <1>7, <1>8 DEF StaffInv

\* What passes the check is an edit of a staff account, and not of oneself.
LEMMA StepCheck ==
    ASSUME StaffInv, NEW c \in Calls, CheckEdit(c)
    PROVE  StaffInv'
<1>1. /\ call[c] \in [phase : PastGuards, user : Users, edit : Edit]
      /\ call[c].phase = "admitted" /\ Acceptable(call[c].user, call[c].edit)
      /\ call' = [call EXCEPT ![c].phase = "checked"]
      /\ UNCHANGED <<account, session, pending, late>>
  BY CallShape DEF CheckEdit, StaffInv, PastGuards
<1>2. /\ call'[c] = [phase |-> "checked", user |-> call[c].user, edit |-> call[c].edit]
      /\ \A d \in Calls : d # c => call'[d] = call[d]
  BY <1>1 DEF StaffInv, StaffTypeOK
<1>3. StaffTypeOK'
  <2>1. call'[c] \in Call
    BY <1>1, <1>2 DEF Call
  <2> QED BY <1>1, <1>2, <2>1 DEF StaffInv, StaffTypeOK
<1>4. CallInv'
  <2>1. call[c].edit.kind # "create" =>
            /\ account[call[c].edit.target].role \notin {"NONE", "CUSTOMER"}
            /\ ~SelfLockout(call[c].user, call[c].edit)
    BY <1>1 DEF Acceptable, Exists
  <2> QED BY <1>1, <1>2, <2>1 DEF StaffInv, CallInv, SelfLockout
<1>5. LateInv'
  <2>1. \A u \in Users : CallsOf(u)' = CallsOf(u)
    <3>1. \A u \in Users, d \in Calls :
              call'[d].phase \in PastGuards /\ call'[d].user = u
                <=> call[d].phase \in PastGuards /\ call[d].user = u
      BY <1>1, <1>2 DEF PastGuards
    <3> QED BY <3>1 DEF CallsOf, PastGuards
  <2> QED BY <1>1, <2>1 DEF StaffInv, LateInv, SuperAdmins
<1> QED BY <1>3, <1>4, <1>5 DEF StaffInv

\* A registered address was nobody's, so no SUPER_ADMIN comes or goes.
LEMMA StepRegister ==
    ASSUME StaffInv, NEW u \in Users, Register(u)
    PROVE  StaffInv'
<1>1. /\ account \in [Users -> [role : Roles \cup {"NONE"}, active : BOOLEAN]]
      /\ account[u].role = "NONE" /\ Starts(Signing(u))
      /\ account' = [account EXCEPT ![u] = [role |-> "CUSTOMER", active |-> TRUE]]
      /\ UNCHANGED <<session, pending, late>>
  BY DEF Register, Exists, StaffInv, StaffTypeOK
<1>2. /\ call' \in [Calls -> Call]
      /\ \A d \in Calls : call'[d].phase \in PastGuards => call'[d] = call[d]
  BY <1>1, SigningShape DEF StaffInv
<1>3. account'[u].role = "CUSTOMER" /\ \A w \in Users : w # u => account'[w] = account[w]
  BY <1>1
<1>4. StaffTypeOK'
  BY <1>1, <1>2 DEF StaffInv, StaffTypeOK, Roles
<1>5. CallInv'
  <2> SUFFICES ASSUME NEW d \in Calls, call'[d].phase = "checked", call'[d].edit.kind # "create"
               PROVE  /\ account'[call'[d].edit.target].role \notin {"NONE", "CUSTOMER"}
                      /\ ~SelfLockout(call'[d].user, call'[d].edit)
    BY DEF CallInv, SelfLockout
  <2>1. call'[d] = call[d]
    BY <1>2 DEF PastGuards
  <2>2. call[d].edit.target \in Users
    BY <2>1, CallShape, StaffEditShape DEF StaffInv, PastGuards
  <2> QED BY <1>1, <1>3, <2>1, <2>2 DEF StaffInv, CallInv
<1>6. LateInv'
  <2> SUFFICES ASSUME NEW w \in Users
               PROVE  IF w \in SuperAdmins' THEN late'[w] = 0
                      ELSE late'[w] + Cardinality(CallsOf(w)') <= pending'[w]
    BY DEF LateInv
  <2>1. w \in SuperAdmins' <=> w \in SuperAdmins
    BY <1>1, <1>3 DEF SuperAdmins
  <2>2. CallsOf(w)' \subseteq CallsOf(w)
    BY <1>2 DEF CallsOf, PastGuards
  <2>3. /\ Cardinality(CallsOf(w)) \in Nat /\ Cardinality(CallsOf(w)') \in Nat
        /\ Cardinality(CallsOf(w)') <= Cardinality(CallsOf(w))
    BY <2>2, CallsCounted
  <2>4. late[w] \in Nat /\ pending[w] \in Nat /\ late'[w] = late[w] /\ pending'[w] = pending[w]
    BY <1>1 DEF StaffInv, StaffTypeOK
  <2>5. IF w \in SuperAdmins THEN late[w] = 0
        ELSE late[w] + Cardinality(CallsOf(w)) <= pending[w]
    BY DEF StaffInv, LateInv
  <2> QED BY <2>1, <2>3, <2>4, <2>5
<1> QED BY <1>4, <1>5, <1>6 DEF StaffInv

\* Whatever u wrote: who was removed by it has calls under way, and who was
\* removed before has one call fewer for the edit it has written.
LEMMA RecordKeepsCount ==
    ASSUME StaffInv, NEW c \in Calls, call[c].phase \in PastGuards, Ends(c),
           Recorded(call[c].user)
    PROVE  LateInv' /\ pending' \in [Users -> Nat] /\ late' \in [Users -> Nat]
<1> DEFINE u == call[c].user
<1>1. /\ pending' = [w \in Users |-> IF w \in SuperAdmins' THEN 0
                                     ELSE IF w \in SuperAdmins THEN Cardinality(CallsOf(w))
                                     ELSE pending[w]]
      /\ late' = [w \in Users |-> IF w \in SuperAdmins \cup SuperAdmins' THEN 0
                                  ELSE IF w = u THEN late[w] + 1 ELSE late[w]]
  BY DEF Recorded
<1>2. pending \in [Users -> Nat] /\ late \in [Users -> Nat]
  BY DEF StaffInv, StaffTypeOK
<1>3. \A w \in Users : Cardinality(CallsOf(w)) \in Nat
  BY CallsCounted
<1>4. \A w \in Users : CallsOf(w)' \subseteq CallsOf(w) \ {c}
  <2>1. \A d \in Calls : call'[d].phase \in PastGuards => d # c /\ call'[d] = call[d]
    BY EndsShape DEF StaffInv
  <2> QED BY <2>1 DEF CallsOf, PastGuards
<1>5. c \in CallsOf(u)
  BY DEF CallsOf, PastGuards
<1>6. LateInv'
  <2> SUFFICES ASSUME NEW w \in Users
               PROVE  IF w \in SuperAdmins' THEN late'[w] = 0
                      ELSE late'[w] + Cardinality(CallsOf(w)') <= pending'[w]
    BY DEF LateInv
  <2>1. CASE w \in SuperAdmins'
    BY <1>1, <2>1
  <2> DEFINE before == Cardinality(CallsOf(w))
             after  == Cardinality(CallsOf(w)')
  <2>2. before \in Nat /\ after \in Nat /\ after <= before
    BY <1>4, CallsCounted
  <2>3. w = u => after + 1 <= before
    BY <1>4, <1>5, OneCallLess
  <2>4. late[w] \in Nat /\ pending[w] \in Nat
    BY <1>2
  <2>5. CASE w \notin SuperAdmins' /\ w \in SuperAdmins
    <3>1. late'[w] = 0 /\ pending'[w] = before
      BY <1>1, <2>5
    <3> HIDE DEF before, after
    <3>2. late'[w] + after <= pending'[w]
      BY <2>2, <3>1
    <3> QED BY <2>5, <3>2 DEF after
  <2>6. CASE w \notin SuperAdmins' /\ w \notin SuperAdmins
    <3>1. /\ late'[w] = IF w = u THEN late[w] + 1 ELSE late[w]
          /\ pending'[w] = pending[w]
      BY <1>1, <2>6
    <3>2. late[w] + before <= pending[w]
      BY <2>6 DEF StaffInv, LateInv
    <3> HIDE DEF before, after, u
    <3>3. late'[w] + after <= pending'[w]
      BY <2>2, <2>3, <2>4, <3>1, <3>2
    <3> QED BY <2>6, <3>3 DEF after
  <2> QED BY <2>1, <2>5, <2>6
<1> QED BY <1>1, <1>2, <1>3, <1>6

\* A created account is a free address's, so it disturbs no other.
LEMMA CreateShape ==
    ASSUME StaffInv, NEW c \in Calls, CommitCreate(c), ~Exists(call[c].edit.target)
    PROVE  /\ call[c] \in [phase : PastGuards, user : Users, edit : Edit]
           /\ account' \in [Users -> [role : Roles \cup {"NONE"}, active : BOOLEAN]]
           /\ account'[call[c].edit.target].role \in StaffRoles
           /\ \A w \in Users : Exists(w) => account'[w] = account[w]
           /\ Recorded(call[c].user) /\ Ends(c) /\ UNCHANGED session
<1> DEFINE t == call[c].edit.target
           row == [role |-> call[c].edit.role, active |-> TRUE]
<1>1. /\ call[c] \in [phase : PastGuards, user : Users, edit : Edit]
      /\ call[c].edit.kind = "create"
  BY CallShape DEF CommitCreate, StaffInv, PastGuards
<1>2. t \in Users /\ call[c].edit.role \in StaffRoles
  BY <1>1, StaffEditShape
<1>3. /\ account \in [Users -> [role : Roles \cup {"NONE"}, active : BOOLEAN]]
      /\ account' = [account EXCEPT ![t] = row]
      /\ Recorded(call[c].user) /\ Ends(c) /\ UNCHANGED session
  BY DEF CommitCreate, StaffInv, StaffTypeOK
<1>4. row \in [role : Roles \cup {"NONE"}, active : BOOLEAN]
  BY <1>2 DEF Roles
<1> HIDE DEF t, row
<1>5. account' \in [Users -> [role : Roles \cup {"NONE"}, active : BOOLEAN]]
  BY <1>2, <1>3, <1>4
<1>6. account'[t] = row /\ \A w \in Users : w # t => account'[w] = account[w]
  BY <1>2, <1>3
<1>7. \A w \in Users : Exists(w) => account'[w] = account[w]
  BY <1>6 DEF t
<1> QED BY <1>1, <1>2, <1>3, <1>5, <1>6, <1>7 DEF t, row

LEMMA StepCommitCreate ==
    ASSUME StaffInv, NEW c \in Calls, CommitCreate(c)
    PROVE  StaffInv'
<1>1. CASE Exists(call[c].edit.target)
  <2>1. Ends(c) /\ UNCHANGED <<account, session, pending, late>>
    BY <1>1 DEF CommitCreate
  <2> QED BY <2>1, StepCallEnds
<1>2. CASE ~Exists(call[c].edit.target)
  <2>1. /\ call[c] \in [phase : PastGuards, user : Users, edit : Edit]
        /\ account' \in [Users -> [role : Roles \cup {"NONE"}, active : BOOLEAN]]
        /\ \A w \in Users : Exists(w) => account'[w] = account[w]
        /\ Recorded(call[c].user) /\ Ends(c) /\ UNCHANGED session
    BY <1>2, CreateShape
  <2>2. /\ call' \in [Calls -> Call]
        /\ \A d \in Calls : call'[d].phase \in PastGuards => d # c /\ call'[d] = call[d]
    BY <2>1, EndsShape DEF StaffInv
  <2>3. LateInv' /\ pending' \in [Users -> Nat] /\ late' \in [Users -> Nat]
    BY <2>1, RecordKeepsCount
  <2>4. StaffTypeOK'
    BY <2>1, <2>2, <2>3 DEF StaffInv, StaffTypeOK
  <2>5. CallInv'
    <3> SUFFICES ASSUME NEW d \in Calls, call'[d].phase = "checked", call'[d].edit.kind # "create"
                 PROVE  /\ account'[call'[d].edit.target].role \notin {"NONE", "CUSTOMER"}
                        /\ ~SelfLockout(call'[d].user, call'[d].edit)
      BY DEF CallInv, SelfLockout
    <3>1. call'[d] = call[d]
      BY <2>2 DEF PastGuards
    <3>2. call[d].edit.target \in Users
      BY <3>1, CallShape, StaffEditShape DEF StaffInv, PastGuards
    <3>3. /\ account[call[d].edit.target].role \notin {"NONE", "CUSTOMER"}
          /\ ~SelfLockout(call[d].user, call[d].edit)
      BY <3>1 DEF StaffInv, CallInv
    <3> QED BY <2>1, <3>1, <3>2, <3>3 DEF Exists
  <2> QED BY <2>3, <2>4, <2>5 DEF StaffInv
<1> QED BY <1>1, <1>2

\* An update that passed its check names a staff account, and leaves it one.
LEMMA UpdateShape ==
    ASSUME StaffInv, NEW c \in Calls, CommitUpdate(c)
    PROVE  LET edit == call[c].edit
               t    == edit.target
           IN  /\ call[c] \in [phase : PastGuards, user : Users, edit : Edit]
               /\ account' \in [Users -> [role : Roles \cup {"NONE"}, active : BOOLEAN]]
               /\ t \in Users /\ account[t].role \in StaffRoles /\ account'[t].role \in StaffRoles
               /\ \A w \in Users : w # t => account'[w] = account[w]
               /\ account'[t] = IF edit.kind = "role" THEN [account[t] EXCEPT !.role = edit.role]
                                ELSE [account[t] EXCEPT !.active = edit.active]
               /\ edit.kind \in {"role", "active"} /\ ~SelfLockout(call[c].user, edit)
               /\ Recorded(call[c].user) /\ Ends(c) /\ UNCHANGED session
<1> DEFINE edit == call[c].edit
           t    == edit.target
<1>1. /\ call[c] \in [phase : PastGuards, user : Users, edit : Edit]
      /\ call[c].phase = "checked" /\ edit.kind # "create"
  BY CallShape DEF CommitUpdate, StaffInv, PastGuards
<1>2. /\ t \in Users /\ edit.kind \in {"role", "active"}
      /\ edit.kind = "role" => edit.role \in StaffRoles
      /\ edit.kind = "active" => edit.active \in BOOLEAN
  BY <1>1, StaffEditShape
<1>3. account[t].role \notin {"NONE", "CUSTOMER"} /\ ~SelfLockout(call[c].user, edit)
  BY <1>1 DEF StaffInv, CallInv
<1>4. /\ account' = IF edit.kind = "role"
                    THEN [account EXCEPT ![t].role = edit.role]
                    ELSE [account EXCEPT ![t].active = edit.active]
      /\ account \in [Users -> [role : Roles \cup {"NONE"}, active : BOOLEAN]]
      /\ Recorded(call[c].user) /\ Ends(c) /\ UNCHANGED session
  BY DEF CommitUpdate, StaffInv, StaffTypeOK
<1> HIDE DEF edit, t
<1>5. account[t].role \in StaffRoles
  BY <1>2, <1>3, <1>4 DEF Roles
<1>6. /\ account'[t] = IF edit.kind = "role" THEN [account[t] EXCEPT !.role = edit.role]
                       ELSE [account[t] EXCEPT !.active = edit.active]
      /\ \A w \in Users : w # t => account'[w] = account[w]
  BY <1>2, <1>4
<1>7. /\ account'[t] \in [role : StaffRoles, active : BOOLEAN]
      /\ account' \in [Users -> [role : Roles \cup {"NONE"}, active : BOOLEAN]]
  <2>1. account[t] \in [role : StaffRoles, active : BOOLEAN]
    BY <1>2, <1>4, <1>5
  <2>2. account'[t] \in [role : StaffRoles, active : BOOLEAN]
    BY <1>2, <1>6, <2>1
  <2>3. \A w \in Users : account'[w] \in [role : Roles \cup {"NONE"}, active : BOOLEAN]
    BY <1>4, <1>6, <2>2 DEF Roles
  <2>4. account' = [w \in Users |-> account'[w]]
    BY <1>4
  <2> QED BY <2>2, <2>3, <2>4
<1> QED BY <1>1, <1>2, <1>3, <1>4, <1>5, <1>6, <1>7 DEF edit, t

LEMMA StepCommitUpdate ==
    ASSUME StaffInv, NEW c \in Calls, CommitUpdate(c)
    PROVE  StaffInv'
<1> DEFINE t == call[c].edit.target
<1>1. /\ call[c] \in [phase : PastGuards, user : Users, edit : Edit]
      /\ account' \in [Users -> [role : Roles \cup {"NONE"}, active : BOOLEAN]]
      /\ account'[t].role \in StaffRoles
      /\ \A w \in Users : w # t => account'[w] = account[w]
      /\ Recorded(call[c].user) /\ Ends(c) /\ UNCHANGED session
  BY UpdateShape
<1>2. /\ call' \in [Calls -> Call]
      /\ \A d \in Calls : call'[d].phase \in PastGuards => d # c /\ call'[d] = call[d]
  BY <1>1, EndsShape DEF StaffInv
<1>3. LateInv' /\ pending' \in [Users -> Nat] /\ late' \in [Users -> Nat]
  BY <1>1, RecordKeepsCount
<1>4. StaffTypeOK'
  BY <1>1, <1>2, <1>3 DEF StaffInv, StaffTypeOK
<1>5. CallInv'
  <2> SUFFICES ASSUME NEW d \in Calls, call'[d].phase = "checked", call'[d].edit.kind # "create"
               PROVE  /\ account'[call'[d].edit.target].role \notin {"NONE", "CUSTOMER"}
                      /\ ~SelfLockout(call'[d].user, call'[d].edit)
    BY DEF CallInv, SelfLockout
  <2>1. call'[d] = call[d]
    BY <1>2 DEF PastGuards
  <2>2. call[d].edit.target \in Users
    BY <2>1, CallShape, StaffEditShape DEF StaffInv, PastGuards
  <2>3. /\ account[call[d].edit.target].role \notin {"NONE", "CUSTOMER"}
        /\ ~SelfLockout(call[d].user, call[d].edit)
    BY <2>1 DEF StaffInv, CallInv
  <2>4. CASE call[d].edit.target = t
    BY <1>1, <2>1, <2>3, <2>4 DEF StaffRoles
  <2>5. CASE call[d].edit.target # t
    BY <1>1, <2>1, <2>2, <2>3, <2>5
  <2> QED BY <2>4, <2>5
<1> QED BY <1>3, <1>4, <1>5 DEF StaffInv

LEMMA StepStaff ==
    ASSUME StaffInv, [StaffNext]_staffVars
    PROVE  StaffInv'
<1>1. CASE UNCHANGED staffVars
  <2>1. StaffTypeOK'
    BY <1>1 DEF staffVars, StaffInv, StaffTypeOK
  <2> QED BY <1>1, <2>1, StepQuiet DEF staffVars
<1>2. ASSUME NEW u \in Users, Login(u) PROVE StaffInv'
  BY <1>2, StepLogin
<1>3. ASSUME NEW u \in Users, Register(u) PROVE StaffInv'
  BY <1>3, StepRegister
<1>4. ASSUME NEW c \in Calls, CreateSession(c) PROVE StaffInv'
  BY <1>4, StepCreateSession
<1>5. ASSUME NEW s \in Sessions, Logout(s) \/ Expire(s) PROVE StaffInv'
  BY <1>5, StepSessionEnds
<1>6. ASSUME NEW c \in Calls, CheckEdit(c) PROVE StaffInv'
  BY <1>6, StepCheck
<1>7. ASSUME NEW c \in Calls, RefuseEdit(c) \/ DropCall(c) PROVE StaffInv'
  BY <1>7, StepCallEnds DEF RefuseEdit, DropCall
<1>8. ASSUME NEW c \in Calls, CommitCreate(c) PROVE StaffInv'
  BY <1>8, StepCommitCreate
<1>9. ASSUME NEW c \in Calls, CommitUpdate(c) PROVE StaffInv'
  BY <1>9, StepCommitUpdate
<1>10. ASSUME NEW s \in Sessions, NEW edit \in Edit, Admit(s, edit) PROVE StaffInv'
  BY <1>10, StepAdmit
<1> QED BY <1>1, <1>2, <1>3, <1>4, <1>5, <1>6, <1>7, <1>8, <1>9, <1>10 DEF StaffNext, StaffStep

LEMMA StaffInvariant == StaffSpec => []StaffInv
<1> QED BY InitStaff, StepStaff, PTL DEF StaffSpec

\* Every variable keeps its type, for any accounts, sessions and calls.
THEOREM StaffTypes == StaffSpec => []StaffTypeOK
<1>1. StaffInv => StaffTypeOK
  BY DEF StaffInv
<1> QED BY <1>1, StaffInvariant, PTL

\* Of the edits sent by somebody who was deactivated or demoted, only those that
\* SessionAuthGuard and RolesGuard had let in before are ever written.
THEOREM RemovalStops == StaffSpec => []RemovalBites
<1>1. StaffInv => RemovalBites
  <2> SUFFICES ASSUME StaffInv, NEW u \in Users PROVE late[u] <= pending[u]
    BY DEF RemovalBites
  <2>1. late[u] \in Nat /\ pending[u] \in Nat /\ Cardinality(CallsOf(u)) \in Nat
    BY CallsCounted DEF StaffInv, StaffTypeOK
  <2>2. late[u] = 0 \/ late[u] + Cardinality(CallsOf(u)) <= pending[u]
    BY DEF StaffInv, LateInv
  <2> QED BY <2>1, <2>2
<1> QED BY <1>1, StaffInvariant, PTL

\* Who may write at all: only a call whose update passed its check can remove a
\* SUPER_ADMIN.
LEMMA OnlyUpdatesRemove ==
    ASSUME StaffInv, StaffNext, NEW w \in SuperAdmins, w \notin SuperAdmins'
    PROVE  \E c \in Calls : CommitUpdate(c)
<1>1. w \in Users /\ Exists(w) /\ account'[w] # account[w]
  BY DEF SuperAdmins, Exists
<1>2. ASSUME NEW u \in Users, Register(u) PROVE FALSE
  BY <1>1, <1>2 DEF Register, Exists, StaffInv, StaffTypeOK
<1>3. ASSUME NEW c \in Calls, CommitCreate(c) PROVE FALSE
  <2>1. CASE Exists(call[c].edit.target)
    BY <1>1, <1>3, <2>1 DEF CommitCreate
  <2>2. CASE ~Exists(call[c].edit.target)
    BY <1>1, <1>3, <2>2, CreateShape
  <2> QED BY <2>1, <2>2
<1>4. (\E u \in Users : Login(u))
        \/ (\E c \in Calls : CreateSession(c) \/ CheckEdit(c) \/ RefuseEdit(c) \/ DropCall(c))
        \/ (\E s \in Sessions : Logout(s) \/ Expire(s))
        \/ (\E s \in Sessions, edit \in Edit : Admit(s, edit)) => account' = account
  BY DEF Login, CreateSession, Logout, CheckEdit, RefuseEdit, DropCall, Expire, Admit
<1> QED BY <1>1, <1>2, <1>3, <1>4 DEF StaffNext, StaffStep

\* AdminUsersService leaves the store without an active SUPER_ADMIN only by the
\* request of somebody who was removed while it was under way.
THEOREM SuperAdminStays == StaffSpec => LastSuperAdminStays
<1> DEFINE Kept == SuperAdmins # {} /\ SuperAdmins' = {} =>
                      \E c \in Calls : /\ call[c].phase = "checked" /\ call'[c] = NoCall
                                       /\ call[c].user \notin SuperAdmins
<1>1. ASSUME StaffInv, StaffNext PROVE Kept
  <2> SUFFICES ASSUME NEW w \in SuperAdmins, SuperAdmins' = {}
               PROVE  \E c \in Calls : /\ call[c].phase = "checked" /\ call'[c] = NoCall
                                       /\ call[c].user \notin SuperAdmins
    OBVIOUS
  <2>1. PICK c \in Calls : CommitUpdate(c)
    BY <1>1, OnlyUpdatesRemove
  <2> DEFINE u == call[c].user
             edit == call[c].edit
             t == edit.target
  <2>2. /\ call[c].phase = "checked" /\ Ends(c)
    BY <2>1 DEF CommitUpdate
  <2>3. call'[c] = NoCall
    BY <1>1, <2>2, EndsShape DEF StaffInv
  <2>4. /\ t \in Users /\ \A v \in Users : v # t => account'[v] = account[v]
        /\ account'[t] = IF edit.kind = "role" THEN [account[t] EXCEPT !.role = edit.role]
                         ELSE [account[t] EXCEPT !.active = edit.active]
        /\ edit.kind \in {"role", "active"} /\ ~SelfLockout(u, edit)
    BY <1>1, <2>1, UpdateShape
  <2>5. ASSUME u \in SuperAdmins PROVE FALSE
    <3>1. u \in Users /\ account[u].role = "SUPER_ADMIN" /\ account[u].active
      BY <2>5 DEF SuperAdmins
    <3>2. account[u] \in [role : Roles \cup {"NONE"}, active : BOOLEAN]
      BY <1>1, <3>1 DEF StaffInv, StaffTypeOK
    <3> HIDE DEF u, edit
    <3>3. account'[u].role = "SUPER_ADMIN" /\ account'[u].active
      <4>1. CASE t # u
        BY <2>4, <3>1, <4>1
      <4>2. CASE t = u /\ edit.kind = "role"
        <5>1. edit.role = "SUPER_ADMIN"
          BY <2>4, <4>2 DEF SelfLockout
        <5> QED BY <2>4, <3>1, <3>2, <4>2, <5>1
      <4>3. CASE t = u /\ edit.kind = "active"
        <5>1. edit.active
          BY <2>4, <4>3 DEF SelfLockout
        <5>2. account'[u] = [account[u] EXCEPT !.active = edit.active]
          BY <2>4, <4>3
        <5> QED BY <3>1, <3>2, <5>1, <5>2
      <4> QED BY <2>4, <4>1, <4>2, <4>3
    <3> QED BY <3>1, <3>3 DEF SuperAdmins
  <2> QED BY <2>2, <2>3, <2>5
<1>2. StaffInv /\ [StaffNext]_staffVars => [Kept]_staffVars
  BY <1>1
<1> QED BY <1>2, StaffInvariant, PTL DEF StaffSpec, LastSuperAdminStays

\* No step of the account routes turns a customer into staff or staff into a
\* customer.
THEOREM SidesKept == StaffSpec => CustomersStayCustomers
<1> DEFINE Kept == \A u \in Users :
                      account[u].role # "NONE" =>
                         (account[u].role = "CUSTOMER" <=> account'[u].role = "CUSTOMER")
<1>1. ASSUME StaffInv, StaffNext PROVE Kept
  <2> SUFFICES ASSUME NEW w \in Users, account[w].role # "NONE", account'[w] # account[w]
               PROVE  account[w].role = "CUSTOMER" <=> account'[w].role = "CUSTOMER"
    OBVIOUS
  <2>1. ASSUME NEW u \in Users, Register(u) PROVE FALSE
    BY <1>1, <2>1 DEF Register, Exists, StaffInv, StaffTypeOK
  <2>2. ASSUME NEW c \in Calls, CommitCreate(c) PROVE FALSE
    <3>1. CASE Exists(call[c].edit.target)
      BY <2>2, <3>1 DEF CommitCreate
    <3>2. CASE ~Exists(call[c].edit.target)
      BY <1>1, <2>2, <3>2, CreateShape DEF Exists
    <3> QED BY <3>1, <3>2
  <2>3. ASSUME NEW c \in Calls, CommitUpdate(c)
        PROVE  account[w].role # "CUSTOMER" /\ account'[w].role # "CUSTOMER"
    <3>1. /\ \A v \in Users : v # call[c].edit.target => account'[v] = account[v]
          /\ account[call[c].edit.target].role \in StaffRoles
          /\ account'[call[c].edit.target].role \in StaffRoles
      BY <1>1, <2>3, UpdateShape
    <3>2. w = call[c].edit.target
      BY <3>1
    <3> QED BY <3>1, <3>2 DEF StaffRoles
  <2>4. (\E u \in Users : Login(u))
          \/ (\E c \in Calls : CreateSession(c) \/ CheckEdit(c) \/ RefuseEdit(c) \/ DropCall(c))
          \/ (\E s \in Sessions : Logout(s) \/ Expire(s))
          \/ (\E s \in Sessions, edit \in Edit : Admit(s, edit)) => account' = account
    BY DEF Login, CreateSession, Logout, CheckEdit, RefuseEdit, DropCall, Expire, Admit
  <2> QED BY <1>1, <2>1, <2>2, <2>3, <2>4 DEF StaffNext, StaffStep
<1>2. StaffInv /\ [StaffNext]_staffVars => [Kept]_staffVars
  BY <1>1
<1> QED BY <1>2, StaffInvariant, PTL DEF StaffSpec, CustomersStayCustomers

-----------------------------------------------------------------------------
(* The forms.                                                              *)

\* An input that differs from the row was typed into, or the row has changed
\* behind it.
InputsExplained ==
    \A f \in Fields : editor.values[f] # record[f] => f \in typed \cup overtaken

\* So has every field a request under way would change.
RequestExplained ==
    save # NoSave /\ ~save.applied =>
        \A f \in DOMAIN save.fields : save.fields[f] # record[f] => f \in save.excused

FormsInv == FormsTypeOK /\ InputsExplained /\ RequestExplained

\* The page is loaded, and nothing typed.
LEMMA InitForms == FormsInit => FormsInv
<1> SUFFICES ASSUME FormsInit PROVE FormsInv
  OBVIOUS
<1>1. record \in Records
  BY DEF FormsInit, Records
<1>2. FormsTypeOK
  BY <1>1 DEF FormsInit, FormsTypeOK, Filled, AlwaysOpen, Kinds
<1>3. InputsExplained /\ RequestExplained
  BY DEF FormsInit, InputsExplained, RequestExplained, Filled
<1> QED BY <1>2, <1>3 DEF FormsInv

\* What an editor sends explains itself by what its inputs already did.
LEMMA StepSend ==
    ASSUME FormsInv, NEW sent \in SUBSET Fields, Send(sent)
    PROVE  FormsInv'
<1> DEFINE payload == [f \in sent |-> editor.values[f]]
<1>1. editor.values \in Records /\ typed \subseteq Fields /\ overtaken \subseteq Fields
  BY DEF FormsInv, FormsTypeOK
<1>2. payload \in [sent -> Texts \cup {Blank}]
  BY <1>1 DEF Records
<1>3. payload \in Payloads
  BY <1>2 DEF Payloads
<1>4. save' = [fields |-> payload, applied |-> FALSE, excused |-> typed \cup overtaken]
  BY DEF Send
<1> HIDE DEF payload
<1>5. FormsTypeOK'
  BY <1>1, <1>3, <1>4 DEF FormsInv, FormsTypeOK, Send
<1>6. InputsExplained'
  BY DEF FormsInv, InputsExplained, Send
<1>7. RequestExplained'
  <2>1. \A f \in sent : payload[f] = editor.values[f] /\ f \in Fields
    BY DEF payload
  <2>2. DOMAIN payload = sent
    BY DEF payload
  <2>3. record' = record
    BY DEF Send
  <2> QED BY <1>4, <2>1, <2>2, <2>3 DEF FormsInv, InputsExplained, RequestExplained
<1> QED BY <1>5, <1>6, <1>7 DEF FormsInv

\* The service applies a request: what it changes counts as a change behind
\* the inputs, unless they already say the same.
LEMMA StepApplySave ==
    ASSUME FormsInv, ApplySave
    PROVE  FormsInv'
<1> DEFINE F == save.fields
<1>1. /\ record \in Records /\ editor.values \in Records
      /\ save \in [fields : Payloads, applied : BOOLEAN, excused : SUBSET Fields]
  BY DEF FormsInv, FormsTypeOK, ApplySave
<1>2. PICK sent \in SUBSET Fields : F \in [sent -> Texts \cup {Blank}]
  BY <1>1 DEF Payloads
<1>3. record' = [f \in Fields |-> IF f \in sent THEN F[f] ELSE record[f]]
  BY <1>2 DEF ApplySave
<1>4. record' \in Records
  BY <1>1, <1>2, <1>3 DEF Records
<1>5. save' = [save EXCEPT !.applied = TRUE]
  BY DEF ApplySave
<1>6. save' \in [fields : Payloads, applied : BOOLEAN, excused : SUBSET Fields] /\ save'.applied
  BY <1>1, <1>5
<1>7. FormsTypeOK'
  BY <1>4, <1>6 DEF FormsInv, FormsTypeOK, ApplySave
<1>8. InputsExplained'
  <2> SUFFICES ASSUME NEW f \in Fields, editor.values[f] # record'[f]
               PROVE  f \in typed' \cup overtaken'
    BY DEF InputsExplained, ApplySave
  <2>1. CASE record'[f] # record[f]
    BY <2>1 DEF ApplySave
  <2>2. CASE record'[f] = record[f]
    BY <2>2 DEF ApplySave, FormsInv, InputsExplained
  <2> QED BY <2>1, <2>2
<1>9. RequestExplained'
  BY <1>6 DEF RequestExplained
<1> QED BY <1>7, <1>8, <1>9 DEF FormsInv

\* Another administrator's edit is a change behind the inputs and excuses the
\* request that overwrites it.
LEMMA StepSomebodyElse ==
    ASSUME FormsInv, NEW g \in Fields, NEW text \in Texts, SomebodyElseEdits(g, text)
    PROVE  FormsInv'
<1>1. /\ record' = [record EXCEPT ![g] = text]
      /\ overtaken' = overtaken \cup {g}
      /\ UNCHANGED <<editorKind, page, editor, typed>>
  BY DEF SomebodyElseEdits
<1>2. record \in Records /\ overtaken \subseteq Fields
  BY DEF FormsInv, FormsTypeOK
<1>3. record' \in Records /\ \A f \in Fields : f # g => record'[f] = record[f]
  BY <1>1, <1>2 DEF Records
<1>4. InputsExplained'
  BY <1>1, <1>3 DEF FormsInv, InputsExplained
<1>5. CASE save = NoSave
  <2>1. save' = NoSave
    BY <1>5 DEF SomebodyElseEdits
  <2>2. FormsTypeOK'
    BY <1>1, <1>2, <1>3, <2>1 DEF FormsInv, FormsTypeOK
  <2> QED BY <1>4, <2>1, <2>2 DEF FormsInv, RequestExplained
<1>6. CASE save # NoSave
  <2>1. save \in [fields : Payloads, applied : BOOLEAN, excused : SUBSET Fields]
    BY <1>6 DEF FormsInv, FormsTypeOK
  <2>2. save' = [save EXCEPT !.excused = @ \cup {g}]
    BY <1>6 DEF SomebodyElseEdits
  <2>3. /\ save' \in [fields : Payloads, applied : BOOLEAN, excused : SUBSET Fields]
        /\ save'.fields = save.fields /\ save'.applied = save.applied
        /\ save'.excused = save.excused \cup {g}
    BY <2>1, <2>2
  <2>4. FormsTypeOK'
    BY <1>1, <1>2, <1>3, <2>3 DEF FormsInv, FormsTypeOK
  <2>5. \A f \in DOMAIN save.fields : f \in Fields
    BY <2>1 DEF Payloads
  <2>6. RequestExplained'
    BY <1>3, <1>6, <2>3, <2>5 DEF FormsInv, RequestExplained
  <2> QED BY <1>4, <2>4, <2>6 DEF FormsInv
<1> QED BY <1>5, <1>6

\* Every step of an editor, of the page and of the server.
LEMMA StepForms == FormsInv /\ [FormsNext]_formVars => FormsInv'
<1> SUFFICES ASSUME FormsInv, [FormsNext]_formVars PROVE FormsInv'
  OBVIOUS
<1> USE DEF FormsInv, FormsTypeOK, InputsExplained, RequestExplained
<1>1. CASE Open
  BY <1>1 DEF Open
<1>2. CASE Cancel
  BY <1>2 DEF Cancel, Filled, AlwaysOpen
<1>3. CASE SaveCoupon \/ SaveCategory \/ SaveSettings
  <2>1. FilledIn \in SUBSET Fields
    BY DEF FilledIn
  <2> QED BY <1>3, <2>1, StepSend DEF SaveCoupon, SaveCategory, SaveSettings
<1>4. CASE ApplySave
  BY <1>4, StepApplySave
<1>5. CASE SaveSucceeds
  BY <1>5 DEF SaveSucceeds, AlwaysOpen
<1>6. CASE SaveFails
  BY <1>6 DEF SaveFails
<1>7. CASE Refresh
  BY <1>7 DEF Refresh
<1>8. CASE Reload
  BY <1>8 DEF Reload, Filled, AlwaysOpen
<1>9. ASSUME NEW f \in Fields, NEW text \in Texts \cup {Blank}, Type(f, text) PROVE FormsInv'
  BY <1>9 DEF Type, Records
<1>10. ASSUME NEW f \in Fields, NEW text \in Texts, SomebodyElseEdits(f, text) PROVE FormsInv'
  BY <1>10, StepSomebodyElse
<1>11. CASE UNCHANGED formVars
  BY <1>11 DEF formVars
<1> QED BY <1>1, <1>2, <1>3, <1>4, <1>5, <1>6, <1>7, <1>8, <1>9, <1>10, <1>11
        DEF FormsNext, FormStep, TypeOrEdit

\* The variables of the editors keep their types, whatever is typed and sent.
THEOREM FormsTypes == FormsSpec => []FormsTypeOK
<1>1. FormsInv => FormsTypeOK
  BY DEF FormsInv
<1> QED BY <1>1, InitForms, StepForms, PTL DEF FormsSpec

\* A save that goes through changes only what was typed into since the inputs
\* were filled, or was changed behind them (EditCouponRow, EditCategoryRow,
\* SettingsForm): a value that was typed and cancelled never comes back.
THEOREM OnlyTypedFieldsChange == FormsSpec => UntypedFieldsKept
<1> DEFINE Kept ==
      (save # NoSave /\ ~save.applied /\ save' # NoSave /\ save'.applied)
          => \A f \in Fields : record'[f] # record[f] => f \in save.excused
<1>1. FormsInv /\ [FormsNext]_formVars => [Kept]_formVars
  <2> SUFFICES ASSUME FormsInv, [FormsNext]_formVars,
                      save # NoSave, ~save.applied, save' # NoSave, save'.applied,
                      NEW f \in Fields, record'[f] # record[f]
               PROVE  f \in save.excused
    OBVIOUS
  <2>1. save \in [fields : Payloads, applied : BOOLEAN, excused : SUBSET Fields]
    BY DEF FormsInv, FormsTypeOK
  <2>2. CASE ApplySave
    BY <2>2 DEF ApplySave, FormsInv, RequestExplained
  <2>3. CASE SaveCoupon \/ SaveCategory \/ SaveSettings
    BY <2>3 DEF SaveCoupon, SaveCategory, SaveSettings, Send
  <2>4. ASSUME NEW g \in Fields, NEW text \in Texts, SomebodyElseEdits(g, text) PROVE FALSE
    BY <2>1, <2>4 DEF SomebodyElseEdits
  <2>5. CASE \/ Open \/ Cancel \/ SaveSucceeds \/ SaveFails \/ Refresh \/ Reload
             \/ UNCHANGED formVars
             \/ \E g \in Fields, text \in Texts \cup {Blank} : Type(g, text)
    BY <2>5 DEF Open, Cancel, SaveSucceeds, SaveFails, Refresh, Reload, Type, formVars
  <2> QED BY <2>2, <2>3, <2>4, <2>5 DEF FormsNext, FormStep, TypeOrEdit
<1> QED BY <1>1, InitForms, StepForms, PTL DEF FormsSpec, UntypedFieldsKept

-----------------------------------------------------------------------------
(* The numbers.                                                            *)

InvoicingInv == InvoicingTypeOK /\ NumbersAreNeverShared

LEMMA InitInvoicing == InvoicingInit => InvoicingInv
BY InvoicingAssumption
   DEF InvoicingInit, InvoicingInv, InvoicingTypeOK, NumbersAreNeverShared

\* The seller of the environment, set or replaced, has a name and a number.
LEMMA SellerType ==
    ASSUME InvoicingTypeOK
    PROVE  SellerConfig \in [sellerName : Utf8Texts, vatRegistrationNumber : Utf8Texts]
BY InvoicingAssumption DEF InvoicingTypeOK, SellerConfig

\* An invoice without a number is none.
LEMMA NumberedOrNone ==
    ASSUME InvoicingTypeOK, NEW o \in Captured
    PROVE  /\ invoice[o].number \in 0 .. sequence
           /\ invoice[o] # NoInvoice <=> invoice[o].number # 0
BY DEF InvoicingTypeOK, NoInvoice

\* The number drawn is above every number an invoice has.
LEMMA StepIssue ==
    ASSUME InvoicingInv, NEW o \in Captured, IssueInvoice(o)
    PROVE  InvoicingInv'
<1> DEFINE row == [number |-> NextNumber, sellerName |-> SellerConfig.sellerName,
                   vatRegistrationNumber |-> SellerConfig.vatRegistrationNumber]
<1>1. InvoicingTypeOK
  BY DEF InvoicingInv
<1>2. NextNumber = sequence + 1 /\ sequence \in Nat
  BY <1>1 DEF NextNumber, InvoicingTypeOK
<1>3. /\ row \in [number : Nat, sellerName : Utf8Texts, vatRegistrationNumber : Utf8Texts]
      /\ row.number = NextNumber
  BY <1>1, <1>2, SellerType
<1>4. /\ invoice' = [invoice EXCEPT ![o] = row]
      /\ pc' = [pc EXCEPT ![o] = "issued"]
      /\ sequence' = sequence + 1 /\ UNCHANGED <<environment, failures>>
  BY <1>2 DEF IssueInvoice
<1> HIDE DEF row
<1>5. DOMAIN invoice = Captured /\ pc \in [Captured -> {"unpaid", "capturing", "issued", "paid"}]
  BY <1>1 DEF InvoicingTypeOK
<1>6. invoice'[o] = row /\ pc'[o] = "issued"
  BY <1>4, <1>5
<1>7. \A p \in Captured \ {o} : invoice'[p] = invoice[p] /\ pc'[p] = pc[p]
  BY <1>4, <1>5
<1>8. InvoicingTypeOK'
  BY <1>1, <1>2, <1>3, <1>4, <1>6, <1>7 DEF InvoicingTypeOK, NoInvoice
<1>9. \A p \in Captured \ {o} : invoice'[p].number \in 0 .. sequence
  BY <1>1, <1>7, NumberedOrNone
<1>10. ASSUME NEW p \in Captured, NEW q \in Captured, p # q, invoice'[p] # NoInvoice
       PROVE  invoice'[p].number # invoice'[q].number
  <2>1. CASE p = o \/ q = o
    BY <1>2, <1>3, <1>6, <1>9, <1>10, <2>1
  <2>2. CASE p # o /\ q # o
    BY <1>7, <1>10, <2>2 DEF InvoicingInv, NumbersAreNeverShared
  <2> QED BY <2>1, <2>2
<1> QED BY <1>8, <1>10 DEF InvoicingInv, NumbersAreNeverShared, NoInvoice

\* An invoice that is rolled back leaves its number unused.
LEMMA StepRollbackInvoice ==
    ASSUME InvoicingInv, NEW o \in Captured, Rollback(o)
    PROVE  InvoicingInv'
<1>1. InvoicingTypeOK'
  BY InvoicingAssumption DEF Rollback, InvoicingInv, InvoicingTypeOK, NoInvoice
<1>2. /\ invoice'[o] = NoInvoice
      /\ \A p \in Captured \ {o} : invoice'[p] = invoice[p]
  BY DEF Rollback, InvoicingInv, InvoicingTypeOK
<1>3. \A p \in Captured : invoice[p] # NoInvoice => invoice[p].number # 0
  BY NumberedOrNone DEF InvoicingInv
<1>4. NumbersAreNeverShared'
  BY <1>2, <1>3 DEF InvoicingInv, NumbersAreNeverShared, NoInvoice
<1> QED BY <1>1, <1>4 DEF InvoicingInv

LEMMA StepRestartInvoicing ==
    ASSUME InvoicingInv, Restart
    PROVE  InvoicingInv'
<1>1. InvoicingTypeOK'
  BY InvoicingAssumption DEF Restart, InvoicingInv, InvoicingTypeOK, NoInvoice, Issued
<1>2. \A p \in Captured : invoice'[p] = IF p \in Issued THEN invoice[p] ELSE NoInvoice
  BY DEF Restart
<1>3. \A p \in Captured : invoice[p] # NoInvoice => invoice[p].number # 0
  BY NumberedOrNone DEF InvoicingInv
<1>4. NumbersAreNeverShared'
  BY <1>2, <1>3 DEF InvoicingInv, NumbersAreNeverShared, NoInvoice
<1> QED BY <1>1, <1>4 DEF InvoicingInv

LEMMA StepInvoicing ==
    ASSUME InvoicingInv, InvoicingStep
    PROVE  InvoicingInv'
<1>1. ASSUME NEW o \in Captured, BeginCapture(o) \/ Commit(o) PROVE InvoicingInv'
  BY <1>1 DEF BeginCapture, Commit, InvoicingInv, InvoicingTypeOK, NumbersAreNeverShared, NoInvoice
<1> QED BY <1>1, StepIssue, StepRollbackInvoice, StepRestartInvoicing DEF InvoicingStep

LEMMA InvoicingInvariant == InvoicingSpec => []InvoicingInv
<1>1. ASSUME InvoicingInv, UNCHANGED invoicingVars PROVE InvoicingInv'
  BY <1>1 DEF InvoicingInv, InvoicingTypeOK, NumbersAreNeverShared, NoInvoice, invoicingVars
<1> QED BY InitInvoicing, StepInvoicing, <1>1, PTL DEF InvoicingSpec

\* The invoices' variables keep their types (InvoicingService.issueInvoice,
\* PaymentsService.applyWebhookEvent).
THEOREM InvoicingTypes == InvoicingSpec => []InvoicingTypeOK
<1>1. InvoicingInv => InvoicingTypeOK
  BY DEF InvoicingInv
<1> QED BY <1>1, InvoicingInvariant, PTL

\* No two invoices, committed or about to be, have the same number, however
\* many captures overlap, roll back and are cut off (issueInvoice).
THEOREM NumbersStayApart == InvoicingSpec => []NumbersAreNeverShared
<1>1. InvoicingInv => NumbersAreNeverShared
  BY DEF InvoicingInv
<1> QED BY <1>1, InvoicingInvariant, PTL

\* A paid order stays paid, and its row as it is.
LEMMA IssuedKeepsRow ==
    ASSUME InvoicingInv, InvoicingStep, NEW o \in Issued
    PROVE  o \in Issued' /\ invoice'[o] = invoice[o]
<1>1. o \in Captured /\ pc[o] = "paid"
  BY DEF Issued
<1>2. CASE Restart
  BY <1>1, <1>2 DEF Restart, Issued
<1>3. ASSUME NEW p \in Captured, BeginCapture(p) \/ Commit(p)
      PROVE  o \in Issued' /\ invoice'[o] = invoice[o]
  BY <1>1, <1>3 DEF BeginCapture, Commit, Issued, InvoicingInv, InvoicingTypeOK
<1>4. ASSUME NEW p \in Captured, IssueInvoice(p) \/ Rollback(p)
      PROVE  o \in Issued' /\ invoice'[o] = invoice[o]
  <2>1. p # o
    BY <1>1, <1>4 DEF IssueInvoice, Rollback
  <2>2. DOMAIN invoice = Captured /\ DOMAIN pc = Captured
    BY DEF InvoicingInv, InvoicingTypeOK
  <2> QED BY <1>1, <1>4, <2>1, <2>2 DEF IssueInvoice, Rollback, Issued
<1> QED BY <1>2, <1>3, <1>4 DEF InvoicingStep

\* An order that is paid keeps its invoice, and with it its code, with whatever
\* seller the API starts again (sellerNameSnapshot, sellerVatNumberSnapshot).
THEOREM QrStays == InvoicingSpec => QrNeverChanges
<1>1. ASSUME InvoicingInv, [InvoicingStep]_invoicingVars
      PROVE  [\A o \in Issued : o \in Issued' /\ QrPayload(o)' = QrPayload(o)]_invoicingVars
  <2> SUFFICES ASSUME InvoicingStep, NEW o \in Issued
               PROVE  o \in Issued' /\ QrPayload(o)' = QrPayload(o)
    BY <1>1 DEF invoicingVars
  <2>1. o \in Issued' /\ invoice'[o] = invoice[o]
    BY <1>1, IssuedKeepsRow
  <2> QED BY <2>1 DEF QrPayload, QrFields, FieldsWith
<1> QED BY <1>1, InvoicingInvariant, PTL DEF InvoicingSpec, QrNeverChanges

-----------------------------------------------------------------------------
(* The code: texts and their bytes.                                        *)

LEMMA NaturalInduction ==
    ASSUME NEW T \in SUBSET Nat, 0 \in T, \A n \in T : n + 1 \in T
    PROVE  T = Nat
<1> DEFINE Rest == Nat \ T
           Less == {ss \in Nat \X Nat : ss[1] < ss[2]}
<1> SUFFICES ASSUME Rest # {} PROVE FALSE
  OBVIOUS
<1>1. IsWellFoundedOn(Less, Nat)
  BY NatLessThanWellFounded DEF OpToRel
<1>2. PICK m \in Rest : \A n \in Rest : ~(<<n, m>> \in Less)
  <2>1. Rest \subseteq Nat
    OBVIOUS
  <2> HIDE DEF Rest, Less
  <2> QED BY <1>1, <2>1, WFMin
<1>3. \A n \in Rest : ~(n < m)
  BY <1>2
<1>4. m # 0 /\ m - 1 \in Nat /\ (m - 1) + 1 = m
  OBVIOUS
<1>5. m - 1 \in T
  BY <1>3, <1>4
<1> QED BY <1>4, <1>5

\* The prefix of seqs that FlattenSeq builds up to i, from those before it.
Joined(seqs, f, i) == IF i = 1 THEN seqs[i] ELSE f[i - 1] \o seqs[i]

IsJoin(seqs, f) == f = [i \in 1 .. Len(seqs) |-> Joined(seqs, f, i)]

\* The recursive definition in FlattenSeq defines it.
LEMMA FlattenFold ==
    ASSUME NEW seqs, Len(seqs) \in Nat
    PROVE  \E f : IsJoin(seqs, f)
<1> DEFINE UpTo(n, f) == \A i \in 1 .. n : f[i] = Joined(seqs, f, i)
           T == {n \in Nat : \E f : UpTo(n, f)}
<1>1. 0 \in T
  OBVIOUS
<1>2. ASSUME NEW n \in T PROVE n + 1 \in T
  <2>1. PICK f : UpTo(n, f)
    OBVIOUS
  <2> DEFINE g == [i \in 1 .. n + 1 |-> Joined(seqs, f, i)]
  <2>2. n \in Nat
    OBVIOUS
  <2>3. \A i \in 1 .. n : g[i] = f[i]
    BY <2>1, <2>2
  <2>4. ASSUME NEW i \in 1 .. n + 1 PROVE g[i] = Joined(seqs, g, i)
    <3>1. CASE i = 1
      BY <3>1, <2>2 DEF Joined
    <3>2. CASE i # 1
      <4>1. i - 1 \in 1 .. n
        BY <3>2, <2>2
      <4>2. g[i] = f[i - 1] \o seqs[i]
        BY <3>2 DEF Joined
      <4> HIDE DEF g
      <4> QED BY <3>2, <4>1, <4>2, <2>3 DEF Joined
    <3> QED BY <3>1, <3>2
  <2>5. \E e : UpTo(n + 1, e)
    <3> HIDE DEF g
    <3> QED BY <2>4
  <2> HIDE DEF UpTo
  <2> QED BY <2>2, <2>5
<1>3. T = Nat
  <2> HIDE DEF T
  <2>1. T \subseteq Nat
    BY DEF T
  <2> QED BY <1>1, <1>2, <2>1, NaturalInduction
<1>4. PICK f : UpTo(Len(seqs), f)
  BY <1>3
<1> DEFINE h == [i \in 1 .. Len(seqs) |-> f[i]]
<1>5. ASSUME NEW i \in 1 .. Len(seqs) PROVE f[i] = Joined(seqs, h, i)
  BY <1>4 DEF Joined
<1>6. IsJoin(seqs, h)
  BY <1>5 DEF IsJoin
<1> QED BY <1>6

LEMMA FlattenForm ==
    ASSUME NEW seqs, Len(seqs) \in Nat \ {0}
    PROVE  \E f : IsJoin(seqs, f) /\ FlattenSeq(seqs) = f[Len(seqs)]
<1> DEFINE g == CHOOSE f : IsJoin(seqs, f)
<1>1. IsJoin(seqs, g)
  BY FlattenFold
<1>2. FlattenSeq(seqs) = g[Len(seqs)]
  BY DEF FlattenSeq, IsJoin, Joined
<1> QED BY <1>1, <1>2

\* What is joined is a sequence, and not empty if its first part is not.
LEMMA FlattenType ==
    ASSUME NEW S, NEW seqs \in Seq(Seq(S))
    PROVE  /\ FlattenSeq(seqs) \in Seq(S)
           /\ seqs = <<>> => FlattenSeq(seqs) = <<>>
           /\ seqs # <<>> /\ seqs[1] # <<>> => FlattenSeq(seqs) # <<>>
<1>1. CASE seqs = <<>>
  BY <1>1 DEF FlattenSeq
<1>2. CASE seqs # <<>>
  <2>1. Len(seqs) \in Nat \ {0} /\ \A i \in 1 .. Len(seqs) : seqs[i] \in Seq(S)
    BY <1>2
  <2>2. PICK f : IsJoin(seqs, f) /\ FlattenSeq(seqs) = f[Len(seqs)]
    BY <2>1, FlattenForm
  <2>3. \A i \in 1 .. Len(seqs) : f[i] = Joined(seqs, f, i)
    BY <2>2 DEF IsJoin
  <2> DEFINE Good(i) == f[i] \in Seq(S) /\ (seqs[1] # <<>> => f[i] # <<>>)
             T == {n \in Nat : n + 1 \in 1 .. Len(seqs) => Good(n + 1)}
  <2>4. 0 \in T
    BY <2>1, <2>3 DEF Joined
  <2>5. ASSUME NEW n \in T PROVE n + 1 \in T
    <3> SUFFICES ASSUME n + 2 \in 1 .. Len(seqs) PROVE Good(n + 2)
      OBVIOUS
    <3>1. n \in Nat /\ n + 1 \in 1 .. Len(seqs) /\ Good(n + 1)
      BY <2>1
    <3>2. f[n + 2] = f[n + 1] \o seqs[n + 2]
      <4>1. n + 2 # 1 /\ (n + 2) - 1 = n + 1
        BY <3>1
      <4> QED BY <2>3, <4>1 DEF Joined
    <3>3. seqs[n + 2] \in Seq(S)
      BY <2>1
    <3> QED BY <3>1, <3>2, <3>3, ConcatProperties, ConcatEqualIffEmpty
  <2>6. T = Nat
    <3> HIDE DEF T
    <3>1. T \subseteq Nat
      BY DEF T
    <3> QED BY <2>4, <2>5, <3>1, NaturalInduction
  <2>7. Len(seqs) - 1 \in T /\ (Len(seqs) - 1) + 1 = Len(seqs)
    <3> HIDE DEF T
    <3> QED BY <2>1, <2>6
  <2>8. Good(Len(seqs))
    BY <2>1, <2>7
  <2> QED BY <1>2, <2>2, <2>8
<1> QED BY <1>1, <1>2

\* Five parts are joined from the left, as Buffer.concat does.
LEMMA FlattenFive ==
    ASSUME NEW seqs, Len(seqs) = 5
    PROVE  FlattenSeq(seqs) = (((seqs[1] \o seqs[2]) \o seqs[3]) \o seqs[4]) \o seqs[5]
<1>1. PICK f : IsJoin(seqs, f) /\ FlattenSeq(seqs) = f[5]
  <2>1. Len(seqs) \in Nat \ {0}
    OBVIOUS
  <2> QED BY <2>1, FlattenForm
<1>2. \A i \in 1 .. 5 : f[i] = Joined(seqs, f, i)
  BY <1>1 DEF IsJoin
<1>3. /\ f[1] = seqs[1] /\ f[2] = f[1] \o seqs[2] /\ f[3] = f[2] \o seqs[3]
      /\ f[4] = f[3] \o seqs[4] /\ f[5] = f[4] \o seqs[5]
  <2>1. ASSUME NEW i \in 2 .. 5 PROVE f[i] = f[i - 1] \o seqs[i]
    <3>1. i \in 1 .. 5 /\ i # 1
      OBVIOUS
    <3> QED BY <1>2, <3>1 DEF Joined
  <2>2. f[1] = seqs[1]
    BY <1>2 DEF Joined
  <2>3. 2 - 1 = 1 /\ 3 - 1 = 2 /\ 4 - 1 = 3 /\ 5 - 1 = 4
    OBVIOUS
  <2>4. f[2] = f[2 - 1] \o seqs[2] /\ f[3] = f[3 - 1] \o seqs[3]
    BY <2>1
  <2>5. f[4] = f[4 - 1] \o seqs[4] /\ f[5] = f[5 - 1] \o seqs[5]
    BY <2>1
  <2> QED BY <2>2, <2>3, <2>4, <2>5
<1> QED BY <1>1, <1>3

\* A text has bytes, and none only if it is blank.
LEMMA BytesType ==
    ASSUME NEW text \in Utf8Texts
    PROVE  Bytes(text) \in Seq(Nat) /\ (Bytes(text) = <<>> <=> text = <<>>)
<1>1. text \in Seq(Seq(Nat))
  BY SeqMonotonic DEF Utf8Texts
<1>2. text # <<>> => text[1] # <<>>
  <2>1. text \in Seq(Seq(Nat) \ {<<>>})
    BY DEF Utf8Texts
  <2>2. text # <<>> => text[1] \in Seq(Nat) \ {<<>>}
    BY <2>1
  <2> QED BY <2>2
<1> QED BY <1>1, <1>2, FlattenType DEF Bytes

-----------------------------------------------------------------------------
(* The code: what the decoder reads.                                       *)

\* The values from an offset on, from those behind them.
Values(b, f, o) ==
    IF o = Len(b) THEN {<<>>}
    ELSE IF o + 2 > Len(b) \/ o + 2 + b[o + 2] > Len(b) THEN {}
    ELSE {[tag \in DOMAIN later \cup {b[o + 1]} |->
             IF tag \in DOMAIN later THEN later[tag]
             ELSE SubSeq(b, o + 3, o + 2 + b[o + 2])] : later \in f[o + 2 + b[o + 2]]}

IsReading(b, f) == f = [o \in 0 .. Len(b) |-> Values(b, f, o)]

\* The next offset lies behind this one, and the reading there is all it takes.
LEMMA ValuesLocal ==
    ASSUME NEW b \in Seq(Nat), NEW o \in 0 .. Len(b), NEW f, NEW g,
           \A p \in 0 .. Len(b) : p > o => f[p] = g[p]
    PROVE  Values(b, f, o) = Values(b, g, o)
<1>1. CASE o = Len(b) \/ o + 2 > Len(b) \/ o + 2 + b[o + 2] > Len(b)
  BY <1>1 DEF Values
<1>2. CASE ~(o = Len(b) \/ o + 2 > Len(b) \/ o + 2 + b[o + 2] > Len(b))
  <2>1. b[o + 2] \in Nat
    BY <1>2
  <2>2. o + 2 + b[o + 2] \in 0 .. Len(b) /\ o + 2 + b[o + 2] > o
    BY <1>2, <2>1
  <2>3. f[o + 2 + b[o + 2]] = g[o + 2 + b[o + 2]]
    BY <2>2
  <2> QED BY <1>2, <2>3 DEF Values
<1> QED BY <1>1, <1>2

\* The recursive definition in ValuesFrom defines it.
LEMMA ReadingExists ==
    ASSUME NEW b \in Seq(Nat)
    PROVE  \E f : IsReading(b, f)
<1> DEFINE From(n, f) == \A o \in 0 .. Len(b) : o + n >= Len(b) => f[o] = Values(b, f, o)
           T == {n \in Nat : \E f : From(n, f)}
<1>1. 0 \in T
  <2>1. From(0, [o \in 0 .. Len(b) |-> {<<>>}])
    BY DEF Values
  <2> HIDE DEF From
  <2> QED BY <2>1
<1>2. ASSUME NEW n \in T PROVE n + 1 \in T
  <2>1. n \in Nat
    OBVIOUS
  <2>2. PICK f : From(n, f)
    OBVIOUS
  <2> DEFINE g == [o \in 0 .. Len(b) |-> Values(b, f, o)]
  <2>3. \A o \in 0 .. Len(b) : o + n >= Len(b) => g[o] = f[o]
    BY <2>2
  <2>4. ASSUME NEW o \in 0 .. Len(b), o + (n + 1) >= Len(b) PROVE g[o] = Values(b, g, o)
    <3>1. \A p \in 0 .. Len(b) : p > o => f[p] = g[p]
      BY <2>1, <2>3, <2>4
    <3>2. g[o] = Values(b, f, o)
      OBVIOUS
    <3> HIDE DEF g
    <3> QED BY <3>1, <3>2, ValuesLocal
  <2>5. \E e : From(n + 1, e)
    <3> HIDE DEF g
    <3> QED BY <2>4
  <2> HIDE DEF From
  <2> QED BY <2>1, <2>5
<1>3. T = Nat
  <2> HIDE DEF T
  <2>1. T \subseteq Nat
    BY DEF T
  <2> QED BY <1>1, <1>2, <2>1, NaturalInduction
<1>4. Len(b) \in T
  <2> HIDE DEF T
  <2> QED BY <1>3
<1>5. PICK f : From(Len(b), f)
  BY <1>4
<1> DEFINE h == [o \in 0 .. Len(b) |-> f[o]]
<1>6. ASSUME NEW o \in 0 .. Len(b) PROVE f[o] = Values(b, h, o)
  <2>1. f[o] = Values(b, f, o)
    BY <1>5
  <2>2. \A p \in 0 .. Len(b) : f[p] = h[p]
    OBVIOUS
  <2> HIDE DEF h
  <2> QED BY <2>1, <2>2, ValuesLocal
<1>7. IsReading(b, h)
  <2>1. h = [o \in 0 .. Len(b) |-> Values(b, h, o)]
    BY <1>6
  <2> HIDE DEF h
  <2> QED BY <2>1 DEF IsReading
<1> QED BY <1>7

LEMMA ReadingForm ==
    ASSUME NEW b \in Seq(Nat)
    PROVE  \A o \in 0 .. Len(b) : ValuesFrom(b)[o] = Values(b, ValuesFrom(b), o)
<1>1. ValuesFrom(b) = CHOOSE f : IsReading(b, f)
  BY DEF ValuesFrom, IsReading, Values
<1>2. IsReading(b, ValuesFrom(b))
  BY <1>1, ReadingExists
<1> QED BY <1>2 DEF IsReading

\* The first n of five fields lie in b one after another, the field k with its
\* tag and length from offset at[k] on, its value v[k] behind them.
Offsets(at, v) ==
    /\ v \in [1 .. 5 -> Seq(Nat)] /\ at \in [1 .. 6 -> Nat]
    /\ at[1] = 0
    /\ \A k \in 1 .. 5 : at[k + 1] = at[k] + 2 + Len(v[k])

IsLayout(b, at, v, n) ==
    /\ b \in Seq(Nat) /\ Len(b) = at[n + 1]
    /\ \A k \in 1 .. n :
          /\ b[at[k] + 1] = k /\ b[at[k] + 2] = Len(v[k])
          /\ \A i \in 1 .. Len(v[k]) : b[at[k] + 2 + i] = v[k][i]

LEMMA OffsetsExist ==
    ASSUME NEW v \in [1 .. 5 -> Seq(Nat)]
    PROVE  \E at : Offsets(at, v)
<1> DEFINE a1 == 0
           a2 == a1 + 2 + Len(v[1])
           a3 == a2 + 2 + Len(v[2])
           a4 == a3 + 2 + Len(v[3])
           a5 == a4 + 2 + Len(v[4])
           a6 == a5 + 2 + Len(v[5])
           at == [k \in 1 .. 6 |-> IF k = 1 THEN a1 ELSE IF k = 2 THEN a2 ELSE IF k = 3 THEN a3
                                   ELSE IF k = 4 THEN a4 ELSE IF k = 5 THEN a5 ELSE a6]
<1>1. \A k \in 1 .. 5 : Len(v[k]) \in Nat
  OBVIOUS
<1>2. a1 \in Nat /\ a2 \in Nat /\ a3 \in Nat /\ a4 \in Nat /\ a5 \in Nat /\ a6 \in Nat
  BY <1>1
<1>3. /\ at[1] = a1 /\ at[2] = a2 /\ at[3] = a3 /\ at[4] = a4 /\ at[5] = a5 /\ at[6] = a6
  OBVIOUS
<1>4. at \in [1 .. 6 -> Nat]
  <2> HIDE DEF a1, a2, a3, a4, a5, a6
  <2> QED BY <1>2
<1> HIDE DEF at
<1>5. /\ at[2] = at[1] + 2 + Len(v[1]) /\ at[3] = at[2] + 2 + Len(v[2])
      /\ at[4] = at[3] + 2 + Len(v[3]) /\ at[5] = at[4] + 2 + Len(v[4])
      /\ at[6] = at[5] + 2 + Len(v[5])
  BY <1>3
<1>6. \A k \in 1 .. 5 : at[k + 1] = at[k] + 2 + Len(v[k])
  <2>1. 1 + 1 = 2 /\ 2 + 1 = 3 /\ 3 + 1 = 4 /\ 4 + 1 = 5 /\ 5 + 1 = 6 /\ 1 .. 5 = {1, 2, 3, 4, 5}
    OBVIOUS
  <2> HIDE DEF a1, a2, a3, a4, a5, a6
  <2> QED BY <1>5, <2>1
<1>7. Offsets(at, v)
  BY <1>3, <1>4, <1>6 DEF Offsets
<1> QED BY <1>7

LEMMA OffsetsGrow ==
    ASSUME NEW v, NEW at, Offsets(at, v)
    PROVE  /\ \A k \in 1 .. 5 : /\ v[k] \in Seq(Nat) /\ Len(v[k]) \in Nat
                                /\ at[k] \in Nat /\ at[k + 1] \in Nat
                                /\ at[k + 1] = at[k] + 2 + Len(v[k])
           /\ \A k, l \in 1 .. 6 : k <= l => at[k] <= at[l]
<1>1. ASSUME NEW k \in 1 .. 5
      PROVE  /\ v[k] \in Seq(Nat) /\ Len(v[k]) \in Nat
             /\ at[k] \in Nat /\ at[k + 1] \in Nat
             /\ at[k + 1] = at[k] + 2 + Len(v[k])
  <2>1. v[k] \in Seq(Nat)
    BY DEF Offsets
  <2>2. k \in 1 .. 6 /\ k + 1 \in 1 .. 6
    OBVIOUS
  <2>3. at[k] \in Nat /\ at[k + 1] \in Nat
    BY <2>2 DEF Offsets
  <2>4. at[k + 1] = at[k] + 2 + Len(v[k])
    BY DEF Offsets
  <2>5. Len(v[k]) \in Nat
    BY <2>1
  <2> QED BY <2>1, <2>3, <2>4, <2>5
<1>2. ASSUME NEW k \in 1 .. 5
      PROVE  at[k] \in Nat /\ at[k + 1] \in Nat /\ at[k] <= at[k + 1]
  <2>1. Len(v[k]) \in Nat
    BY <1>1
  <2>2. at[k] \in Nat /\ at[k + 1] \in Nat /\ at[k + 1] = at[k] + 2 + Len(v[k])
    BY <1>1
  <2> QED BY <2>1, <2>2
<1>3. /\ at[1] <= at[1 + 1] /\ at[2] <= at[2 + 1] /\ at[3] <= at[3 + 1] /\ at[4] <= at[4 + 1]
      /\ at[5] <= at[5 + 1] /\ at[1] \in Nat /\ at[2] \in Nat /\ at[3] \in Nat /\ at[4] \in Nat
      /\ at[5] \in Nat /\ at[5 + 1] \in Nat
  <2>1. 1 \in 1 .. 5 /\ 2 \in 1 .. 5 /\ 3 \in 1 .. 5 /\ 4 \in 1 .. 5 /\ 5 \in 1 .. 5
    OBVIOUS
  <2> QED BY <1>2, <2>1
<1>4. ASSUME NEW k \in 1 .. 6, NEW l \in 1 .. 6, k <= l PROVE at[k] <= at[l]
  <2>1. k \in {1, 2, 3, 4, 5, 6} /\ l \in {1, 2, 3, 4, 5, 6}
    OBVIOUS
  <2> QED BY <1>3, <1>4, <2>1
<1> QED BY <1>1, <1>4

LEMMA ConcatParts ==
    ASSUME NEW s \in Seq(Nat), NEW t \in Seq(Nat)
    PROVE  /\ s \o t \in Seq(Nat) /\ Len(s \o t) = Len(s) + Len(t)
           /\ \A i \in 1 .. Len(s) : (s \o t)[i] = s[i]
           /\ \A i \in 1 .. Len(t) : (s \o t)[Len(s) + i] = t[i]
<1> DEFINE c == s \o t
<1>1. /\ c \in Seq(Nat) /\ Len(c) = Len(s) + Len(t)
      /\ \A i \in 1 .. Len(s) + Len(t) : c[i] = IF i <= Len(s) THEN s[i] ELSE t[i - Len(s)]
  BY ConcatProperties
<1>2. Len(s) \in Nat /\ Len(t) \in Nat
  OBVIOUS
<1> HIDE DEF c
<1>3. ASSUME NEW i \in 1 .. Len(t) PROVE c[Len(s) + i] = t[i]
  <2>1. Len(s) + i \in 1 .. Len(s) + Len(t) /\ ~(Len(s) + i <= Len(s)) /\ (Len(s) + i) - Len(s) = i
    BY <1>2
  <2> QED BY <1>1, <2>1
<1>4. \A i \in 1 .. Len(s) : c[i] = s[i]
  BY <1>1, <1>2
<1> QED BY <1>1, <1>3, <1>4 DEF c

\* One field: its tag, its length and its value.
Tlv(tag, w) == <<tag, Len(w)>> \o w

LEMMA TlvParts ==
    ASSUME NEW tag \in Nat, NEW w \in Seq(Nat)
    PROVE  /\ Tlv(tag, w) \in Seq(Nat) /\ Len(Tlv(tag, w)) = 2 + Len(w)
           /\ Tlv(tag, w)[1] = tag /\ Tlv(tag, w)[2] = Len(w)
           /\ \A i \in 1 .. Len(w) : Tlv(tag, w)[2 + i] = w[i]
<1> DEFINE h == <<tag, Len(w)>>
<1>1. h \in Seq(Nat) /\ Len(h) = 2 /\ h[1] = tag /\ h[2] = Len(w)
  OBVIOUS
<1>2. Tlv(tag, w) = h \o w
  BY DEF Tlv
<1> HIDE DEF h
<1>3. /\ h \o w \in Seq(Nat) /\ Len(h \o w) = Len(h) + Len(w)
      /\ \A i \in 1 .. Len(h) : (h \o w)[i] = h[i]
      /\ \A i \in 1 .. Len(w) : (h \o w)[Len(h) + i] = w[i]
  BY <1>1, ConcatParts
<1> QED BY <1>1, <1>2, <1>3

\* One more field behind the others.
LEMMA AppendRecord ==
    ASSUME NEW v, NEW at, Offsets(at, v), NEW n \in 0 .. 4,
           NEW b, IsLayout(b, at, v, n)
    PROVE  IsLayout(b \o Tlv(n + 1, v[n + 1]), at, v, n + 1)
<1> DEFINE m == n + 1
           w == v[m]
           e == Tlv(m, w)
           c == b \o e
<1>1. m \in 1 .. 5 /\ m \in Nat
  OBVIOUS
<1> HIDE DEF m
<1>2. w \in Seq(Nat)
  BY <1>1, OffsetsGrow
<1>3. Len(w) \in Nat /\ at[m] \in Nat /\ at[m + 1] = at[m] + 2 + Len(w)
  BY <1>1, OffsetsGrow
<1>4. b \in Seq(Nat)
  BY DEF IsLayout
<1>5. Len(b) = at[m]
  BY DEF IsLayout, m
<1> HIDE DEF w
<1>6. e \in Seq(Nat)
  BY <1>1, <1>2, TlvParts
<1>7. Len(e) = 2 + Len(w)
  BY <1>1, <1>2, TlvParts
<1>8. /\ e[1] = m /\ e[2] = Len(w)
      /\ \A i \in 1 .. Len(w) : e[2 + i] = w[i]
  BY <1>1, <1>2, TlvParts
<1> HIDE DEF e
<1>9. c \in Seq(Nat)
  BY <1>4, <1>6, ConcatParts
<1>10. Len(c) = Len(b) + Len(e)
  BY <1>4, <1>6, ConcatParts
<1>11. /\ \A i \in 1 .. Len(b) : c[i] = b[i]
       /\ \A i \in 1 .. Len(e) : c[Len(b) + i] = e[i]
  BY <1>4, <1>6, ConcatParts
<1> HIDE DEF c
<1>12. Len(c) = at[m + 1]
  BY <1>3, <1>5, <1>7, <1>10
<1>13. /\ c[at[m] + 1] = m /\ c[at[m] + 2] = Len(w)
       /\ \A i \in 1 .. Len(w) : c[at[m] + 2 + i] = w[i]
  <2>1. 1 \in 1 .. Len(e) /\ 2 \in 1 .. Len(e)
    BY <1>3, <1>7
  <2>2. ASSUME NEW i \in 1 .. Len(w) PROVE c[at[m] + 2 + i] = w[i]
    <3>1. 2 + i \in 1 .. Len(e) /\ at[m] + (2 + i) = at[m] + 2 + i
      BY <1>3, <1>7
    <3>2. c[Len(b) + (2 + i)] = e[2 + i]
      BY <1>11, <3>1
    <3> QED BY <1>5, <1>8, <3>1, <3>2
  <2> QED BY <1>5, <1>8, <1>11, <2>1, <2>2
<1>14. ASSUME NEW k \in 1 .. n
       PROVE  /\ c[at[k] + 1] = k /\ c[at[k] + 2] = Len(v[k])
              /\ \A i \in 1 .. Len(v[k]) : c[at[k] + 2 + i] = v[k][i]
  <2>1. k \in 1 .. 5 /\ k + 1 \in 1 .. 6 /\ m \in 1 .. 6 /\ k + 1 <= m
    BY DEF m
  <2>2. Len(v[k]) \in Nat
    BY <2>1, OffsetsGrow
  <2>3. at[k] \in Nat /\ at[k + 1] \in Nat /\ at[k + 1] = at[k] + 2 + Len(v[k])
    BY <2>1, OffsetsGrow
  <2>4. at[k + 1] <= Len(b)
    BY <1>5, <2>1, OffsetsGrow
  <2>5. Len(b) \in Nat
    BY <1>4
  <2>6. at[k] + 1 \in 1 .. Len(b) /\ at[k] + 2 \in 1 .. Len(b)
    BY <2>2, <2>3, <2>4, <2>5
  <2>7. ASSUME NEW i \in 1 .. Len(v[k]) PROVE at[k] + 2 + i \in 1 .. Len(b)
    <3>1. i \in Nat /\ 1 <= i /\ i <= Len(v[k])
      BY <2>2
    <3>2. at[k] + 2 + i \in Nat /\ at[k] + 2 + i <= at[k + 1] /\ 1 <= at[k] + 2 + i
      BY <2>2, <2>3, <3>1
    <3> QED BY <2>3, <2>4, <2>5, <3>2
  <2>8. /\ b[at[k] + 1] = k /\ b[at[k] + 2] = Len(v[k])
        /\ \A i \in 1 .. Len(v[k]) : b[at[k] + 2 + i] = v[k][i]
    BY DEF IsLayout
  <2> QED BY <1>11, <2>6, <2>7, <2>8
<1>15. \A k \in 1 .. m : k \in 1 .. n \/ k = m
  BY DEF m
<1>16. IsLayout(c, at, v, m)
  BY <1>9, <1>12, <1>13, <1>14, <1>15 DEF IsLayout, w
<1> QED BY <1>16 DEF c, e, w, m

LEMMA Between ==
    ASSUME NEW p \in Nat, NEW l \in Nat, NEW m \in Nat, p + 2 + l <= m
    PROVE  /\ p + 1 \in 1 .. m /\ p + 2 \in 1 .. m
           /\ \A i \in 1 .. l : p + 2 + i \in 1 .. m
OBVIOUS

\* In b the field k with value w is there, from offset o on.
HasField(b, o, k, w) ==
    /\ o + 2 + Len(w) <= Len(b) /\ b[o + 1] = k /\ b[o + 2] = Len(w)
    /\ \A i \in 1 .. Len(w) : b[o + 2 + i] = w[i]

\* What a field k with value w adds to what is read behind it.
Prepended(k, w, rest) ==
    {[tag \in DOMAIN l \cup {k} |-> IF tag \in DOMAIN l THEN l[tag] ELSE w] : l \in rest}

\* The decoder at a field that is there takes its value, unless the field comes
\* again, and goes on behind it.
LEMMA ReadRecord ==
    ASSUME NEW b \in Seq(Nat), NEW o \in Nat, NEW w \in Seq(Nat), NEW k \in Nat,
           HasField(b, o, k, w)
    PROVE  ValuesFrom(b)[o] = Prepended(k, w, ValuesFrom(b)[o + 2 + Len(w)])
<1> USE DEF HasField
<1>1. Len(w) \in Nat
  OBVIOUS
<1>2. Len(b) \in Nat
  OBVIOUS
<1>3. o \in 0 .. Len(b) /\ o # Len(b) /\ ~(o + 2 > Len(b))
  BY <1>1, <1>2
<1>4. SubSeq(b, o + 3, o + 2 + Len(w)) = w
  <2> DEFINE u == SubSeq(b, o + 3, o + 2 + Len(w))
  <2>1. \A i \in o + 3 .. o + 2 + Len(w) : b[i] \in Nat
    <3>1. \A i \in o + 3 .. o + 2 + Len(w) : i \in 1 .. Len(b)
      BY <1>1, <1>2
    <3> QED BY <3>1, ElementOfSeq
  <2>2. o + 3 \in Int /\ o + 2 + Len(w) \in Int
    BY <1>1
  <2>3. /\ u \in Seq(Nat)
        /\ Len(u) = IF o + 3 <= o + 2 + Len(w) THEN (o + 2 + Len(w)) - (o + 3) + 1 ELSE 0
        /\ \A i \in 1 .. (o + 2 + Len(w)) - (o + 3) + 1 : u[i] = b[(o + 3) + i - 1]
    <3> HIDE DEF u
    <3>1. u = SubSeq(b, o + 3, o + 2 + Len(w))
      BY DEF u
    <3> QED BY <2>1, <2>2, <3>1, SubSeqProperties
  <2> HIDE DEF u
  <2>4. Len(u) = Len(w)
    BY <1>1, <2>3
  <2>5. ASSUME NEW i \in 1 .. Len(u) PROVE u[i] = w[i]
    <3>1. i \in Int /\ i \in 1 .. Len(w)
      BY <1>1, <2>4
    <3>2. i \in 1 .. (o + 2 + Len(w)) - (o + 3) + 1 /\ (o + 3) + i - 1 = o + 2 + i
      BY <1>1, <3>1
    <3> QED BY <2>3, <3>1, <3>2
  <2>6. u = w
    BY <2>3, <2>4, <2>5, SeqEqual
  <2> QED BY <2>6 DEF u
<1>5. ValuesFrom(b)[o] = Values(b, ValuesFrom(b), o)
  BY <1>3, ReadingForm
<1>6. ~(o + 2 + b[o + 2] > Len(b))
  BY <1>1, <1>2
<1> DEFINE f == ValuesFrom(b)
<1> HIDE DEF f
<1>7. Values(b, f, o) =
        Prepended(b[o + 1], SubSeq(b, o + 3, o + 2 + b[o + 2]), f[o + 2 + b[o + 2]])
  BY <1>3, <1>6 DEF Values, Prepended
<1>8. Values(b, f, o) = Prepended(k, w, f[o + 2 + Len(w)])
  BY <1>4, <1>7
<1> QED BY <1>5, <1>8 DEF f

\* At a field that is cut off it gives up.
LEMMA ReadCutRecord ==
    ASSUME NEW b \in Seq(Nat), NEW o \in 0 .. Len(b), NEW l \in Nat,
           o < Len(b), Len(b) < o + 2 + l, o + 2 <= Len(b) => b[o + 2] = l
    PROVE  ValuesFrom(b)[o] = {}
<1>1. Len(b) \in Nat
  OBVIOUS
<1>2. o # Len(b) /\ (o + 2 > Len(b) \/ o + 2 + b[o + 2] > Len(b))
  BY <1>1
<1> QED BY <1>2, ReadingForm DEF Values

\* At the end there is nothing left to read.
LEMMA ReadEnd ==
    ASSUME NEW b \in Seq(Nat)
    PROVE  ValuesFrom(b)[Len(b)] = {<<>>}
<1>1. Len(b) \in 0 .. Len(b)
  OBVIOUS
<1> QED BY <1>1, ReadingForm DEF Values

\* A whole payload gives all its fields, from whichever on.
LEMMA ReadWhole ==
    ASSUME NEW v, NEW at, Offsets(at, v), NEW b, IsLayout(b, at, v, 5)
    PROVE  ReadTlvs(b) = {[k \in 1 .. 5 |-> v[k]]}
<1> DEFINE R == ValuesFrom(b)
           Rest(k) == [tag \in k .. 5 |-> v[tag]]
<1>1. b \in Seq(Nat)
  BY DEF IsLayout
<1>2. Len(b) = at[6]
  BY DEF IsLayout
<1>3. ASSUME NEW k \in 1 .. 5, NEW later, R[at[k + 1]] = {later}, DOMAIN later = k + 1 .. 5,
             \A tag \in k + 1 .. 5 : later[tag] = v[tag]
      PROVE  R[at[k]] = {Rest(k)}
  <2>1. v[k] \in Seq(Nat)
    BY OffsetsGrow
  <2>2. at[k] \in Nat /\ at[k + 1] = at[k] + 2 + Len(v[k])
    BY OffsetsGrow
  <2>3. at[k + 1] <= Len(b)
    <3>1. k + 1 \in 1 .. 6 /\ 6 \in 1 .. 6 /\ k + 1 <= 6
      OBVIOUS
    <3> QED BY <1>2, <3>1, OffsetsGrow
  <2>4. /\ b[at[k] + 1] = k /\ b[at[k] + 2] = Len(v[k])
        /\ \A i \in 1 .. Len(v[k]) : b[at[k] + 2 + i] = v[k][i]
    BY DEF IsLayout
  <2>5. R[at[k]] = Prepended(k, v[k], R[at[k + 1]])
    <3> HIDE DEF R
    <3>1. at[k] + 2 + Len(v[k]) <= Len(b)
      BY <2>2, <2>3
    <3>2. R[at[k]] = Prepended(k, v[k], R[at[k] + 2 + Len(v[k])])
      <4>1. HasField(b, at[k], k, v[k]) /\ k \in Nat
        BY <2>4, <3>1 DEF HasField
      <4> DEFINE o == at[k]
                 w == v[k]
      <4>2. o \in Nat /\ w \in Seq(Nat) /\ HasField(b, o, k, w)
        BY <2>1, <2>2, <4>1
      <4> HIDE DEF o, w
      <4>3. R[o] = Prepended(k, w, R[o + 2 + Len(w)])
        BY <1>1, <4>1, <4>2, ReadRecord DEF R
      <4> QED BY <4>3 DEF o, w
    <3> QED BY <2>2, <3>2
  <2>6. (k + 1 .. 5) \cup {k} = k .. 5
    OBVIOUS
  <2>7. [tag \in DOMAIN later \cup {k} |-> IF tag \in DOMAIN later THEN later[tag] ELSE v[k]] = Rest(k)
    BY <1>3, <2>6
  <2> HIDE DEF R, Rest
  <2> QED BY <1>3, <2>5, <2>7 DEF Prepended
<1>4. R[at[6]] = {<<>>}
  BY <1>1, <1>2, ReadEnd
<1>5. DOMAIN <<>> = 5 + 1 .. 5
  OBVIOUS
<1>6. \A k \in 1 .. 5 : DOMAIN Rest(k) = k .. 5 /\ \A tag \in k .. 5 : Rest(k)[tag] = v[tag]
  OBVIOUS
<1> HIDE DEF R, Rest
<1>7. R[at[5]] = {Rest(5)}
  <2>1. R[at[5 + 1]] = {<<>>} /\ \A tag \in 5 + 1 .. 5 : <<>>[tag] = v[tag]
    BY <1>4
  <2> QED BY <1>3, <1>5, <2>1
<1>8. \A k \in 1 .. 4 : R[at[k + 1]] = {Rest(k + 1)} => R[at[k]] = {Rest(k)}
  <2> SUFFICES ASSUME NEW k \in 1 .. 4, R[at[k + 1]] = {Rest(k + 1)} PROVE R[at[k]] = {Rest(k)}
    OBVIOUS
  <2>1. k \in 1 .. 5 /\ k + 1 \in 1 .. 5
    OBVIOUS
  <2>2. DOMAIN Rest(k + 1) = k + 1 .. 5 /\ \A tag \in k + 1 .. 5 : Rest(k + 1)[tag] = v[tag]
    BY <1>6, <2>1
  <2> QED BY <1>3, <2>1, <2>2
<1>9. R[at[1]] = {Rest(1)}
  <2>1. /\ R[at[4 + 1]] = {Rest(4 + 1)} => R[at[4]] = {Rest(4)}
        /\ R[at[3 + 1]] = {Rest(3 + 1)} => R[at[3]] = {Rest(3)}
        /\ R[at[2 + 1]] = {Rest(2 + 1)} => R[at[2]] = {Rest(2)}
        /\ R[at[1 + 1]] = {Rest(1 + 1)} => R[at[1]] = {Rest(1)}
    BY <1>8
  <2>2. 4 + 1 = 5 /\ 3 + 1 = 4 /\ 2 + 1 = 3 /\ 1 + 1 = 2
    OBVIOUS
  <2> QED BY <1>7, <2>1, <2>2
<1>10. at[1] = 0
  BY DEF Offsets
<1> QED BY <1>9, <1>10 DEF ReadTlvs, R, Rest

\* A payload that lost its end lacks the last field, whatever else it gives.
LEMMA ReadCut ==
    ASSUME NEW v, NEW at, Offsets(at, v), NEW b, IsLayout(b, at, v, 5),
           NEW n \in 0 .. Len(b) - 1, NEW w \in ReadTlvs(SubSeq(b, 1, n))
    PROVE  5 \notin DOMAIN w
<1> DEFINE c == SubSeq(b, 1, n)
           R == ValuesFrom(c)
           Lacking(k) == at[k] <= n => \A u \in R[at[k]] : 5 \notin DOMAIN u
<1>1. b \in Seq(Nat)
  BY DEF IsLayout
<1>2. Len(b) \in Nat /\ n \in Nat /\ n < Len(b)
  BY <1>1
<1>3. Len(b) = at[6]
  BY DEF IsLayout
<1>4. c \in Seq(Nat) /\ Len(c) = n /\ \A i \in 1 .. n : c[i] = b[i]
  <2>1. \A i \in 1 .. n : b[i] \in Nat
    BY <1>1, <1>2, ElementOfSeq
  <2>2. /\ c \in Seq(Nat) /\ Len(c) = IF 1 <= n THEN n - 1 + 1 ELSE 0
        /\ \A i \in 1 .. n - 1 + 1 : c[i] = b[1 + i - 1]
    BY <1>2, <2>1, SubSeqProperties
  <2> HIDE DEF c
  <2> QED BY <1>2, <2>2
<1>5. w \in R[0]
  BY DEF ReadTlvs
<1> HIDE DEF c, R
<1>6. ASSUME NEW k \in 1 .. 5, k # 5 => Lacking(k + 1) PROVE Lacking(k)
  <2> SUFFICES ASSUME at[k] <= n, NEW u \in R[at[k]] PROVE 5 \notin DOMAIN u
    OBVIOUS
  <2>1. v[k] \in Seq(Nat)
    BY OffsetsGrow
  <2>2. Len(v[k]) \in Nat
    BY <2>1
  <2>3. at[k] \in Nat /\ at[k + 1] \in Nat /\ at[k + 1] = at[k] + 2 + Len(v[k])
    BY OffsetsGrow
  <2>4. at[k + 1] <= Len(b)
    <3>1. k + 1 \in 1 .. 6 /\ 6 \in 1 .. 6 /\ k + 1 <= 6
      OBVIOUS
    <3> QED BY <1>3, <3>1, OffsetsGrow
  <2>5. /\ b[at[k] + 1] = k /\ b[at[k] + 2] = Len(v[k])
        /\ \A i \in 1 .. Len(v[k]) : b[at[k] + 2 + i] = v[k][i]
    BY DEF IsLayout
  <2>6. CASE at[k] = n
    <3>1. R[n] = {<<>>}
      BY <1>4, ReadEnd DEF R
    <3> QED BY <2>6, <3>1
  <2>7. CASE at[k] < n /\ n < at[k + 1]
    <3>1. at[k] + 2 <= n => c[at[k] + 2] = Len(v[k])
      <4>1. at[k] + 2 <= n => at[k] + 2 \in 1 .. n
        BY <1>2, <2>3
      <4> QED BY <1>4, <2>5, <4>1
    <3>2. at[k] \in 0 .. n
      BY <1>2, <2>3, <2>7
    <3>3. R[at[k]] = {}
      <4>1. n < at[k] + 2 + Len(v[k])
        BY <2>3, <2>7
      <4> QED BY <1>4, <2>2, <2>7, <3>1, <3>2, <4>1, ReadCutRecord DEF R
    <3> QED BY <3>3
  <2>8. CASE at[k + 1] <= n
    <3>1. k # 5
      <4>1. k = 5 => at[k + 1] = Len(b)
        BY <1>3
      <4> QED BY <1>2, <2>3, <2>8, <4>1
    <3>2. at[k] + 1 \in 1 .. n /\ at[k] + 2 \in 1 .. n
      BY <1>2, <2>2, <2>3, <2>8, Between
    <3>3. \A i \in 1 .. Len(v[k]) : at[k] + 2 + i \in 1 .. n
      BY <1>2, <2>2, <2>3, <2>8, Between
    <3>4. /\ c[at[k] + 1] = k /\ c[at[k] + 2] = Len(v[k])
          /\ \A i \in 1 .. Len(v[k]) : c[at[k] + 2 + i] = v[k][i]
      BY <1>4, <2>5, <3>2, <3>3
    <3>5. at[k] + 2 + Len(v[k]) <= Len(c) /\ c \in Seq(Nat)
      BY <1>4, <2>3, <2>8
    <3>6. R[at[k]] = Prepended(k, v[k], R[at[k + 1]])
      <4>1. R[at[k]] = Prepended(k, v[k], R[at[k] + 2 + Len(v[k])])
        <5>1. HasField(c, at[k], k, v[k]) /\ k \in Nat
          BY <3>4, <3>5 DEF HasField
        <5> DEFINE o == at[k]
                   x == v[k]
        <5>2. o \in Nat /\ x \in Seq(Nat) /\ HasField(c, o, k, x)
          BY <2>1, <2>3, <5>1
        <5> HIDE DEF o, x
        <5>3. R[o] = Prepended(k, x, R[o + 2 + Len(x)])
          BY <3>5, <5>1, <5>2, ReadRecord DEF R
        <5> QED BY <5>3 DEF o, x
      <4> QED BY <2>3, <4>1
    <3>7. PICK l \in R[at[k + 1]] : DOMAIN u = DOMAIN l \cup {k}
      BY <3>6 DEF Prepended
    <3>8. 5 \notin DOMAIN l
      BY <1>6, <2>8, <3>1
    <3> QED BY <3>1, <3>7, <3>8
  <2> QED BY <1>2, <2>3, <2>6, <2>7, <2>8
<1> HIDE DEF Lacking
<1>7. Lacking(1)
  <2>1. 5 \in 1 .. 5 /\ 4 \in 1 .. 5 /\ 3 \in 1 .. 5 /\ 2 \in 1 .. 5 /\ 1 \in 1 .. 5
    OBVIOUS
  <2>2. Lacking(5)
    BY <1>6, <2>1
  <2>3. 4 + 1 = 5 /\ 3 + 1 = 4 /\ 2 + 1 = 3 /\ 1 + 1 = 2
    OBVIOUS
  <2>4. Lacking(4)
    BY <1>6, <2>1, <2>2, <2>3
  <2>5. Lacking(3)
    BY <1>6, <2>1, <2>3, <2>4
  <2>6. Lacking(2)
    BY <1>6, <2>1, <2>3, <2>5
  <2> QED BY <1>6, <2>1, <2>3, <2>6
<1>8. at[1] = 0
  BY DEF Offsets
<1> QED BY <1>2, <1>5, <1>7, <1>8 DEF Lacking

-----------------------------------------------------------------------------
(* The code: what is written and what is read.                             *)

LEMMA FiveTags ==
    /\ DOMAIN ZatcaTags = 1 .. 5
    /\ ZatcaTags[1] = "sellerName" /\ ZatcaTags[2] = "vatRegistrationNumber"
    /\ ZatcaTags[3] = "invoiceTimestamp" /\ ZatcaTags[4] = "invoiceTotalWithVat"
    /\ ZatcaTags[5] = "vatTotal"
BY DEF ZatcaTags

LEMMA ModuloBelow ==
    ASSUME NEW a \in Nat, NEW m \in Nat, a <= m
    PROVE  a % (m + 1) = a
OBVIOUS

\* The bytes of the five fields.
Written(fields) == [k \in 1 .. 5 |-> Bytes(fields[ZatcaTags[k]])]

\* A payload that is built has the five fields one after another.
LEMMA PayloadLayout ==
    ASSUME NEW fields, \A k \in 1 .. 5 : fields[ZatcaTags[k]] \in Utf8Texts,
           NEW payload \in BuildPayload(fields)
    PROVE  \E at : Offsets(at, Written(fields)) /\ IsLayout(payload, at, Written(fields), 5)
<1> DEFINE v == Written(fields)
           seqs == [tag \in DOMAIN ZatcaTags |-> EncodeTlv(tag, fields[ZatcaTags[tag]])]
<1>1. ASSUME NEW k \in 1 .. 5 PROVE v[k] \in Seq(Nat) /\ v[k] = Bytes(fields[ZatcaTags[k]])
  BY BytesType DEF Written
<1>2. v \in [1 .. 5 -> Seq(Nat)]
  BY <1>1 DEF Written
<1>3. payload = FlattenSeq(seqs) /\ \A k \in 1 .. 5 : Fits(fields[ZatcaTags[k]])
  BY FiveTags DEF BuildPayload
<1> HIDE DEF v
<1>4. ASSUME NEW k \in 1 .. 5 PROVE seqs[k] = Tlv(k, v[k])
  <2>1. Len(v[k]) \in Nat
    BY <1>1
  <2>2. Len(v[k]) <= MaxLength
    BY <1>1, <1>3 DEF Fits
  <2>3. Len(v[k]) % (MaxLength + 1) = Len(v[k])
    BY <2>1, <2>2, ModuloBelow, InvoicingAssumption
  <2>4. seqs[k] = EncodeTlv(k, fields[ZatcaTags[k]])
    BY FiveTags
  <2> QED BY <1>1, <2>3, <2>4 DEF EncodeTlv, Tlv
<1>5. Len(seqs) = 5
  BY FiveTags
<1>6. payload = (((Tlv(1, v[1]) \o Tlv(2, v[2])) \o Tlv(3, v[3])) \o Tlv(4, v[4])) \o Tlv(5, v[5])
  <2> HIDE DEF seqs
  <2>1. /\ seqs[1] = Tlv(1, v[1]) /\ seqs[2] = Tlv(2, v[2]) /\ seqs[3] = Tlv(3, v[3])
        /\ seqs[4] = Tlv(4, v[4]) /\ seqs[5] = Tlv(5, v[5])
    BY <1>4
  <2> QED BY <1>3, <1>5, <2>1, FlattenFive
<1> HIDE DEF seqs
<1>7. PICK at : Offsets(at, v)
  BY <1>2, OffsetsExist
<1>8. IsLayout(<<>>, at, v, 0)
  <2>1. at[0 + 1] = 0 /\ <<>> \in Seq(Nat) /\ Len(<<>>) = 0
    BY <1>7 DEF Offsets
  <2> QED BY <2>1 DEF IsLayout
<1>9. \A b : \A n \in 0 .. 4 : IsLayout(b, at, v, n) => IsLayout(b \o Tlv(n + 1, v[n + 1]), at, v, n + 1)
  BY <1>7, AppendRecord
<1>10. 0 + 1 = 1 /\ 1 + 1 = 2 /\ 2 + 1 = 3 /\ 3 + 1 = 4 /\ 4 + 1 = 5
  OBVIOUS
<1>11. IsLayout(Tlv(1, v[1]), at, v, 1)
  <2>1. IsLayout(<<>> \o Tlv(0 + 1, v[0 + 1]), at, v, 0 + 1)
    <3>1. 0 \in 0 .. 4
      OBVIOUS
    <3> QED BY <1>8, <1>9, <3>1, Zenon
  <2>2. Tlv(1, v[1]) \in Seq(Nat)
    <3>1. 1 \in 1 .. 5 /\ 1 \in Nat
      OBVIOUS
    <3>2. v[1] \in Seq(Nat)
      BY <1>1, <3>1
    <3> QED BY <3>1, <3>2, TlvParts
  <2>3. <<>> \o Tlv(1, v[1]) = Tlv(1, v[1])
    BY <2>2, ConcatEmptySeq
  <2> QED BY <1>10, <2>1, <2>3
<1> DEFINE b2 == Tlv(1, v[1]) \o Tlv(2, v[2])
           b3 == b2 \o Tlv(3, v[3])
           b4 == b3 \o Tlv(4, v[4])
           b5 == b4 \o Tlv(5, v[5])
<1>12. IsLayout(b2, at, v, 2)
  <2>1. IsLayout(Tlv(1, v[1]) \o Tlv(1 + 1, v[1 + 1]), at, v, 1 + 1)
    BY <1>9, <1>11
  <2> QED BY <1>10, <2>1
<1> HIDE DEF b2
<1>13. IsLayout(b3, at, v, 3)
  <2>1. IsLayout(b2 \o Tlv(2 + 1, v[2 + 1]), at, v, 2 + 1)
    BY <1>9, <1>12
  <2> QED BY <1>10, <2>1
<1> HIDE DEF b3
<1>14. IsLayout(b4, at, v, 4)
  <2>1. IsLayout(b3 \o Tlv(3 + 1, v[3 + 1]), at, v, 3 + 1)
    BY <1>9, <1>13
  <2> QED BY <1>10, <2>1
<1> HIDE DEF b4
<1>15. IsLayout(b5, at, v, 5)
  <2>1. IsLayout(b4 \o Tlv(4 + 1, v[4 + 1]), at, v, 4 + 1)
    BY <1>9, <1>14
  <2> QED BY <1>10, <2>1
<1>16. payload = b5
  BY <1>6 DEF b2, b3, b4
<1> QED BY <1>7, <1>15, <1>16 DEF v

\* What the decoder makes of one reading.
LEMMA DecodeOne ==
    ASSUME NEW buffer, NEW w, ReadTlvs(buffer) = {w}, w = [k \in 1 .. 5 |-> w[k]]
    PROVE  DecodePayload(buffer) = IF \E k \in 1 .. 5 : w[k] = <<>> THEN {} ELSE {w}
<1>1. DOMAIN w = 1 .. 5
  OBVIOUS
<1>2. DecodePayload(buffer) =
        {[tag \in 1 .. 5 |-> x[tag]] :
           x \in {x \in {w} : \A tag \in 1 .. 5 : tag \in DOMAIN x /\ x[tag] # <<>>}}
  BY FiveTags DEF DecodePayload
<1>3. CASE \E k \in 1 .. 5 : w[k] = <<>>
  BY <1>2, <1>3
<1>4. CASE \A k \in 1 .. 5 : w[k] # <<>>
  <2>1. {x \in {w} : \A tag \in 1 .. 5 : tag \in DOMAIN x /\ x[tag] # <<>>} = {w}
    BY <1>1, <1>4
  <2> QED BY <1>2, <1>4, <2>1
<1> QED BY <1>3, <1>4

\* What is written for five texts reads back, and nothing does once the end is
\* lost.
LEMMA RoundTrip ==
    ASSUME NEW fields, \A k \in 1 .. 5 : fields[ZatcaTags[k]] \in Utf8Texts,
           NEW payload \in BuildPayload(fields)
    PROVE  /\ DecodePayload(payload) =
                IF \E k \in 1 .. 5 : fields[ZatcaTags[k]] = <<>> THEN {}
                ELSE {Written(fields)}
           /\ \A n \in 0 .. Len(payload) - 1 : DecodePayload(SubSeq(payload, 1, n)) = {}
<1> DEFINE w == Written(fields)
<1>1. PICK at : Offsets(at, w) /\ IsLayout(payload, at, w, 5)
  BY PayloadLayout
<1>2. w = [k \in 1 .. 5 |-> w[k]]
  BY DEF Written
<1>3. ReadTlvs(payload) = {w}
  <2> HIDE DEF w
  <2> QED BY <1>1, <1>2, ReadWhole
<1>4. \A k \in 1 .. 5 : w[k] = <<>> <=> fields[ZatcaTags[k]] = <<>>
  BY BytesType DEF Written
<1>5. DecodePayload(payload) = IF \E k \in 1 .. 5 : w[k] = <<>> THEN {} ELSE {w}
  <2> HIDE DEF w
  <2> QED BY <1>2, <1>3, DecodeOne
<1>6. ASSUME NEW n \in 0 .. Len(payload) - 1 PROVE DecodePayload(SubSeq(payload, 1, n)) = {}
  <2>1. \A x \in ReadTlvs(SubSeq(payload, 1, n)) : 5 \notin DOMAIN x
    <3> HIDE DEF w
    <3> QED BY <1>1, ReadCut
  <2> QED BY <2>1, FiveTags DEF DecodePayload
<1> HIDE DEF w
<1> QED BY <1>4, <1>5, <1>6 DEF w

\* What a scanner reads from the code of an invoice is, byte for byte, what the
\* invoice says, for any texts and any length a byte may hold, and a payload
\* that lost its end is never mistaken for a whole one (buildZatcaQrPayloadBase64,
\* decodeZatcaQrPayloadBase64).
THEOREM CodesReadBack == InvoicingSpec => []QrReadsBack
<1>1. ASSUME InvoicingTypeOK PROVE QrReadsBack
  <2> SUFFICES ASSUME NEW o \in Issued, NEW payload \in QrPayload(o)
               PROVE  LET fields == QrFields(o)
                          blank  == \E f \in DOMAIN fields : fields[f] = <<>>
                      IN  /\ DecodePayload(payload) =
                               IF blank THEN {}
                               ELSE {[tag \in DOMAIN ZatcaTags |-> Bytes(fields[ZatcaTags[tag]])]}
                          /\ \A n \in 0 .. (Len(payload) - 1) :
                               DecodePayload(SubSeq(payload, 1, n)) = {}
    BY DEF QrReadsBack
  <2> DEFINE fields == QrFields(o)
  <2>1. o \in Captured /\ invoice[o].sellerName \in Utf8Texts
        /\ invoice[o].vatRegistrationNumber \in Utf8Texts
    BY <1>1 DEF Issued, InvoicingTypeOK
  <2>2. Printed[o] \in [{"invoiceTimestamp", "invoiceTotalWithVat", "vatTotal"} -> Utf8Texts]
    BY <2>1, InvoicingAssumption
  <2>3. /\ DOMAIN fields = {"sellerName", "vatRegistrationNumber", "invoiceTimestamp",
                            "invoiceTotalWithVat", "vatTotal"}
        /\ \A f \in DOMAIN fields : fields[f] \in Utf8Texts
    BY <2>1, <2>2 DEF QrFields, FieldsWith
  <2> HIDE DEF fields
  <2>4. \A k \in 1 .. 5 : ZatcaTags[k] \in DOMAIN fields
    BY <2>3, FiveTags
  <2>5. \A f \in DOMAIN fields : \E k \in 1 .. 5 : f = ZatcaTags[k]
    BY <2>3, FiveTags
  <2>6. payload \in BuildPayload(fields)
    BY DEF QrPayload, fields
  <2>7. /\ DecodePayload(payload) =
             IF \E k \in 1 .. 5 : fields[ZatcaTags[k]] = <<>> THEN {} ELSE {Written(fields)}
        /\ \A n \in 0 .. Len(payload) - 1 : DecodePayload(SubSeq(payload, 1, n)) = {}
    BY <2>3, <2>4, <2>6, RoundTrip
  <2>8. (\E k \in 1 .. 5 : fields[ZatcaTags[k]] = <<>>) <=> \E f \in DOMAIN fields : fields[f] = <<>>
    BY <2>4, <2>5
  <2>9. Written(fields) = [tag \in DOMAIN ZatcaTags |-> Bytes(fields[ZatcaTags[tag]])]
    BY FiveTags DEF Written
  <2> QED BY <2>7, <2>8, <2>9 DEF fields
<1> QED BY <1>1, InvoicingTypes, PTL
================================================================================
