------------------------------ MODULE Membership -----------------------------
(***************************************************************************)
(* Who belongs to a team, and which machines (team-cell.ts: bootstrap,     *)
(* createTeam, invitations, members, enrollment; team/invitations.ts,      *)
(* team/enrollment.ts, team/roles.ts).                                     *)
(*                                                                         *)
(* Every request waits for the hash of a token; roles are checked before   *)
(* that wait when a token is made, tokens are looked up after it when one  *)
(* is used, and an enrollment waits once more, for the hash of its         *)
(* credential.  Time is seen only in tokens that expire.                   *)
(***************************************************************************)
EXTENDS Integers, FiniteSets, FiniteSetsExt

CONSTANTS
    User,
    Nobody,       \* accepted_by NULL, no creator
    Invite,       \* ids of invitations
    Token,        \* ids of enrollment tokens
    Request,      \* requests the cell serves at a time
    Idle,         \* no request
    MaxMachines   \* bound: machines enrolled with a token

Role == {"owner", "admin", "member", "viewer"}

\* The roles an invitation can give.
Invited == Role \ {"owner"}
Invitation == [state : {"none", "open", "revoked", "accepted"}, role : Invited,
               acceptedBy : User \cup {Nobody}]

\* What a request waits for, for whom, and what it is about.
Call ==
    [op : {"invite"}, by : User, on : Invited]
      \cup [op : {"token"}, by : User, on : {"token"}]
      \cup [op : {"enroll"}, by : {Nobody}, on : Token]

ASSUME NobodyAssumption == Nobody \notin User
ASSUME IdleAssumption == Idle \notin Call
ASSUME MachinesAssumption == MaxMachines \in Nat

VARIABLES
    creator,      \* teams: who made the team
    personal,     \* teams.personal_user_id is set
    role,         \* memberships
    invite,       \* invitations
    token,        \* enrollment_tokens: none, open or revoked
    expired,      \* invitations and tokens whose time is over
    machines,     \* machines, counted by the token that enrolled them
    call,         \* requests that wait for a hash
    admitted,     \* history: the users an invitation made members
    overlapped    \* history: tokens two enrollments held at a time

tables == <<creator, personal, role, invite, token, machines>>
history == <<admitted, overlapped>>
vars == <<tables, expired, call, history>>

\* roles.ts: ROLE_RANK, and -1 for no membership.
Rank(r) ==
    CASE r = "owner" -> 3 [] r = "admin" -> 2 [] r = "member" -> 1
      [] r = "viewer" -> 0 [] r = "none" -> -1
NoInvitation == [state |-> "none", role |-> "member", acceptedBy |-> Nobody]

Init ==
    /\ creator = Nobody /\ personal = FALSE
    /\ role = [u \in User |-> "none"]
    /\ invite = [i \in Invite |-> NoInvitation]
    /\ token = [t \in Token |-> "none"]
    /\ expired = {}
    /\ machines = [t \in Token |-> 0]
    /\ call = [r \in Request |-> Idle]
    /\ admitted = [i \in Invite |-> {}]
    /\ overlapped = {}

\* requireRole; canManageInvitations and canManageMachines ask for an admin.
RequireMembership(u, minimum) == Rank(role[u]) >= Rank(minimum)

------------------------------------------------------------------------------
(* The team *)

\* Its user is the owner, unless there is a membership already.
EnsureOwnerMembership(u) ==
    role' = IF role[u] = "none" THEN [role EXCEPT ![u] = "owner"] ELSE role

\* The first access of a user makes the team, a later one may find it.
BootstrapPersonal(u) ==
    /\ creator = Nobody \/ (personal /\ creator = u)
    /\ creator' = u
    /\ personal' = TRUE
    /\ EnsureOwnerMembership(u)
    /\ UNCHANGED <<invite, token, machines, expired, call, history>>

CreateTeam(u) ==
    /\ creator = Nobody
    /\ creator' = u
    /\ role' = [role EXCEPT ![u] = "owner"]
    /\ UNCHANGED <<personal, invite, token, machines, expired, call, history>>

\* Mutant: the owners are counted without the one that goes.
RemovableWhile(u) == role[u] = "owner" => \E v \in User : role[v] = "owner"

\* The last owner stays.
Removable(u) ==
    role[u] = "owner" => Cardinality({v \in User : role[v] = "owner"}) > 1

RemoveMember(u, v) ==
    /\ RequireMembership(u, "admin")
    /\ role[v] # "none" /\ Removable(v)
    /\ role' = [role EXCEPT ![v] = "none"]
    /\ UNCHANGED <<creator, personal, invite, token, machines, expired, call, history>>

------------------------------------------------------------------------------
(* Invitations *)

Waits(r, op, u, x) == call' = [call EXCEPT ![r] = [op |-> op, by |-> u, on |-> x]]
Returns(r) == call' = [call EXCEPT ![r] = Idle]

\* createInvitation up to the hash of its token.
CreateInvitation(r, u) ==
    /\ call[r] = Idle
    /\ RequireMembership(u, "admin")
    /\ \E as \in Invited : Waits(r, "invite", u, as)
    /\ UNCHANGED <<tables, expired, history>>

InsertInvitation(r, i) ==
    /\ call[r] # Idle /\ call[r].op = "invite"
    /\ invite[i].state = "none"
    /\ invite' = [invite EXCEPT ![i] =
                   [state |-> "open", role |-> call[r].on, acceptedBy |-> Nobody]]
    /\ Returns(r)
    /\ UNCHANGED <<creator, personal, role, token, machines, expired, history>>

\* Mutant: a second user may accept.
AcceptableAgain(i) ==
    invite[i].state \in {"open", "accepted"} /\ i \notin expired

\* invitationIsAcceptable
Acceptable(i) == invite[i].state = "open" /\ i \notin expired

\* acceptInvitation after its hash.  A member gets an answer, and the
\* invitation stays open.
AcceptInvitation(u, i) ==
    /\ Acceptable(i) /\ role[u] = "none"
    /\ role' = [role EXCEPT ![u] = invite[i].role]
    /\ invite' = [invite EXCEPT ![i].state = "accepted", ![i].acceptedBy = u]
    /\ admitted' = [admitted EXCEPT ![i] = @ \cup {u}]
    /\ UNCHANGED <<creator, personal, token, machines, expired, call, overlapped>>

\* Mutant: an accepted invitation can be revoked.
RevocableAlways(i) == invite[i].state \in {"open", "accepted"}

\* Once it is revoked, revoking it again answers the same.
Revocable(i) == invite[i].state = "open"

RevokeInvitation(u, i) ==
    /\ RequireMembership(u, "admin")
    /\ Revocable(i)
    /\ invite' = [invite EXCEPT ![i].state = "revoked"]
    /\ UNCHANGED <<creator, personal, role, token, machines, expired, call, history>>

------------------------------------------------------------------------------
(* Machines *)

CreateEnrollmentToken(r, u) ==
    /\ call[r] = Idle
    /\ RequireMembership(u, "admin")
    /\ Waits(r, "token", u, "token")
    /\ UNCHANGED <<tables, expired, history>>

InsertToken(r, t) ==
    /\ call[r] # Idle /\ call[r].op = "token"
    /\ token[t] = "none"
    /\ token' = [token EXCEPT ![t] = "open"]
    /\ Returns(r)
    /\ UNCHANGED <<creator, personal, role, invite, machines, expired, history>>

\* Mutant: a token enrolls machines until it expires.
UsableUntilExpiry(t) == token[t] # "none" /\ t \notin expired

\* enrollmentTokenIsUsable
Usable(t) == token[t] = "open" /\ t \notin expired

Enrolling(t) == {r \in Request : call[r] # Idle /\ call[r].op = "enroll" /\ call[r].on = t}

\* enrollMachine after the hash of its token, up to that of the credential.
EnrollMachine(r, t) ==
    /\ call[r] = Idle
    /\ Usable(t)
    /\ Waits(r, "enroll", Nobody, t)
    /\ overlapped' = IF Enrolling(t) # {} THEN overlapped \cup {t} ELSE overlapped
    /\ UNCHANGED <<tables, expired, admitted>>

InsertMachine(r) ==
    /\ call[r] # Idle /\ call[r].op = "enroll"
    /\ LET t == call[r].on IN
       /\ machines[t] < MaxMachines
       /\ machines' = [machines EXCEPT ![t] = @ + 1]
       /\ token' = [token EXCEPT ![t] = "revoked"]
    /\ Returns(r)
    /\ UNCHANGED <<creator, personal, role, invite, expired, history>>

------------------------------------------------------------------------------

\* The time of an invitation or a token is over.
Expire(x) ==
    /\ x \notin expired
    /\ \/ x \in Invite /\ invite[x].state # "none"
       \/ x \in Token /\ token[x] # "none"
    /\ expired' = expired \cup {x}
    /\ UNCHANGED <<tables, call, history>>

\* The isolate is lost, and the requests that wait with it.
Crash ==
    /\ \E r \in Request : call[r] # Idle
    /\ call' = [r \in Request |-> Idle]
    /\ UNCHANGED <<tables, expired, history>>

\* fetch: the routes of the team.
Serve ==
    \/ \E u \in User : BootstrapPersonal(u) \/ CreateTeam(u)
    \/ \E u, v \in User : RemoveMember(u, v)
    \/ \E u \in User, i \in Invite : AcceptInvitation(u, i) \/ RevokeInvitation(u, i)
    \/ \E r \in Request, u \in User :
         CreateInvitation(r, u) \/ CreateEnrollmentToken(r, u)
    \/ \E r \in Request, t \in Token : EnrollMachine(r, t)

\* A hash is there.
Resume ==
    \E r \in Request :
      \/ \E i \in Invite : InsertInvitation(r, i)
      \/ \E t \in Token : InsertToken(r, t)
      \/ InsertMachine(r)

Next == Serve \/ Resume \/ (\E x \in Invite \cup Token : Expire(x)) \/ Crash

Spec == Init /\ [][Next]_vars

------------------------------------------------------------------------------

\* Every variable has its type.
TypeOK ==
    /\ creator \in User \cup {Nobody} /\ personal \in BOOLEAN
    /\ role \in [User -> Role \cup {"none"}]
    /\ invite \in [Invite -> Invitation]
    /\ token \in [Token -> {"none", "open", "revoked"}]
    /\ expired \subseteq Invite \cup Token
    /\ machines \in [Token -> 0 .. MaxMachines]
    /\ call \in [Request -> Call \cup {Idle}]
    /\ admitted \in [Invite -> SUBSET User]
    /\ overlapped \subseteq Token

\* A team has one owner and it is who made it, whatever admins remove and
\* invitations give (removeMember, createInvitation, ensureOwnerMembership).
OwnerStays == \A u \in User : role[u] = "owner" <=> u = creator

\* Each member but the owner is the one user an invitation was accepted by, and
\* has no more than that invitation's role: no order of invitations, removals
\* and returns gives a membership nobody was invited to (acceptInvitation).
MembersWereInvited ==
    \A u \in User : role[u] # "none" /\ u # creator =>
      \E i \in Invite : /\ invite[i].state = "accepted"
                        /\ invite[i].acceptedBy = u
                        /\ invite[i].role = role[u]

\* An invitation makes one user a member at most, the one it names, and a
\* revoked one none (acceptInvitation, revokeInvitation).
AdmitsOne ==
    \A i \in Invite :
      admitted[i] = IF invite[i].state = "accepted" THEN {invite[i].acceptedBy} ELSE {}

\* A token enrolls a second machine only when two enrollments waited for the
\* hashes of their credentials at a time (enrollMachine).
SecondEnrollOverlaps == \A t \in Token : machines[t] > 1 => t \in overlapped
==============================================================================
