---------------------------- MODULE MembershipProofs --------------------------
(***************************************************************************)
(* Proofs about Membership, for every set of users, invitations, tokens    *)
(* and requests that wait for a hash.                                      *)
(*                                                                         *)
(* What makes the roles hold is NoTeamYet: before the team is made nobody  *)
(* has a role, so nobody can issue an invitation, and the first access     *)
(* finds no membership that would keep its user from being the owner.      *)
(* What makes the tokens hold is OneEnrollment: unless two enrollments of  *)
(* a token overlapped, the one that revokes it is the only one there was.  *)
(***************************************************************************)
EXTENDS Membership, TLAPS, FiniteSetTheorems

USE NobodyAssumption, IdleAssumption, MachinesAssumption

NoTeamYet ==
    creator = Nobody =>
      /\ \A u \in User : role[u] = "none"
      /\ \A i \in Invite : invite[i].state = "none"
      /\ \A r \in Request : call[r] # Idle => call[r].op # "invite"

OneEnrollment ==
    \A t \in Token : t \notin overlapped =>
      /\ \A r, q \in Enrolling(t) : r = q
      /\ machines[t] <= 1
      /\ machines[t] >= 1 => Enrolling(t) = {} /\ token[t] = "revoked"

RoleInv == TypeOK /\ NoTeamYet /\ OwnerStays

------------------------------------------------------------------------------
(* Operators *)

(***************************************************************************)
(* roleAtLeast: who may do what an admin does is a member.                 *)
(***************************************************************************)
LEMMA AdminIsMember ==
  ASSUME TypeOK, NEW u \in User, RequireMembership(u, "admin")
  PROVE  role[u] # "none"
<1>1. Rank("none") = -1 /\ Rank("admin") = 2
  BY DEF Rank
<1> QED BY <1>1 DEF RequireMembership

(***************************************************************************)
(* A request that waits holds a call of one of the three kinds.            *)
(***************************************************************************)
LEMMA CallKinds ==
  ASSUME TypeOK, NEW r \in Request, call[r] # Idle
  PROVE  /\ call[r] \in Call
         /\ call[r].op = "invite" => call[r].on \in Invited
         /\ call[r].op = "enroll" => call[r].on \in Token
<1>1. call[r] \in Call
  BY DEF TypeOK
<1> QED BY <1>1 DEF Call

(***************************************************************************)
(* A request begins to wait.                                               *)
(***************************************************************************)
LEMMA WaitTyped ==
  ASSUME TypeOK, NEW r \in Request, NEW op, NEW u, NEW x, Waits(r, op, u, x),
         [op |-> op, by |-> u, on |-> x] \in Call
  PROVE  /\ call' \in [Request -> Call \cup {Idle}]
         /\ call'[r] = [op |-> op, by |-> u, on |-> x] /\ call'[r] # Idle
         /\ \A q \in Request \ {r} : call'[q] = call[q]
BY DEF TypeOK, Waits

(***************************************************************************)
(* A request returns.                                                      *)
(***************************************************************************)
LEMMA ReturnTyped ==
  ASSUME TypeOK, NEW r \in Request, Returns(r)
  PROVE  /\ call' \in [Request -> Call \cup {Idle}]
         /\ call'[r] = Idle
         /\ \A q \in Request \ {r} : call'[q] = call[q]
BY DEF TypeOK, Returns

------------------------------------------------------------------------------
(* Types *)

(* No team, no rows. *)
LEMMA InitTyped == Init => TypeOK
<1> SUFFICES ASSUME Init PROVE TypeOK
  OBVIOUS
<1>1. NoInvitation \in Invitation
  BY DEF NoInvitation, Invitation, Invited, Role
<1>2. /\ creator \in User \cup {Nobody} /\ personal \in BOOLEAN
      /\ role \in [User -> Role \cup {"none"}]
      /\ invite \in [Invite -> Invitation]
  BY <1>1 DEF Init
<1>3. /\ token \in [Token -> {"none", "open", "revoked"}]
      /\ machines \in [Token -> 0 .. MaxMachines]
      /\ call \in [Request -> Call \cup {Idle}]
  BY DEF Init
<1>4. /\ expired \subseteq Invite \cup Token
      /\ admitted \in [Invite -> SUBSET User]
      /\ overlapped \subseteq Token
  BY DEF Init
<1> QED BY <1>2, <1>3, <1>4 DEF TypeOK

(* Every handler keeps the types. *)
LEMMA NextTyped ==
  ASSUME TypeOK, [Next]_vars
  PROVE  TypeOK'
<1> USE DEF TypeOK
<1>1. ASSUME NEW u \in User, BootstrapPersonal(u)
      PROVE  TypeOK'
  BY <1>1 DEF BootstrapPersonal, EnsureOwnerMembership, Role, history
<1>2. ASSUME NEW u \in User, CreateTeam(u)
      PROVE  TypeOK'
  BY <1>2 DEF CreateTeam, Role, history
<1>3. ASSUME NEW u \in User, NEW v \in User, RemoveMember(u, v)
      PROVE  TypeOK'
  BY <1>3 DEF RemoveMember, history
<1>4. ASSUME NEW u \in User, NEW i \in Invite, AcceptInvitation(u, i)
      PROVE  TypeOK'
  <2>1. invite[i] \in Invitation /\ invite[i].role \in Role
    BY DEF Invitation, Invited
  <2>2. invite' \in [Invite -> Invitation]
    BY <1>4, <2>1 DEF AcceptInvitation, Invitation
  <2>3. role' \in [User -> Role \cup {"none"}]
    BY <1>4, <2>1 DEF AcceptInvitation
  <2> QED BY <1>4, <2>2, <2>3 DEF AcceptInvitation
<1>5. ASSUME NEW u \in User, NEW i \in Invite, RevokeInvitation(u, i)
      PROVE  TypeOK'
  <2>1. invite' \in [Invite -> Invitation]
    BY <1>5 DEF RevokeInvitation, Invitation
  <2> QED BY <1>5, <2>1 DEF RevokeInvitation, history
<1>6. ASSUME NEW r \in Request, NEW u \in User, CreateInvitation(r, u)
      PROVE  TypeOK'
  <2>1. PICK as \in Invited : Waits(r, "invite", u, as)
    BY <1>6 DEF CreateInvitation
  <2>2. call' \in [Request -> Call \cup {Idle}]
    BY <2>1, WaitTyped DEF Call
  <2> QED BY <1>6, <2>2 DEF CreateInvitation, tables, history
<1>7. ASSUME NEW r \in Request, NEW u \in User, CreateEnrollmentToken(r, u)
      PROVE  TypeOK'
  <2>1. call' \in [Request -> Call \cup {Idle}]
    BY <1>7, WaitTyped DEF Call, CreateEnrollmentToken
  <2> QED BY <1>7, <2>1 DEF CreateEnrollmentToken, tables, history
<1>8. ASSUME NEW r \in Request, NEW t \in Token, EnrollMachine(r, t)
      PROVE  TypeOK'
  <2>1. call' \in [Request -> Call \cup {Idle}]
    BY <1>8, WaitTyped DEF Call, EnrollMachine
  <2> QED BY <1>8, <2>1 DEF EnrollMachine, tables
<1>9. ASSUME NEW r \in Request, NEW i \in Invite, InsertInvitation(r, i)
      PROVE  TypeOK'
  <2>1. call' \in [Request -> Call \cup {Idle}]
    BY <1>9, ReturnTyped DEF InsertInvitation
  <2>2. call[r].on \in Invited
    BY <1>9, CallKinds DEF InsertInvitation
  <2>3. invite' \in [Invite -> Invitation]
    BY <1>9, <2>2 DEF InsertInvitation, Invitation
  <2> QED BY <1>9, <2>1, <2>3 DEF InsertInvitation, history
<1>10. ASSUME NEW r \in Request, NEW t \in Token, InsertToken(r, t)
       PROVE  TypeOK'
  <2>1. call' \in [Request -> Call \cup {Idle}]
    BY <1>10, ReturnTyped DEF InsertToken
  <2> QED BY <1>10, <2>1 DEF InsertToken, history
<1>11. ASSUME NEW r \in Request, InsertMachine(r)
       PROVE  TypeOK'
  <2>1. call' \in [Request -> Call \cup {Idle}]
    BY <1>11, ReturnTyped DEF InsertMachine
  <2>2. call[r].on \in Token
    BY <1>11, CallKinds DEF InsertMachine
  <2>3. /\ machines' \in [Token -> 0 .. MaxMachines]
        /\ token' \in [Token -> {"none", "open", "revoked"}]
    BY <1>11, <2>2 DEF InsertMachine
  <2> QED BY <1>11, <2>1, <2>3 DEF InsertMachine, history
<1>12. ASSUME NEW x \in Invite \cup Token, Expire(x)
       PROVE  TypeOK'
  BY <1>12 DEF Expire, tables, history
<1>13. ASSUME Crash
       PROVE  TypeOK'
  BY <1>13 DEF Crash, tables, history
<1>14. ASSUME UNCHANGED vars
       PROVE  TypeOK'
  BY <1>14 DEF vars, tables, history
<1> QED
  BY <1>1, <1>2, <1>3, <1>4, <1>5, <1>6, <1>7, <1>8, <1>9, <1>10, <1>11, <1>12,
     <1>13, <1>14
     DEF Next, Serve, Resume

(***************************************************************************)
(* The tables of a team and the requests that wait keep their types.       *)
(***************************************************************************)
THEOREM TypeCorrect == Spec => []TypeOK
BY InitTyped, NextTyped, PTL DEF Spec

------------------------------------------------------------------------------
(* Members *)

(* Before the team exists nobody has a role. *)
LEMMA InitRoles == Init => NoTeamYet /\ OwnerStays
BY DEF Init, NoTeamYet, OwnerStays, NoInvitation

(***************************************************************************)
(* The steps that make the team, and the removal of a member.              *)
(***************************************************************************)
LEMMA RolesStep ==
  ASSUME RoleInv,
         \/ \E u \in User : BootstrapPersonal(u) \/ CreateTeam(u)
         \/ \E u, v \in User : RemoveMember(u, v)
  PROVE  NoTeamYet' /\ OwnerStays'
<1> USE DEF RoleInv
<1>1. ASSUME NEW u \in User, BootstrapPersonal(u)
      PROVE  NoTeamYet' /\ OwnerStays'
  <2>1. creator' = u
    BY <1>1 DEF BootstrapPersonal
  <2>2. CASE creator = Nobody
    <3>1. role[u] = "none"
      BY <2>2 DEF NoTeamYet
    <3>2. role' = [role EXCEPT ![u] = "owner"]
      BY <1>1, <3>1 DEF BootstrapPersonal, EnsureOwnerMembership
    <3> QED BY <2>1, <2>2, <3>2 DEF NoTeamYet, OwnerStays, TypeOK
  <2>3. CASE creator = u
    <3>1. role[u] = "owner"
      BY <2>3 DEF OwnerStays
    <3>2. role' = role
      BY <1>1, <3>1 DEF BootstrapPersonal, EnsureOwnerMembership
    <3> QED BY <2>1, <2>3, <3>2 DEF NoTeamYet, OwnerStays
  <2> QED BY <1>1, <2>2, <2>3 DEF BootstrapPersonal
<1>2. ASSUME NEW u \in User, CreateTeam(u)
      PROVE  NoTeamYet' /\ OwnerStays'
  BY <1>2 DEF CreateTeam, NoTeamYet, OwnerStays, TypeOK
<1>3. ASSUME NEW u \in User, NEW v \in User, RemoveMember(u, v)
      PROVE  NoTeamYet' /\ OwnerStays'
  <2>1. creator # Nobody
    BY <1>3 DEF RemoveMember, NoTeamYet
  <2>2. ASSUME v = creator
        PROVE  FALSE
    <3>1. {w \in User : role[w] = "owner"} = {v}
      BY <2>2 DEF OwnerStays
    <3>2. Cardinality({v}) = 1
      BY FS_Singleton
    <3>3. role[v] = "owner"
      BY <2>2 DEF OwnerStays
    <3> QED BY <1>3, <3>1, <3>2, <3>3 DEF RemoveMember, Removable
  <2>3. creator' = creator /\ role' = [role EXCEPT ![v] = "none"]
    BY <1>3 DEF RemoveMember
  <2> QED BY <2>1, <2>2, <2>3 DEF NoTeamYet, OwnerStays, TypeOK
<1> QED BY <1>1, <1>2, <1>3

(***************************************************************************)
(* The steps of invitations.                                               *)
(***************************************************************************)
LEMMA InvitationRoles ==
  ASSUME RoleInv,
         \/ \E u \in User, i \in Invite : AcceptInvitation(u, i) \/ RevokeInvitation(u, i)
         \/ \E r \in Request, u \in User : CreateInvitation(r, u)
         \/ \E r \in Request, i \in Invite : InsertInvitation(r, i)
  PROVE  NoTeamYet' /\ OwnerStays'
<1> USE DEF RoleInv
<1>1. ASSUME NEW u \in User, NEW i \in Invite, AcceptInvitation(u, i)
      PROVE  NoTeamYet' /\ OwnerStays'
  <2>1. creator # Nobody
    BY <1>1 DEF AcceptInvitation, Acceptable, NoTeamYet
  <2>2. u # creator
    BY <1>1 DEF AcceptInvitation, OwnerStays
  <2>3. invite[i].role # "owner"
    BY DEF TypeOK, Invitation, Invited
  <2>4. creator' = creator /\ role' = [role EXCEPT ![u] = invite[i].role]
    BY <1>1 DEF AcceptInvitation
  <2> QED BY <2>1, <2>2, <2>3, <2>4 DEF NoTeamYet, OwnerStays, TypeOK
<1>2. ASSUME NEW u \in User, NEW i \in Invite, RevokeInvitation(u, i)
      PROVE  NoTeamYet' /\ OwnerStays'
  BY <1>2, AdminIsMember DEF RevokeInvitation, NoTeamYet, OwnerStays
<1>3. ASSUME NEW r \in Request, NEW u \in User, CreateInvitation(r, u)
      PROVE  NoTeamYet' /\ OwnerStays'
  BY <1>3, AdminIsMember DEF CreateInvitation, NoTeamYet, OwnerStays, tables
<1>4. ASSUME NEW r \in Request, NEW i \in Invite, InsertInvitation(r, i)
      PROVE  NoTeamYet' /\ OwnerStays'
  BY <1>4 DEF InsertInvitation, NoTeamYet, OwnerStays
<1> QED BY <1>1, <1>2, <1>3, <1>4

(***************************************************************************)
(* The steps of machines, time and crashes change no role, and no request  *)
(* begins to wait for an invitation.                                       *)
(***************************************************************************)
LEMMA OtherRoles ==
  ASSUME RoleInv,
         \/ \E r \in Request, u \in User : CreateEnrollmentToken(r, u)
         \/ \E r \in Request, t \in Token : EnrollMachine(r, t) \/ InsertToken(r, t)
         \/ \E r \in Request : InsertMachine(r)
         \/ \E x \in Invite \cup Token : Expire(x)
         \/ Crash \/ UNCHANGED vars
  PROVE  NoTeamYet' /\ OwnerStays'
<1> USE DEF RoleInv
<1>1. creator' = creator /\ role' = role /\ invite' = invite
  BY DEF CreateEnrollmentToken, EnrollMachine, InsertToken, InsertMachine, Expire,
         Crash, vars, tables
<1>2. \A r \in Request : call'[r] # Idle /\ call'[r].op = "invite" => call'[r] = call[r]
  <2>1. ASSUME NEW r \in Request, NEW u \in User, CreateEnrollmentToken(r, u)
        PROVE  call' = [call EXCEPT ![r] = [op |-> "token", by |-> u, on |-> "token"]]
    BY <2>1 DEF CreateEnrollmentToken, Waits
  <2>2. ASSUME NEW r \in Request, NEW t \in Token, EnrollMachine(r, t)
        PROVE  call' = [call EXCEPT ![r] = [op |-> "enroll", by |-> Nobody, on |-> t]]
    BY <2>2 DEF EnrollMachine, Waits
  <2>3. ASSUME NEW r \in Request,
               InsertMachine(r) \/ \E t \in Token : InsertToken(r, t)
        PROVE  call' = [call EXCEPT ![r] = Idle]
    BY <2>3 DEF InsertMachine, InsertToken, Returns
  <2>4. ASSUME \/ \E x \in Invite \cup Token : Expire(x)
               \/ Crash \/ UNCHANGED vars
        PROVE  call' = call \/ call' = [r \in Request |-> Idle]
    BY <2>4 DEF Expire, Crash, vars
  <2> QED BY <2>1, <2>2, <2>3, <2>4 DEF TypeOK
<1> QED BY <1>1, <1>2 DEF NoTeamYet, OwnerStays

(* Every handler keeps the account of the roles. *)
LEMMA RolesKept ==
  ASSUME RoleInv, [Next]_vars
  PROVE  RoleInv'
<1>1. TypeOK'
  BY NextTyped DEF RoleInv
<1>2. NoTeamYet' /\ OwnerStays'
  BY RolesStep, InvitationRoles, OtherRoles DEF Next, Serve, Resume
<1> QED BY <1>1, <1>2 DEF RoleInv

(***************************************************************************)
(* The team has one owner, who made it, for ever (removeMember,            *)
(* ensureOwnerMembership, acceptInvitation).                               *)
(***************************************************************************)
THEOREM OwnerIsTheCreator == Spec => []OwnerStays
<1>1. Init => RoleInv
  BY InitTyped, InitRoles DEF RoleInv
<1>2. RoleInv /\ [Next]_vars => RoleInv'
  BY RolesKept
<1>3. RoleInv => OwnerStays
  BY DEF RoleInv
<1> QED BY <1>1, <1>2, <1>3, PTL DEF Spec

------------------------------------------------------------------------------
(* Invitations *)

InviteInv == RoleInv /\ MembersWereInvited /\ AdmitsOne

(***************************************************************************)
(* The steps that write neither a role nor an invitation.                  *)
(***************************************************************************)
LEMMA InvitesUntouched ==
  ASSUME InviteInv,
         creator' = creator, role' = role, invite' = invite, admitted' = admitted
  PROVE  MembersWereInvited' /\ AdmitsOne'
BY DEF InviteInv, MembersWereInvited, AdmitsOne

(* Every handler keeps the account of the invitations. *)
LEMMA InvitesKept ==
  ASSUME InviteInv, [Next]_vars
  PROVE  InviteInv'
<1> USE DEF InviteInv, RoleInv
<1>1. RoleInv'
  BY RolesKept
<1>2. ASSUME NEW u \in User, BootstrapPersonal(u)
      PROVE  MembersWereInvited' /\ AdmitsOne'
  <2>1. /\ creator' = u /\ invite' = invite /\ admitted' = admitted
        /\ \A v \in User \ {u} : role'[v] = role[v]
    BY <1>2 DEF BootstrapPersonal, EnsureOwnerMembership, TypeOK, history
  <2>2. creator = Nobody => \A v \in User : role[v] = "none"
    BY DEF NoTeamYet
  <2> QED BY <1>2, <2>1, <2>2 DEF BootstrapPersonal, MembersWereInvited, AdmitsOne
<1>3. ASSUME NEW u \in User, CreateTeam(u)
      PROVE  MembersWereInvited' /\ AdmitsOne'
  <2>1. /\ creator' = u /\ invite' = invite /\ admitted' = admitted
        /\ \A v \in User \ {u} : role'[v] = role[v] /\ role[v] = "none"
    BY <1>3 DEF CreateTeam, NoTeamYet, TypeOK, history
  <2> QED BY <2>1 DEF MembersWereInvited, AdmitsOne
<1>4. ASSUME NEW u \in User, NEW v \in User, RemoveMember(u, v)
      PROVE  MembersWereInvited' /\ AdmitsOne'
  <2>1. /\ creator' = creator /\ invite' = invite /\ admitted' = admitted
        /\ role' = [role EXCEPT ![v] = "none"]
    BY <1>4 DEF RemoveMember, history
  <2> QED BY <2>1 DEF MembersWereInvited, AdmitsOne, TypeOK
<1>5. ASSUME NEW u \in User, NEW i \in Invite, AcceptInvitation(u, i)
      PROVE  MembersWereInvited' /\ AdmitsOne'
  <2>1. invite[i].state = "open" /\ invite[i] \in Invitation
    BY <1>5 DEF AcceptInvitation, Acceptable, TypeOK
  <2>2. /\ creator' = creator /\ role' = [role EXCEPT ![u] = invite[i].role]
        /\ invite' = [invite EXCEPT ![i].state = "accepted", ![i].acceptedBy = u]
        /\ admitted' = [admitted EXCEPT ![i] = @ \cup {u}]
    BY <1>5 DEF AcceptInvitation
  <2>3. /\ invite'[i].state = "accepted" /\ invite'[i].acceptedBy = u
        /\ invite'[i].role = invite[i].role
        /\ \A j \in Invite \ {i} : invite'[j] = invite[j]
    BY <2>1, <2>2 DEF TypeOK, Invitation
  <2>4. MembersWereInvited'
    <3> SUFFICES ASSUME NEW v \in User, role'[v] # "none", v # creator
                 PROVE  \E j \in Invite : /\ invite'[j].state = "accepted"
                                          /\ invite'[j].acceptedBy = v
                                          /\ invite'[j].role = role'[v]
      BY <2>2 DEF MembersWereInvited
    <3>1. CASE v = u
      BY <3>1, <2>2, <2>3 DEF TypeOK
    <3>2. CASE v # u
      <4>1. role'[v] = role[v]
        BY <3>2, <2>2 DEF TypeOK
      <4>2. PICK j \in Invite : /\ invite[j].state = "accepted"
                                /\ invite[j].acceptedBy = v
                                /\ invite[j].role = role[v]
        BY <4>1 DEF MembersWereInvited
      <4>3. j # i
        BY <4>2, <2>1
      <4> QED BY <4>1, <4>2, <4>3, <2>3
    <3> QED BY <3>1, <3>2
  <2>5. AdmitsOne'
    <3>1. admitted[i] = {}
      BY <2>1 DEF AdmitsOne
    <3>2. admitted'[i] = {u} /\ \A j \in Invite \ {i} : admitted'[j] = admitted[j]
      BY <3>1, <2>2 DEF TypeOK
    <3> QED BY <3>2, <2>3 DEF AdmitsOne
  <2> QED BY <2>4, <2>5
<1>6. ASSUME NEW i \in Invite,
             \/ \E u \in User : RevokeInvitation(u, i)
             \/ \E r \in Request : InsertInvitation(r, i)
      PROVE  MembersWereInvited' /\ AdmitsOne'
  <2>1. /\ creator' = creator /\ role' = role /\ admitted' = admitted
        /\ invite[i].state # "accepted" /\ invite'[i].state # "accepted"
        /\ \A j \in Invite \ {i} : invite'[j] = invite[j]
    BY <1>6 DEF RevokeInvitation, Revocable, InsertInvitation, TypeOK, Invitation, history
  <2>2. MembersWereInvited'
    <3> SUFFICES ASSUME NEW u \in User, role[u] # "none", u # creator
                 PROVE  \E j \in Invite : /\ invite'[j].state = "accepted"
                                          /\ invite'[j].acceptedBy = u
                                          /\ invite'[j].role = role[u]
      BY <2>1 DEF MembersWereInvited
    <3>1. PICK j \in Invite : /\ invite[j].state = "accepted"
                              /\ invite[j].acceptedBy = u
                              /\ invite[j].role = role[u]
      BY DEF MembersWereInvited
    <3>2. invite'[j] = invite[j]
      BY <2>1, <3>1
    <3> QED BY <3>1, <3>2
  <2>3. AdmitsOne'
    <3> SUFFICES ASSUME NEW j \in Invite
                 PROVE  admitted[j] = IF invite'[j].state = "accepted"
                                        THEN {invite'[j].acceptedBy} ELSE {}
      BY <2>1 DEF AdmitsOne
    <3> QED BY <2>1 DEF AdmitsOne
  <2> QED BY <2>2, <2>3
<1>7. ASSUME \/ \E r \in Request, u \in User :
                  CreateInvitation(r, u) \/ CreateEnrollmentToken(r, u)
             \/ \E r \in Request, t \in Token : EnrollMachine(r, t) \/ InsertToken(r, t)
             \/ \E r \in Request : InsertMachine(r)
             \/ \E x \in Invite \cup Token : Expire(x)
             \/ Crash \/ UNCHANGED vars
      PROVE  MembersWereInvited' /\ AdmitsOne'
  <2>1. creator' = creator /\ role' = role /\ invite' = invite /\ admitted' = admitted
    BY <1>7 DEF CreateInvitation, CreateEnrollmentToken, EnrollMachine, InsertToken,
                InsertMachine, Expire, Crash, vars, tables, history
  <2> QED BY <2>1, InvitesUntouched
<1> QED
  BY <1>1, <1>2, <1>3, <1>4, <1>5, <1>6, <1>7 DEF Next, Serve, Resume

(* The account of the invitations as an invariant of the specification. *)
LEMMA InvitesHold == Spec => []InviteInv
<1>1. Init => InviteInv
  <2> SUFFICES ASSUME Init PROVE InviteInv
    OBVIOUS
  <2>1. MembersWereInvited /\ AdmitsOne
    BY DEF Init, NoInvitation, MembersWereInvited, AdmitsOne
  <2> QED BY <2>1, InitTyped, InitRoles DEF InviteInv, RoleInv
<1>2. InviteInv /\ [Next]_vars => InviteInv'
  BY InvitesKept
<1> QED BY <1>1, <1>2, PTL DEF Spec

(***************************************************************************)
(* A member was let in by an invitation that names it and the role it has  *)
(* (acceptInvitation, removeMember, revokeInvitation).                     *)
(***************************************************************************)
THEOREM MembershipIsByInvitation == Spec => []MembersWereInvited
<1>1. InviteInv => MembersWereInvited
  BY DEF InviteInv
<1> QED BY <1>1, InvitesHold, PTL

(***************************************************************************)
(* An invitation lets in one user, and none once it is revoked             *)
(* (acceptInvitation, revokeInvitation).                                   *)
(***************************************************************************)
THEOREM InvitationAdmitsOne == Spec => []AdmitsOne
<1>1. InviteInv => AdmitsOne
  BY DEF InviteInv
<1> QED BY <1>1, InvitesHold, PTL

------------------------------------------------------------------------------
(* Enrollment tokens *)

TokenInv == TypeOK /\ OneEnrollment

(***************************************************************************)
(* A step that writes no token and no machine, and after which no request  *)
(* enrolls that did not before.                                            *)
(***************************************************************************)
LEMMA TokensUntouched ==
  ASSUME TokenInv,
         machines' = machines, token' = token, overlapped' = overlapped,
         \A t \in Token : Enrolling(t)' \subseteq Enrolling(t)
  PROVE  OneEnrollment'
<1> SUFFICES ASSUME NEW t \in Token, t \notin overlapped
             PROVE  /\ \A r, q \in Enrolling(t)' : r = q
                    /\ machines[t] <= 1
                    /\ machines[t] >= 1 => Enrolling(t)' = {} /\ token[t] = "revoked"
  BY DEF OneEnrollment
<1> QED BY DEF TokenInv, OneEnrollment

(* Every handler keeps the account of the enrollment tokens. *)
LEMMA TokensKept ==
  ASSUME TokenInv, [Next]_vars
  PROVE  TokenInv'
<1> USE DEF TokenInv
<1>1. TypeOK'
  BY NextTyped
<1>2. ASSUME NEW r \in Request, NEW t \in Token, EnrollMachine(r, t)
      PROVE  OneEnrollment'
  <2>1. /\ call' = [call EXCEPT ![r] = [op |-> "enroll", by |-> Nobody, on |-> t]]
        /\ token[t] = "open" /\ token' = token /\ machines' = machines
        /\ overlapped' = IF Enrolling(t) # {} THEN overlapped \cup {t} ELSE overlapped
    BY <1>2 DEF EnrollMachine, Waits, Usable, tables
  <2>2. Enrolling(t)' = Enrolling(t) \cup {r}
    BY <2>1, <1>1 DEF TypeOK, Enrolling, Call
  <2>3. \A u \in Token \ {t} : Enrolling(u)' \subseteq Enrolling(u)
    BY <2>1 DEF TypeOK, Enrolling
  <2> SUFFICES ASSUME NEW u \in Token, u \notin overlapped'
               PROVE  /\ \A p, q \in Enrolling(u)' : p = q
                      /\ machines[u] <= 1
                      /\ machines[u] >= 1 => Enrolling(u)' = {} /\ token[u] = "revoked"
    BY <2>1 DEF OneEnrollment
  <2>4. u \notin overlapped
    BY <2>1
  <2>5. CASE u = t
    <3>1. Enrolling(t) = {}
      BY <2>1, <2>5
    <3>2. ~(machines[t] >= 1) /\ machines[t] <= 1
      BY <2>1, <2>4, <2>5 DEF OneEnrollment
    <3> QED BY <2>2, <2>5, <3>1, <3>2
  <2>6. CASE u # t
    BY <2>3, <2>4, <2>6 DEF OneEnrollment
  <2> QED BY <2>5, <2>6
<1>3. ASSUME NEW r \in Request, InsertMachine(r)
      PROVE  OneEnrollment'
  <2>0. PICK t \in Token : t = call[r].on
    BY <1>3, CallKinds DEF InsertMachine
  <2>1. r \in Enrolling(t)
    BY <1>3, <2>0 DEF InsertMachine, Enrolling
  <2>2. /\ call' = [call EXCEPT ![r] = Idle] /\ overlapped' = overlapped
        /\ machines' = [machines EXCEPT ![t] = @ + 1]
        /\ token' = [token EXCEPT ![t] = "revoked"]
    BY <1>3, <2>0 DEF InsertMachine, Returns, history
  <2>3. \A u \in Token : Enrolling(u)' = Enrolling(u) \ {r}
    BY <2>2 DEF TypeOK, Enrolling
  <2> SUFFICES ASSUME NEW u \in Token, u \notin overlapped
               PROVE  /\ \A p, q \in Enrolling(u)' : p = q
                      /\ machines'[u] <= 1
                      /\ machines'[u] >= 1 => Enrolling(u)' = {} /\ token'[u] = "revoked"
    BY <2>2 DEF OneEnrollment
  <2>4. CASE u = t
    <3>1. ~(machines[t] >= 1) /\ \A q \in Enrolling(t) : q = r
      BY <2>1, <2>4 DEF OneEnrollment
    <3>2. machines'[t] = 1 /\ token'[t] = "revoked"
      <4>1. machines[t] = 0
        BY <3>1, <2>1 DEF TypeOK
      <4> QED BY <4>1, <2>1, <2>2 DEF TypeOK
    <3>3. Enrolling(t)' = {}
      BY <3>1, <2>1, <2>3
    <3> QED BY <2>4, <3>2, <3>3
  <2>5. CASE u # t
    <3>1. machines'[u] = machines[u] /\ token'[u] = token[u]
      BY <2>2, <2>5 DEF TypeOK
    <3> QED BY <3>1, <2>3 DEF OneEnrollment
  <2> QED BY <2>4, <2>5
<1>4. ASSUME NEW r \in Request, NEW t \in Token, InsertToken(r, t)
      PROVE  OneEnrollment'
  <2>1. /\ call[r].op # "enroll" /\ call' = [call EXCEPT ![r] = Idle]
        /\ token[t] = "none" /\ token' = [token EXCEPT ![t] = "open"]
        /\ machines' = machines /\ overlapped' = overlapped
    BY <1>4 DEF InsertToken, Returns, history
  <2>2. \A u \in Token : Enrolling(u)' \subseteq Enrolling(u)
    BY <2>1 DEF TypeOK, Enrolling
  <2> SUFFICES ASSUME NEW u \in Token, u \notin overlapped
               PROVE  /\ \A p, q \in Enrolling(u)' : p = q
                      /\ machines[u] <= 1
                      /\ machines[u] >= 1 => Enrolling(u)' = {} /\ token'[u] = "revoked"
    BY <2>1 DEF OneEnrollment
  <2>3. machines[u] >= 1 => token'[u] = "revoked"
    BY <2>1 DEF OneEnrollment, TypeOK
  <2> QED BY <2>2, <2>3 DEF OneEnrollment
<1>5. ASSUME NEW r \in Request,
             \/ \E u \in User : CreateInvitation(r, u) \/ CreateEnrollmentToken(r, u)
             \/ \E i \in Invite : InsertInvitation(r, i)
      PROVE  OneEnrollment'
  <2>1. /\ machines' = machines /\ token' = token /\ overlapped' = overlapped
        /\ \E c : call' = [call EXCEPT ![r] = c] /\ (c = Idle \/ c.op # "enroll")
    BY <1>5 DEF CreateInvitation, CreateEnrollmentToken, InsertInvitation, Waits, Returns,
                tables, history
  <2>2. \A t \in Token : Enrolling(t)' \subseteq Enrolling(t)
    BY <2>1 DEF TypeOK, Enrolling
  <2> QED BY <2>1, <2>2, TokensUntouched
<1>6. ASSUME \/ \E u \in User : BootstrapPersonal(u) \/ CreateTeam(u)
             \/ \E u, v \in User : RemoveMember(u, v)
             \/ \E u \in User, i \in Invite :
                  AcceptInvitation(u, i) \/ RevokeInvitation(u, i)
             \/ \E x \in Invite \cup Token : Expire(x)
             \/ Crash \/ UNCHANGED vars
      PROVE  OneEnrollment'
  <2>1. /\ machines' = machines /\ token' = token /\ overlapped' = overlapped
        /\ call' = call \/ call' = [r \in Request |-> Idle]
    BY <1>6 DEF BootstrapPersonal, CreateTeam, RemoveMember, AcceptInvitation,
                RevokeInvitation, Expire, Crash, vars, tables, history
  <2>2. \A t \in Token : Enrolling(t)' \subseteq Enrolling(t)
    BY <2>1 DEF Enrolling
  <2> QED BY <2>1, <2>2, TokensUntouched
<1> QED
  BY <1>1, <1>2, <1>3, <1>4, <1>5, <1>6 DEF Next, Serve, Resume

(***************************************************************************)
(* A token that enrolled a second machine was held by two enrollments at a *)
(* time (enrollMachine).                                                   *)
(***************************************************************************)
THEOREM SecondUseIsAnOverlap == Spec => []SecondEnrollOverlaps
<1>1. Init => TokenInv
  <2> SUFFICES ASSUME Init PROVE TokenInv
    OBVIOUS
  <2>1. OneEnrollment
    BY DEF Init, OneEnrollment, Enrolling
  <2> QED BY <2>1, InitTyped DEF TokenInv
<1>2. TokenInv /\ [Next]_vars => TokenInv'
  BY TokensKept
<1>3. TokenInv => SecondEnrollOverlaps
  BY DEF TokenInv, OneEnrollment, SecondEnrollOverlaps, TypeOK
<1> QED BY <1>1, <1>2, <1>3, PTL DEF Spec
==============================================================================
