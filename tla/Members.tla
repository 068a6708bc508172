------------------------------- MODULE Members -------------------------------
(***************************************************************************)
(* The members of one organization and its invitations:                    *)
(* MembersService.invite, changeRole and remove, and                       *)
(* OrganizationService.revokeInvitation.                                   *)
(*                                                                         *)
(* A call reads its actor, its target and the number of owners one after   *)
(* the other, asks for a step-up code, and only then opens the transaction *)
(* that writes; nothing is read again in it.  The calls of several members *)
(* interleave between these steps.  Module Account has the step-up itself: *)
(* here it lets a call go on or not.                                       *)
(*                                                                         *)
(* No code accepts an invitation or grants money authority: the first are  *)
(* open or revoked, the second is held from the start or never.            *)
(***************************************************************************)
EXTENDS Integers, FiniteSets

CONSTANTS
  User,
  FirstRole,    \* FirstRole[u]: the role a user starts with
  Trusted,      \* users that hold money authority at the start
  Address,      \* addresses that are invited
  AddressOf,    \* AddressOf[a]: the user with that address
  Call,         \* the calls that are made
  Nobody

Role == {"member", "admin", "owner"}

\* Higher outranks lower.  A user outside of the organization is below all.
RANK == [none |-> -1, member |-> 0, admin |-> 1, owner |-> 2]

ASSUME MembersAssumption ==
  /\ FirstRole \in [User -> Role \cup {"none"}]
  /\ \E u \in User : FirstRole[u] = "owner"
  /\ \A u \in Trusted : u \in User /\ FirstRole[u] # "none"
  /\ AddressOf \in [Address -> User \cup {Nobody}]
  /\ Nobody \notin User

VARIABLES
  role,         \* member.role, "none" without a row
  authority,    \* users with a money_authority that is not revoked
  signedIn,     \* users with a session
  invitations,  \* calls that wrote an invitation
  open,         \* those of them that are not revoked
  pc,           \* how far each call has come
  job           \* what it was asked and what it has read

memberVars == <<role, authority, signedIn>>
invitationVars == <<invitations, open>>
vars == <<memberVars, invitationVars, pc, job>>

Members == {u \in User : role[u] # "none"}
Owners == {u \in User : role[u] = "owner"}

NoJob == [actor |-> Nobody, as |-> "none", target |-> Nobody, was |-> "none",
          to |-> "none", owners |-> {}, address |-> Nobody, known |-> {}]

Init ==
  /\ role = FirstRole
  /\ authority = Trusted
  /\ signedIn = Members
  /\ invitations = {} /\ open = {}
  /\ pc = [q \in Call |-> "new"]
  /\ job = [q \in Call |-> NoJob]

Moves(q, from, to) ==
  /\ pc[q] = from
  /\ pc' = [pc EXCEPT ![q] = to]

Reads(q, from, to, j) ==
  /\ Moves(q, from, to)
  /\ job' = [job EXCEPT ![q] = j]
  /\ UNCHANGED <<memberVars, invitationVars>>

\* PermissionGuard and the read of the actor.
MayAct(u, asked) ==
  /\ u \in signedIn
  /\ role[u] \in {"admin", "owner"}
  /\ RANK[asked] <= RANK[role[u]]

\* assertCanGrantRole, for the role the target has.
CanActOn(q, u) == RANK[role[u]] <= RANK[job[q].as]

\* isLastOwner, for the role the target had when it was read.
IsLastOwner(q) == job[q].was = "owner" /\ Cardinality(Owners) <= 1

-----------------------------------------------------------------------------
(* changeRole and remove: a role "none" asks for the removal               *)

LoadActor(q, u, asked) ==
  /\ MayAct(u, asked)
  /\ Reads(q, "new", "acting", [NoJob EXCEPT !.actor = u, !.as = role[u], !.to = asked])

\* Mistake: the rank of the target is not looked at.
LoadAnyTarget(q, u) ==
  /\ role[u] # "none"
  /\ job[q].to # "none" => u # job[q].actor
  /\ Reads(q, "acting", "aimed", [job[q] EXCEPT !.target = u, !.was = role[u]])

\* Nobody changes a role of their own; anybody may leave.
LoadTarget(q, u) ==
  /\ role[u] # "none"
  /\ job[q].to # "none" => u # job[q].actor
  /\ CanActOn(q, u)
  /\ Reads(q, "acting", "aimed", [job[q] EXCEPT !.target = u, !.was = role[u]])

\* Mistake: the owners are not counted.
CountNothing(q) == Reads(q, "aimed", "counted", [job[q] EXCEPT !.owners = Owners])

CountOwners(q) ==
  /\ ~IsLastOwner(q)
  /\ Reads(q, "aimed", "counted", [job[q] EXCEPT !.owners = Owners])

\* No such member or not one to act on, the last owner, or a wrong code.
Refused(q) ==
  /\ \E l \in {"acting", "aimed", "counted"} : Moves(q, l, "refused")
  /\ pc[q] = "aimed" => IsLastOwner(q)
  /\ UNCHANGED <<memberVars, invitationVars, job>>

IsDowngrade(q) == RANK[job[q].to] < RANK[job[q].was]

\* Mistake: what came with the role stays.
ChangeOnly(q) ==
  LET u == job[q].target
  IN  /\ Moves(q, "counted", "changed")
      /\ job[q].to # "none" /\ role[u] # "none"
      /\ role' = [role EXCEPT ![u] = job[q].to]
      /\ UNCHANGED <<authority, signedIn, invitationVars, job>>

\* The transaction of changeRole.  Whether it is a downgrade is seen from the
\* role that was read before the step-up.
ChangeRole(q) ==
  LET u == job[q].target
      taken == IF IsDowngrade(q) THEN {u} ELSE {}
  IN  /\ Moves(q, "counted", "changed")
      /\ job[q].to # "none" /\ role[u] # "none"
      /\ role' = [role EXCEPT ![u] = job[q].to]
      /\ authority' = authority \ taken
      /\ signedIn' = signedIn \ taken
      /\ UNCHANGED <<invitationVars, job>>

\* The transaction of remove.
Remove(q) ==
  LET u == job[q].target
  IN  /\ Moves(q, "counted", "changed")
      /\ job[q].to = "none" /\ role[u] # "none"
      /\ role' = [role EXCEPT ![u] = "none"]
      /\ authority' = authority \ {u}
      /\ signedIn' = signedIn \ {u}
      /\ UNCHANGED <<invitationVars, job>>

\* The row is gone, and the transaction rolls back.
TargetGone(q) ==
  /\ Moves(q, "counted", "refused")
  /\ role[job[q].target] = "none"
  /\ UNCHANGED <<memberVars, invitationVars, job>>

-----------------------------------------------------------------------------
(* invite and revokeInvitation                                             *)

LoadInviter(q, u, a, asked) ==
  /\ asked # "none" /\ MayAct(u, asked)
  /\ Reads(q, "new", "inviting",
           [NoJob EXCEPT !.actor = u, !.as = role[u], !.to = asked, !.address = a])

IsMember(a) == AddressOf[a] \in Members

OpenTo(a) == {p \in open : job[p].address = a}

\* The look for a member with the address, a statement before the revocation.
CheckMember(q) ==
  /\ Moves(q, "inviting", "clear")
  /\ ~IsMember(job[q].address)
  /\ UNCHANGED <<memberVars, invitationVars, job>>

\* Mistake: what is open stays open.
SupersedeNone(q) ==
  Reads(q, "clear", "superseded", [job[q] EXCEPT !.known = invitations])

\* What is open to the address is revoked.
Supersede(q) ==
  /\ Moves(q, "clear", "superseded")
  /\ open' = open \ OpenTo(job[q].address)
  /\ job' = [job EXCEPT ![q].known = invitations]
  /\ UNCHANGED <<memberVars, invitations>>

AlreadyMember(q) ==
  /\ Moves(q, "inviting", "refused")
  /\ IsMember(job[q].address)
  /\ UNCHANGED <<memberVars, invitationVars, job>>

Invite(q) ==
  /\ Moves(q, "superseded", "invited")
  /\ invitations' = invitations \cup {q}
  /\ open' = open \cup {q}
  /\ UNCHANGED <<memberVars, job>>

\* revokeInvitation is one statement.
RevokeInvitation(u, p) ==
  /\ u \in signedIn /\ role[u] \in {"admin", "owner"}
  /\ p \in open
  /\ open' = open \ {p}
  /\ UNCHANGED <<memberVars, invitations, pc, job>>

\* Anybody with an account signs in, a member or not.
SignIn(u) ==
  /\ u \notin signedIn
  /\ signedIn' = signedIn \cup {u}
  /\ UNCHANGED <<role, authority, invitationVars, pc, job>>

Aims(q) ==
  \/ \E u \in User, asked \in Role \cup {"none"} : LoadActor(q, u, asked)
  \/ \E u \in User : LoadTarget(q, u)
  \/ CountOwners(q) \/ Refused(q)

Writes(q) == ChangeRole(q) \/ Remove(q) \/ TargetGone(q)

Invites(q) ==
  \/ \E u \in User, a \in Address, asked \in Role : LoadInviter(q, u, a, asked)
  \/ CheckMember(q) \/ AlreadyMember(q) \/ Supersede(q) \/ Invite(q)

Next ==
  \/ \E q \in Call : Aims(q) \/ Writes(q) \/ Invites(q)
  \/ \E u \in User : SignIn(u) \/ \E p \in Call : RevokeInvitation(u, p)

Spec == Init /\ [][Next]_vars

-----------------------------------------------------------------------------
Progress == {"new", "acting", "aimed", "counted", "changed",
             "inviting", "clear", "superseded", "invited", "refused"}

Job == [actor : User \cup {Nobody}, as : Role \cup {"none"},
        target : User \cup {Nobody}, was : Role \cup {"none"}, to : Role \cup {"none"},
        owners : SUBSET User, address : Address \cup {Nobody}, known : SUBSET Call]

\* The variables have their types, and money authority hangs on a member's row.
MembersTypeOK ==
  /\ role \in [User -> Role \cup {"none"}]
  /\ authority \subseteq Members
  /\ signedIn \subseteq User
  /\ invitations \subseteq Call /\ open \subseteq invitations
  /\ pc \in [Call -> Progress]
  /\ job \in [Call -> Job]

\* The step in which a call writes what it was asked for.
Carried(q) == pc[q] = "counted" /\ pc'[q] = "changed"

\* The target has another role than the call has read.
Outrun(q) == role[job[q].target] # job[q].was

\* "An organization must keep at least one owner": the last one goes only by a
\* call that counted more owners than there are when it writes, or whose target
\* became an owner after it was read.
OwnerRemains ==
  [][Owners # {} /\ Owners' = {} =>
       \E q \in Call : Carried(q) /\ (Outrun(q) \/ Owners # job[q].owners)]_vars

\* Losing rank means losing the sessions and the money authority that came with
\* it, also when calls cross, as long as the role that was read is the one that
\* is taken.
DemotionTakesAll ==
  [][\A u \in User : RANK[role'[u]] < RANK[role[u]] =>
       \/ u \notin authority' /\ u \notin signedIn'
       \/ \E q \in Call : Carried(q) /\ job[q].target = u /\ Outrun(q)]_vars

\* A role changes by a call of somebody who, when the call read them, was at
\* least of the rank it takes and of the rank it gives; and a member changes
\* their own only by leaving.
RankRespected ==
  [][\A u \in User : role'[u] # role[u] =>
       \E q \in Call :
         /\ Carried(q) /\ job[q].target = u
         /\ \/ Outrun(q)
            \/ /\ RANK[role[u]] <= RANK[job[q].as] /\ RANK[role'[u]] <= RANK[job[q].as]
               /\ u = job[q].actor => role'[u] = "none"]_vars

\* Of two invitations that are open to one address, neither was there when the
\* other revoked what was open: "two open invitations at different roles mean
\* whichever is accepted decides the role".
OneInvitation ==
  \A p, q \in open : job[p].address = job[q].address => p \notin job[q].known
=============================================================================
