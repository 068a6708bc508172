---------------------------- MODULE MembersProofs ----------------------------
(***************************************************************************)
(* What holds of the members of an organization for every set of users,    *)
(* roles, addresses and calls.  The properties of steps follow from what a *)
(* call knows at each stage (Knows) and the one of the invitations from    *)
(* what was there when a call revoked (Supersedes).                        *)
(***************************************************************************)
EXTENDS Members, TLAPS, FiniteSetTheorems

Roles == Role \cup {"none"}

\* What a call has looked at by each stage.
Knows(q) ==
  /\ pc[q] \in {"acting", "aimed", "counted"} =>
       /\ job[q].as \in {"admin", "owner"}
       /\ RANK[job[q].to] <= RANK[job[q].as]
  /\ pc[q] \in {"aimed", "counted"} =>
       /\ job[q].target \in User /\ job[q].was \in Role
       /\ RANK[job[q].was] <= RANK[job[q].as]
       /\ job[q].to # "none" => job[q].target # job[q].actor
  /\ pc[q] = "counted" /\ job[q].was = "owner" => ~(Cardinality(job[q].owners) <= 1)

Known == \A q \in Call : Knows(q)

\* No invitation that was there when a call revoked is open to its address.
Supersedes(q) ==
  pc[q] \in {"superseded", "invited"} =>
    /\ job[q].known \subseteq invitations
    /\ \A p \in open : p \in job[q].known => job[p].address # job[q].address

Superseded ==
  /\ \A p \in Call : p \in invitations <=> pc[p] = "invited"
  /\ \A q \in Call : Supersedes(q)

-----------------------------------------------------------------------------
\* The ranks are numbers.
LEMMA RankIsInteger == \A r \in Roles : RANK[r] \in Int
  BY DEF Roles, Role, RANK

\* The steps of a call, one by one.
LEMMA NextCases ==
  ASSUME Next
  PROVE \/ \E q \in Call, u \in User, asked \in Roles : LoadActor(q, u, asked)
        \/ \E q \in Call, u \in User : LoadTarget(q, u)
        \/ \E q \in Call : CountOwners(q) \/ Refused(q)
        \/ \E q \in Call : ChangeRole(q) \/ Remove(q) \/ TargetGone(q)
        \/ \E q \in Call, u \in User, a \in Address, asked \in Role : LoadInviter(q, u, a, asked)
        \/ \E q \in Call : CheckMember(q) \/ AlreadyMember(q) \/ Supersede(q) \/ Invite(q)
        \/ \E u \in User : SignIn(u)
        \/ \E u \in User, p \in Call : RevokeInvitation(u, p)
  BY DEF Next, Aims, Writes, Invites, Roles

\* Type correctness: in every reachable state the variables have their types,
\* and money authority is held by members only.
THEOREM TypeCorrect == Spec => []MembersTypeOK
<1>1. Init => MembersTypeOK
  BY MembersAssumption DEF Init, MembersTypeOK, NoJob, Job, Members, Progress, Role
<1>2. MembersTypeOK /\ [Next]_vars => MembersTypeOK'
  <2> SUFFICES ASSUME MembersTypeOK, [Next]_vars PROVE MembersTypeOK'
    OBVIOUS
  <2> USE DEF MembersTypeOK
  <2>1. CASE UNCHANGED vars
    BY <2>1 DEF vars, memberVars, invitationVars, Members
  <2>2. ASSUME NEW q \in Call, NEW u \in User, NEW asked \in Roles, LoadActor(q, u, asked)
        PROVE MembersTypeOK'
    BY <2>2 DEF LoadActor, Reads, Moves, NoJob, Job, Progress, memberVars, invitationVars,
                Members, Roles
  <2>3. ASSUME NEW q \in Call, NEW u \in User, LoadTarget(q, u) PROVE MembersTypeOK'
    <3> DEFINE j == [job[q] EXCEPT !.target = u, !.was = role[u]]
    <3>1. job[q] \in Job /\ role[u] \in Role \cup {"none"}
      OBVIOUS
    <3>2. j \in Job
      BY <3>1 DEF Job
    <3>3. job' \in [Call -> Job]
      BY <2>3, <3>2 DEF LoadTarget, Reads
    <3> QED
      BY <2>3, <3>3 DEF LoadTarget, Reads, Moves, Progress, memberVars, invitationVars, Members
  <2>4. ASSUME NEW q \in Call, CountOwners(q) PROVE MembersTypeOK'
    BY <2>4 DEF CountOwners, Reads, Moves, Job, Progress, memberVars, invitationVars,
                Members, Owners
  <2>5. ASSUME NEW q \in Call, Refused(q) PROVE MembersTypeOK'
    BY <2>5 DEF Refused, Moves, Progress, memberVars, invitationVars, Members
  <2>6. ASSUME NEW q \in Call, ChangeRole(q) PROVE MembersTypeOK'
    BY <2>6 DEF ChangeRole, Moves, Job, Progress, invitationVars, Members
  <2>7. ASSUME NEW q \in Call, Remove(q) PROVE MembersTypeOK'
    BY <2>7 DEF Remove, Moves, Job, Progress, invitationVars, Members
  <2>8. ASSUME NEW q \in Call, TargetGone(q) PROVE MembersTypeOK'
    BY <2>8 DEF TargetGone, Moves, Progress, memberVars, invitationVars, Members
  <2>9. ASSUME NEW q \in Call, NEW u \in User, NEW a \in Address, NEW asked \in Role,
               LoadInviter(q, u, a, asked)
        PROVE MembersTypeOK'
    BY <2>9 DEF LoadInviter, Reads, Moves, NoJob, Job, Progress, memberVars,
                invitationVars, Members
  <2>10. ASSUME NEW q \in Call, Supersede(q) PROVE MembersTypeOK'
    <3>1. job' \in [Call -> Job]
      BY <2>10 DEF Supersede, Moves, Job
    <3> QED
      BY <2>10, <3>1 DEF Supersede, Moves, Progress, memberVars, Members
  <2>11. ASSUME NEW q \in Call, CheckMember(q) \/ AlreadyMember(q) PROVE MembersTypeOK'
    BY <2>11 DEF CheckMember, AlreadyMember, Moves, Progress, memberVars, invitationVars, Members
  <2>12. ASSUME NEW q \in Call, Invite(q) PROVE MembersTypeOK'
    BY <2>12 DEF Invite, Moves, Progress, memberVars, Members
  <2>13. ASSUME NEW u \in User, SignIn(u) PROVE MembersTypeOK'
    BY <2>13 DEF SignIn, invitationVars, Members
  <2>14. ASSUME NEW u \in User, NEW p \in Call, RevokeInvitation(u, p) PROVE MembersTypeOK'
    BY <2>14 DEF RevokeInvitation, memberVars, Members
  <2> QED
    BY <2>1, <2>2, <2>3, <2>4, <2>5, <2>6, <2>7, <2>8, <2>9, <2>10, <2>11, <2>12, <2>13,
       <2>14, NextCases
<1> QED
  BY <1>1, <1>2, PTL DEF Spec

-----------------------------------------------------------------------------
\* A call that goes on has the rank for what it was asked, and a call that takes
\* the role of an owner has counted more than one.
LEMMA KnownHolds == Spec => []Known
<1>1. Init => Known
  BY DEF Init, Known, Knows
<1>2. MembersTypeOK /\ Known /\ [Next]_vars => Known'
  <2> SUFFICES ASSUME MembersTypeOK, Known, [Next]_vars, NEW r \in Call PROVE Knows(r)'
    BY DEF Known
  <2>k. Knows(r) /\ job \in [Call -> Job] /\ pc \in [Call -> Progress] /\ role \in [User -> Roles]
    BY DEF Known, MembersTypeOK, Roles
  <2>1. ASSUME pc'[r] = pc[r], job'[r] = job[r] PROVE Knows(r)'
    BY <2>1, <2>k DEF Knows
  <2>2. ASSUME NEW q \in Call, NEW u \in User, NEW asked \in Roles, LoadActor(q, u, asked)
        PROVE Knows(r)'
    <3>1. CASE r # q
      BY <2>1, <2>2, <3>1, <2>k DEF LoadActor, Reads, Moves
    <3>2. CASE r = q
      <4>1. /\ pc'[q] = "acting"
            /\ job'[q].as = role[u] /\ job'[q].to = asked
        BY <2>2, <2>k DEF LoadActor, Reads, Moves, NoJob
      <4>2. role[u] \in {"admin", "owner"} /\ RANK[asked] <= RANK[role[u]]
        BY <2>2 DEF LoadActor, MayAct
      <4> QED
        BY <3>2, <4>1, <4>2 DEF Knows
    <3> QED
      BY <3>1, <3>2
  <2>3. ASSUME NEW q \in Call, NEW u \in User, LoadTarget(q, u) PROVE Knows(r)'
    <3>1. CASE r # q
      BY <2>1, <2>3, <3>1, <2>k DEF LoadTarget, Reads, Moves
    <3>2. CASE r = q
      <4>1. /\ pc[q] = "acting" /\ pc'[q] = "aimed"
            /\ job'[q].as = job[q].as /\ job'[q].to = job[q].to
            /\ job'[q].actor = job[q].actor
            /\ job'[q].target = u /\ job'[q].was = role[u]
        <5>1. job[q] \in Job
          BY <2>k
        <5>2. job'[q] = [job[q] EXCEPT !.target = u, !.was = role[u]]
          BY <2>3, <2>k DEF LoadTarget, Reads
        <5>3. pc[q] = "acting" /\ pc'[q] = "aimed"
          BY <2>3, <2>k DEF LoadTarget, Reads, Moves
        <5> QED
          BY <5>1, <5>2, <5>3 DEF Job
      <4>2. /\ role[u] \in Role
            /\ job[q].to # "none" => u # job[q].actor
            /\ RANK[role[u]] <= RANK[job[q].as]
        BY <2>3, <2>k DEF LoadTarget, CanActOn, Roles
      <4> QED
        BY <3>2, <4>1, <4>2, <2>k DEF Knows
    <3> QED
      BY <3>1, <3>2
  <2>4. ASSUME NEW q \in Call, CountOwners(q) PROVE Knows(r)'
    <3>1. CASE r # q
      BY <2>1, <2>4, <3>1, <2>k DEF CountOwners, Reads, Moves
    <3>2. CASE r = q
      <4>1. job[q] \in Job
        BY <2>k
      <4>2. /\ pc[q] = "aimed" /\ pc'[q] = "counted"
            /\ job'[q] = [job[q] EXCEPT !.owners = Owners]
        BY <2>4, <2>k DEF CountOwners, Reads, Moves
      <4>3. /\ job'[q].as = job[q].as /\ job'[q].to = job[q].to
            /\ job'[q].actor = job[q].actor /\ job'[q].target = job[q].target
            /\ job'[q].was = job[q].was /\ job'[q].owners = Owners
        BY <4>1, <4>2 DEF Job
      <4>4. job[q].was = "owner" => ~(Cardinality(Owners) <= 1)
        BY <2>4 DEF CountOwners, IsLastOwner
      <4> QED
        BY <3>2, <4>2, <4>3, <4>4, <2>k DEF Knows
    <3> QED
      BY <3>1, <3>2
  <2>5. ASSUME NEW q \in Call, Refused(q) PROVE Knows(r)'
    BY <2>5, <2>k DEF Refused, Moves, Knows
  <2>6. ASSUME NEW q \in Call, ChangeRole(q) \/ Remove(q) \/ TargetGone(q) PROVE Knows(r)'
    BY <2>6, <2>k DEF ChangeRole, Remove, TargetGone, Moves, Knows
  <2>7. ASSUME NEW q \in Call, NEW u \in User, NEW a \in Address, NEW asked \in Role,
               LoadInviter(q, u, a, asked)
        PROVE Knows(r)'
    <3>1. CASE r # q
      BY <2>1, <2>7, <3>1, <2>k DEF LoadInviter, Reads, Moves
    <3>2. CASE r = q
      BY <2>7, <3>2, <2>k DEF LoadInviter, Reads, Moves, Knows
    <3> QED
      BY <3>1, <3>2
  <2>8. ASSUME NEW q \in Call, Supersede(q) PROVE Knows(r)'
    <3>1. CASE r # q
      BY <2>1, <2>8, <3>1, <2>k DEF Supersede, Moves
    <3>2. CASE r = q
      BY <2>8, <3>2, <2>k DEF Supersede, Moves, Knows
    <3> QED
      BY <3>1, <3>2
  <2>9. ASSUME NEW q \in Call, CheckMember(q) \/ AlreadyMember(q) \/ Invite(q)
        PROVE Knows(r)'
    BY <2>9, <2>k DEF CheckMember, AlreadyMember, Invite, Moves, Knows
  <2>10. ASSUME NEW u \in User, SignIn(u) \/ \E p \in Call : RevokeInvitation(u, p)
         PROVE Knows(r)'
    BY <2>1, <2>10 DEF SignIn, RevokeInvitation
  <2>11. CASE UNCHANGED vars
    BY <2>1, <2>11 DEF vars
  <2> QED
    BY <2>2, <2>3, <2>4, <2>5, <2>6, <2>7, <2>8, <2>9, <2>10, <2>11, NextCases
<1> QED
  BY <1>1, <1>2, TypeCorrect, PTL DEF Spec

\* What was open when a call revoked is revoked, or is open to another address.
LEMMA SupersededHolds == Spec => []Superseded
<1>1. Init => Superseded
  BY DEF Init, Superseded, Supersedes
<1>2. MembersTypeOK /\ Superseded /\ [Next]_vars => Superseded'
  <2> SUFFICES ASSUME MembersTypeOK, Superseded, [Next]_vars PROVE Superseded'
    OBVIOUS
  <2>k. /\ job \in [Call -> Job] /\ pc \in [Call -> Progress]
        /\ invitations \subseteq Call /\ open \subseteq invitations
    BY DEF MembersTypeOK
  <2>i. /\ \A p \in Call : p \in invitations <=> pc[p] = "invited"
        /\ \A q \in Call : Supersedes(q)
    BY DEF Superseded
  <2>1. ASSUME NEW q \in Call, pc[q] \notin {"superseded", "invited"},
               pc'[q] \notin {"superseded", "invited"},
               pc' = [pc EXCEPT ![q] = pc'[q]],
               \A p \in Call : p # q => job'[p] = job[p],
               UNCHANGED invitationVars
        PROVE Superseded'
    <3>1. \A p \in Call : p \in invitations' <=> pc'[p] = "invited"
      BY <2>1, <2>k, <2>i DEF invitationVars
    <3>2. ASSUME NEW p \in Call PROVE Supersedes(p)'
      <4>1. CASE p = q
        BY <4>1, <2>1 DEF Supersedes
      <4>2. CASE p # q
        <5>1. pc'[p] = pc[p] /\ job'[p] = job[p]
          BY <4>2, <2>1, <2>k
        <5>2. \A o \in open : job'[o] = job[o]
          BY <2>1, <2>k, <2>i
        <5> QED
          BY <5>1, <5>2, <2>1, <2>i DEF Supersedes, invitationVars
      <4> QED
        BY <4>1, <4>2
    <3> QED
      BY <3>1, <3>2 DEF Superseded
  <2>2. ASSUME NEW q \in Call, NEW u \in User, NEW asked \in Roles, LoadActor(q, u, asked)
        PROVE Superseded'
    BY <2>1, <2>2, <2>k DEF LoadActor, Reads, Moves
  <2>3. ASSUME NEW q \in Call, NEW u \in User, LoadTarget(q, u) PROVE Superseded'
    BY <2>1, <2>3, <2>k DEF LoadTarget, Reads, Moves
  <2>4. ASSUME NEW q \in Call, CountOwners(q) PROVE Superseded'
    BY <2>1, <2>4, <2>k DEF CountOwners, Reads, Moves
  <2>5. ASSUME NEW q \in Call, Refused(q) PROVE Superseded'
    <3>1. pc[q] \in {"acting", "aimed", "counted"} /\ pc' = [pc EXCEPT ![q] = "refused"]
      BY <2>5 DEF Refused, Moves
    <3> QED
      BY <2>1, <2>5, <3>1, <2>k DEF Refused
  <2>6. ASSUME NEW q \in Call, ChangeRole(q) \/ Remove(q) \/ TargetGone(q)
        PROVE Superseded'
    BY <2>1, <2>6, <2>k DEF ChangeRole, Remove, TargetGone, Moves
  <2>7. ASSUME NEW q \in Call, NEW u \in User, NEW a \in Address, NEW asked \in Role,
               LoadInviter(q, u, a, asked)
        PROVE Superseded'
    BY <2>1, <2>7, <2>k DEF LoadInviter, Reads, Moves
  <2>8. ASSUME NEW q \in Call, Supersede(q) PROVE Superseded'
    <3>1. /\ pc[q] = "clear" /\ pc' = [pc EXCEPT ![q] = "superseded"]
          /\ open' = open \ OpenTo(job[q].address)
          /\ job' = [job EXCEPT ![q].known = invitations]
          /\ invitations' = invitations
      BY <2>8 DEF Supersede, Moves
    <3>2. /\ \A p \in Call : job'[p].address = job[p].address
          /\ \A p \in Call : p # q => job'[p] = job[p]
          /\ job'[q].known = invitations
      <4>1. \A p \in Call : job[p] \in Job
        BY <2>k
      <4>2. job'[q] = [job[q] EXCEPT !.known = invitations] /\ \A p \in Call : p # q => job'[p] = job[p]
        BY <3>1, <2>k
      <4> QED
        BY <4>1, <4>2 DEF Job
    <3>3. \A p \in Call : p \in invitations' <=> pc'[p] = "invited"
      BY <3>1, <2>k, <2>i
    <3>4. ASSUME NEW p \in Call PROVE Supersedes(p)'
      <4>1. CASE p = q
        BY <4>1, <3>1, <3>2, <2>k DEF Supersedes, OpenTo
      <4>2. CASE p # q
        <5>1. pc'[p] = pc[p] /\ job'[p] = job[p]
          BY <4>2, <3>1, <3>2, <2>k
        <5>2. \A o \in open : job'[o].address = job[o].address
          BY <3>2, <2>k
        <5> QED
          BY <5>1, <5>2, <3>1, <2>i DEF Supersedes
      <4> QED
        BY <4>1, <4>2
    <3> QED
      BY <3>3, <3>4 DEF Superseded
  <2>9. ASSUME NEW q \in Call, CheckMember(q) \/ AlreadyMember(q) PROVE Superseded'
    BY <2>1, <2>9, <2>k DEF CheckMember, AlreadyMember, Moves
  <2>10. ASSUME NEW q \in Call, Invite(q) PROVE Superseded'
    <3>1. /\ pc[q] = "superseded" /\ pc' = [pc EXCEPT ![q] = "invited"]
          /\ invitations' = invitations \cup {q} /\ open' = open \cup {q}
          /\ job' = job
      BY <2>10 DEF Invite, Moves
    <3>2. q \notin invitations
      BY <3>1, <2>i
    <3>3. \A p \in Call : p \in invitations' <=> pc'[p] = "invited"
      BY <3>1, <2>k, <2>i
    <3>4. ASSUME NEW p \in Call PROVE Supersedes(p)'
      BY <3>1, <3>2, <2>k, <2>i DEF Supersedes
    <3> QED
      BY <3>3, <3>4 DEF Superseded
  <2>11. ASSUME NEW u \in User, SignIn(u) PROVE Superseded'
    BY <2>11, <2>i DEF SignIn, Superseded, Supersedes, invitationVars
  <2>12. ASSUME NEW u \in User, NEW p \in Call, RevokeInvitation(u, p) PROVE Superseded'
    BY <2>12, <2>i DEF RevokeInvitation, Superseded, Supersedes
  <2>13. CASE UNCHANGED vars
    BY <2>13, <2>i DEF vars, Superseded, Supersedes, invitationVars
  <2> QED
    BY <2>2, <2>3, <2>4, <2>5, <2>6, <2>7, <2>8, <2>9, <2>10, <2>11, <2>12, <2>13, NextCases
<1> QED
  BY <1>1, <1>2, TypeCorrect, PTL DEF Spec

\* However many calls invite: of two invitations open to one address, neither
\* was there when the other revoked what was open.
THEOREM OneInvitationHolds == Spec => []OneInvitation
<1>1. MembersTypeOK /\ Superseded => OneInvitation
  BY DEF MembersTypeOK, Superseded, Supersedes, OneInvitation
<1> QED
  BY <1>1, TypeCorrect, SupersededHolds, PTL

-----------------------------------------------------------------------------
\* A role changes by a call that was at its transaction, and that of its target.
LEMMA RoleSteps ==
  ASSUME MembersTypeOK, [Next]_vars, role' # role
  PROVE  \E q \in Call :
           /\ Carried(q) /\ job[q].to \in Roles
           /\ role' = [role EXCEPT ![job[q].target] = job[q].to]
           /\ ChangeRole(q) \/ Remove(q)
<1>k. pc \in [Call -> Progress] /\ job \in [Call -> Job]
  BY DEF MembersTypeOK
<1>1. PICK q \in Call : ChangeRole(q) \/ Remove(q)
  <2>1. ~UNCHANGED vars
    BY DEF vars, memberVars
  <2> QED
    BY <2>1, NextCases DEF LoadActor, LoadTarget, CountOwners, Refused, Reads, TargetGone,
       LoadInviter, CheckMember, AlreadyMember, Supersede, Invite, SignIn, RevokeInvitation,
       memberVars
<1>2. Carried(q)
  BY <1>1, <1>k DEF ChangeRole, Remove, Moves, Carried
<1>3. job[q].to \in Roles
  BY <1>k DEF Job, Roles
<1>4. role' = [role EXCEPT ![job[q].target] = job[q].to]
  BY <1>1 DEF ChangeRole, Remove
<1> QED
  BY <1>1, <1>2, <1>3, <1>4

\* Whoever falls loses the sessions and the money authority of the rank, unless
\* the call that takes it has read another role.
THEOREM DemotionTakesAllHolds == Spec => DemotionTakesAll
<1>1. MembersTypeOK /\ [Next]_vars =>
        [\A u \in User : RANK[role'[u]] < RANK[role[u]] =>
           \/ u \notin authority' /\ u \notin signedIn'
           \/ \E q \in Call : Carried(q) /\ job[q].target = u /\ Outrun(q)]_vars
  <2> SUFFICES ASSUME MembersTypeOK, [Next]_vars, NEW u \in User, RANK[role'[u]] < RANK[role[u]],
                      \A q \in Call : ~(Carried(q) /\ job[q].target = u /\ Outrun(q))
               PROVE  u \notin authority' /\ u \notin signedIn'
    OBVIOUS
  <2>1. role \in [User -> Roles] /\ RANK[role[u]] \in Int
    BY RankIsInteger DEF MembersTypeOK, Roles
  <2>2. role'[u] # role[u]
    BY <2>1
  <2>3. PICK q \in Call :
          /\ Carried(q) /\ job[q].to \in Roles
          /\ role' = [role EXCEPT ![job[q].target] = job[q].to]
          /\ ChangeRole(q) \/ Remove(q)
    BY <2>2, RoleSteps
  <2>4. job[q].target = u /\ role'[u] = job[q].to /\ job[q].was = role[u]
    BY <2>1, <2>2, <2>3 DEF Outrun
  <2>5. CASE ChangeRole(q)
    BY <2>4, <2>5 DEF ChangeRole, IsDowngrade
  <2>6. CASE Remove(q)
    BY <2>4, <2>6 DEF Remove
  <2> QED
    BY <2>3, <2>5, <2>6
<1> QED
  BY <1>1, TypeCorrect, PTL DEF Spec, DemotionTakesAll

\* A role is taken and given by a call of at least both ranks, and nobody gives
\* one to themselves, unless the call has read another role.
THEOREM RankRespectedHolds == Spec => RankRespected
<1>1. MembersTypeOK /\ Known /\ [Next]_vars =>
        [\A u \in User : role'[u] # role[u] =>
           \E q \in Call :
             /\ Carried(q) /\ job[q].target = u
             /\ \/ Outrun(q)
                \/ /\ RANK[role[u]] <= RANK[job[q].as] /\ RANK[role'[u]] <= RANK[job[q].as]
                   /\ u = job[q].actor => role'[u] = "none"]_vars
  <2> SUFFICES ASSUME MembersTypeOK, Known, [Next]_vars, NEW u \in User, role'[u] # role[u]
               PROVE  \E q \in Call :
                        /\ Carried(q) /\ job[q].target = u
                        /\ \/ Outrun(q)
                           \/ /\ RANK[role[u]] <= RANK[job[q].as]
                              /\ RANK[role'[u]] <= RANK[job[q].as]
                              /\ u = job[q].actor => role'[u] = "none"
    OBVIOUS
  <2>1. PICK q \in Call :
          /\ Carried(q) /\ job[q].to \in Roles
          /\ role' = [role EXCEPT ![job[q].target] = job[q].to]
          /\ ChangeRole(q) \/ Remove(q)
    BY RoleSteps
  <2>2. role \in [User -> Roles]
    BY DEF MembersTypeOK, Roles
  <2>3. job[q].target = u /\ role'[u] = job[q].to
    BY <2>1, <2>2
  <2>4. /\ RANK[job[q].to] <= RANK[job[q].as] /\ RANK[job[q].was] <= RANK[job[q].as]
        /\ job[q].to # "none" => u # job[q].actor
    BY <2>1, <2>3 DEF Known, Knows, Carried
  <2> QED
    BY <2>1, <2>3, <2>4 DEF Outrun
<1> QED
  BY <1>1, TypeCorrect, KnownHolds, PTL DEF Spec, RankRespected

\* The last owner goes only by a call whose count, or whose view of its target,
\* another call has overtaken.
THEOREM OwnerRemainsHolds == Spec => OwnerRemains
<1>1. MembersTypeOK /\ Known /\ [Next]_vars =>
        [Owners # {} /\ Owners' = {} =>
           \E q \in Call : Carried(q) /\ (Outrun(q) \/ Owners # job[q].owners)]_vars
  <2> SUFFICES ASSUME MembersTypeOK, Known, [Next]_vars, Owners # {}, Owners' = {},
                      \A q \in Call : ~(Carried(q) /\ (Outrun(q) \/ Owners # job[q].owners))
               PROVE  FALSE
    OBVIOUS
  <2>1. role' # role
    BY DEF Owners
  <2>2. PICK q \in Call :
          /\ Carried(q) /\ job[q].to \in Roles
          /\ role' = [role EXCEPT ![job[q].target] = job[q].to]
          /\ ChangeRole(q) \/ Remove(q)
    BY <2>1, RoleSteps
  <2>3. role[job[q].target] = job[q].was /\ Owners = job[q].owners
    BY <2>2 DEF Outrun
  <2>4. Owners \subseteq {job[q].target}
    <3> SUFFICES ASSUME NEW u \in Owners, u # job[q].target PROVE FALSE
      OBVIOUS
    <3>1. role \in [User -> Roles] /\ u \in User /\ role[u] = "owner"
      BY DEF MembersTypeOK, Roles, Owners
    <3>2. role'[u] = "owner"
      BY <3>1, <2>2
    <3> QED
      BY <3>1, <3>2 DEF Owners
  <2>5. Owners = {job[q].target} /\ job[q].was = "owner"
    BY <2>3, <2>4 DEF Owners
  <2>6. Cardinality(Owners) = 1
    BY <2>5, FS_Singleton
  <2>7. ~(Cardinality(job[q].owners) <= 1)
    BY <2>2, <2>5 DEF Known, Knows, Carried
  <2> QED
    BY <2>3, <2>6, <2>7
<1> QED
  BY <1>1, TypeCorrect, KnownHolds, PTL DEF Spec, OwnerRemains
=============================================================================
