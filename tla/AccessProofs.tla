------------------------------ MODULE AccessProofs ------------------------------
(***************************************************************************)
(* Organizations, memberships and employee records, for any number of      *)
(* people and of requests at once: proofs about Memberships and Access.    *)
(***************************************************************************)
EXTENDS Access, NumberLemmas, FiniteSetTheorems

Organization == [founder : Founders, slug : Names \X (1..MaxOrganizations)]
FoundingCall == [pc : {"founding"}, founder : Founders,
                 slug : Names \X (1..(Len(organizations) + 1))]
AssignmentCall == [pc : {"assigning", "written"}, organization : Organizations,
                   profile : People, access : Accesses]
StaffRow == [organization : Organizations, profile : People \cup {Nobody},
             active : BOOLEAN, manager : {NoRecord} \cup Records]

(* The requests under way: the number of a slug is at most one more than   *)
(* the organizations there are, of which there are only ever more.         *)
CallsOK == underway \in [Calls -> {NoCall} \cup FoundingCall \cup AssignmentCall]
MembershipsInv == MembershipsTypeOK /\ CallsOK /\ FoundsOnce

(* A profile is linked to one employee record, and the manager of a record *)
(* is an earlier one of its organization.                                  *)
LinkedOnce ==
  \A d, e \in Records : staff[d].profile = staff[e].profile /\ staff[e].profile # Nobody => d = e
ManagersPrecede ==
  \A e \in Records : staff[e].manager # NoRecord =>
    /\ staff[e].manager \in Records /\ staff[e].manager < e
    /\ staff[staff[e].manager].organization = staff[e].organization
StaffOK == staff \in Seq(StaffRow) /\ Len(staff) <= MaxEmployees
AccessInv == MembershipsInv /\ StaffOK /\ LinkedOnce /\ ManagersPrecede

-----------------------------------------------------------------------------
(* Of the numbers up to one more than the organizations, one makes a slug  *)
(* that no organization has: there is a first slug that is free.           *)
LEMMA SlugIsFree ==
  ASSUME MembershipsTypeOK, NEW name \in Names
  PROVE  FreeSlug(name) \in Names \X (1..(Len(organizations) + 1))
<1> DEFINE taken == {n \in 1..MaxOrganizations : <<name, n>> \in Slugs}
           numbers == 1..(Len(organizations) + 1)
           free == {n \in numbers : n \notin taken}
<1>1. Len(organizations) \in Nat /\ Organizations = 1..Len(organizations)
  BY DEF MembershipsTypeOK, Organizations
<1>2. free # {}
  <2> SUFFICES ASSUME \A n \in numbers : n \in taken PROVE FALSE
    OBVIOUS
  <2> DEFINE f == [n \in numbers |->
                     CHOOSE o \in Organizations : organizations[o].slug = <<name, n>>]
  <2>1. \A n \in numbers : f[n] \in Organizations /\ organizations[f[n]].slug = <<name, n>>
    BY DEF Slugs
  <2>2. /\ IsFiniteSet(numbers) /\ Cardinality(numbers) = Len(organizations) + 1
        /\ IsFiniteSet(Organizations) /\ Cardinality(Organizations) = Len(organizations)
    <3>1. PICK n \in Nat : n = Len(organizations)
      BY <1>1
    <3>2. IsFiniteSet(1..n) /\ Cardinality(1..n) = n
      BY FS_Interval
    <3>3. IsFiniteSet(1..(n + 1)) /\ Cardinality(1..(n + 1)) = n + 1
      BY FS_Interval
    <3> QED BY <1>1, <3>1, <3>2, <3>3
  <2>3. f \in [numbers -> Organizations]
    BY <2>1
  <2> HIDE DEF f, numbers
  <2>4. \E x, y \in numbers : x # y /\ f[x] = f[y]
    BY <1>1, <2>2, <2>3, FS_PigeonHole
  <2> QED BY <2>1, <2>4
<1>3. PICK n \in free : \A x \in free : n <= x
  <2>1. free \in SUBSET Nat
    BY <1>1
  <2> HIDE DEF free
  <2> QED BY <1>2, <2>1, LeastNatural
<1>4. n \in numbers /\ n \notin taken /\ 1..(n - 1) \subseteq taken
  BY <1>1, <1>3
<1>5. (CHOOSE x \in numbers : x \notin taken /\ 1..(x - 1) \subseteq taken) \in numbers
  BY <1>4
<1>6. FreeSlug(name) = <<name, CHOOSE x \in numbers : x \notin taken /\ 1..(x - 1) \subseteq taken>>
  BY Zenon DEF FreeSlug
<1>7. PICK c \in numbers :
        c = CHOOSE x \in numbers : x \notin taken /\ 1..(x - 1) \subseteq taken
  BY <1>5
<1>8. FreeSlug(name) = <<name, c>>
  BY <1>6, <1>7, Zenon
<1>9. c \in 1..(Len(organizations) + 1)
  OBVIOUS
<1> QED BY <1>8, <1>9

(* A membership row joined to the others.                                  *)
LEMMA Joining ==
  ASSUME NEW o, NEW p, NEW access,
         members' = Joined(members, MembershipRow(o, p, access))
  PROVE  /\ DOMAIN members' = DOMAIN members \cup {<<o, p>>}
         /\ members'[<<o, p>>] = access
         /\ \A m \in DOMAIN members : m # <<o, p>> => members'[m] = members[m]
  BY DEF Joined, MembershipRow

(* The kinds of requests.                                                  *)
LEMMA CallKinds ==
  ASSUME CallsOK, NEW t \in Calls
  PROVE  /\ underway[t].pc \in {"idle", "founding", "assigning", "written"}
         /\ underway[t].pc = "founding" => underway[t] \in FoundingCall
         /\ underway[t].pc \in {"assigning", "written"} => underway[t] \in AssignmentCall
  BY DEF CallsOK, NoCall, FoundingCall, AssignmentCall

(* The organizations stay, and only the requests or the cookies change.    *)
LEMMA OrganizationsRest ==
  ASSUME MembershipsInv, UNCHANGED <<organizations, members>>,
         cookie' \in [People -> {NoCookie} \cup Organizations],
         underway' \in [Calls -> {NoCall} \cup FoundingCall \cup AssignmentCall]
  PROVE  MembershipsInv'
<1>1. Organizations' = Organizations
  BY DEF Organizations
<1>2. CallsOK'
  BY <1>1 DEF CallsOK, FoundingCall, AssignmentCall
<1>3. FoundsOnce'
  BY <1>1 DEF MembershipsInv, FoundsOnce, MembershipOf
<1>4. \A t \in Calls : underway'[t].pc \in {"idle", "founding", "assigning", "written"}
  BY DEF NoCall, FoundingCall, AssignmentCall
<1>5. MembershipsTypeOK'
  BY <1>1, <1>4 DEF MembershipsInv, MembershipsTypeOK
<1> QED BY <1>2, <1>3, <1>5 DEF MembershipsInv

(* A session changes a cookie.                                             *)
LEMMA SessionKeeps == ASSUME MembershipsInv, SessionStep PROVE MembershipsInv'
<1>1. PICK p \in People : SignIn(p) \/ SignOut(p) \/ ChooseOrganization(p)
  BY DEF SessionStep
<1>2. /\ UNCHANGED <<organizations, members>> /\ underway' = underway
      /\ cookie' \in [People -> {NoCookie} \cup Organizations]
  BY <1>1 DEF SignIn, SignOut, ChooseOrganization, Available, MembershipsInv, MembershipsTypeOK
<1>3. underway \in [Calls -> {NoCall} \cup FoundingCall \cup AssignmentCall]
  BY DEF MembershipsInv, CallsOK
<1> QED BY <1>2, <1>3, OrganizationsRest

(* A request to found an organization, checked.                            *)
LEMMA CheckFoundingKeeps ==
  ASSUME MembershipsInv, NEW t \in Calls, NEW p \in People, NEW name \in Names,
         CheckFounding(t, p, name)
  PROVE  MembershipsInv'
<1> DEFINE call == [pc |-> "founding", founder |-> p, slug |-> FreeSlug(name)]
<1>1. call \in FoundingCall
  <2>1. FreeSlug(name) \in Names \X (1..(Len(organizations) + 1))
    BY SlugIsFree DEF MembershipsInv
  <2>2. p \in Founders
    BY DEF CheckFounding
  <2> QED BY <2>1, <2>2 DEF FoundingCall
<1>2. /\ underway' = [underway EXCEPT ![t] = call]
      /\ UNCHANGED <<organizations, members>> /\ cookie' = cookie
  BY DEF CheckFounding, BeginCall
<1>3. /\ underway \in [Calls -> {NoCall} \cup FoundingCall \cup AssignmentCall]
      /\ cookie \in [People -> {NoCookie} \cup Organizations]
  BY DEF MembershipsInv, CallsOK, MembershipsTypeOK
<1>4. underway' \in [Calls -> {NoCall} \cup FoundingCall \cup AssignmentCall]
  <2> HIDE DEF call
  <2> QED BY <1>1, <1>2, <1>3
<1> QED BY <1>2, <1>3, <1>4, OrganizationsRest

(* createOrganization keeps the invariant: the unique indexes let an       *)
(* organization in whose founder and slug are new, with its founder's      *)
(* membership in the same transaction.                                     *)
LEMMA CreateOrganizationKeeps ==
  ASSUME MembershipsInv, NEW t \in Calls, CreateOrganization(t)
  PROVE  MembershipsInv'
<1> DEFINE organization == [founder |-> underway[t].founder, slug |-> underway[t].slug]
           allCalls == {NoCall} \cup FoundingCall \cup AssignmentCall
<1>0. PICK o : o = Len(organizations) + 1
  OBVIOUS
<1>1. /\ underway \in [Calls -> allCalls]
      /\ cookie \in [People -> {NoCookie} \cup Organizations]
      /\ organizations \in Seq(Organization) /\ Len(organizations) \in Nat
      /\ Organizations = 1..Len(organizations)
      /\ Founders \subseteq People /\ MaxOrganizations \in Nat
  BY MembershipsAssumption DEF MembershipsInv, CallsOK, MembershipsTypeOK, Organizations, Organization
<1>2. underway' = [underway EXCEPT ![t] = NoCall] /\ underway' \in [Calls -> allCalls]
  BY <1>1 DEF CreateOrganization, EndCall
<1>3. underway[t] \in FoundingCall /\ o <= MaxOrganizations
  BY <1>0, CallKinds DEF MembershipsInv, CreateOrganization
<1>4. organization \in Organization /\ organization.founder \in People
  BY <1>0, <1>1, <1>3 DEF FoundingCall, Organization
<1>5. CASE /\ FoundingUnique(organization)
           /\ organizations' = Append(organizations, organization)
           /\ members' = Joined(members, MembershipRow(o, organization.founder, Administers))
           /\ cookie' = [cookie EXCEPT ![organization.founder] = o]
  <2> HIDE DEF organization
  <2>1. /\ organizations' \in Seq(Organization) /\ Len(organizations') = o
        /\ Organizations' = Organizations \cup {o} /\ o \notin Organizations
        /\ organizations'[o] = organization
        /\ \A q \in Organizations : organizations'[q] = organizations[q]
    BY <1>0, <1>1, <1>4, <1>5 DEF Organizations
  <2>2. /\ DOMAIN members' = DOMAIN members \cup {<<o, organization.founder>>}
        /\ members'[<<o, organization.founder>>] = Administers
        /\ \A m \in DOMAIN members : m # <<o, organization.founder>> => members'[m] = members[m]
    <3>1. PICK p : p = organization.founder
      OBVIOUS
    <3>2. members' = Joined(members, MembershipRow(o, p, Administers))
      BY <1>5, <3>1
    <3> QED BY <3>1, <3>2, Joining
  <2>3. DOMAIN members \subseteq Organizations \X People
    BY DEF MembershipsInv, MembershipsTypeOK
  <2>4. Administers \in Accesses
    BY DEF Administers, Accesses, MembershipRoles
  <2>5. DOMAIN members' \subseteq Organizations' \X People
    BY <1>4, <2>1, <2>2, <2>3
  <2>6. \A m \in DOMAIN members' : members'[m] \in Accesses
    BY <2>2, <2>4 DEF MembershipsInv, MembershipsTypeOK
  <2>7. cookie' \in [People -> {NoCookie} \cup Organizations']
    BY <1>1, <1>4, <1>5, <2>1
  <2>8. CallsOK'
    <3>1. FoundingCall \subseteq FoundingCall'
      BY <1>0, <1>1, <2>1 DEF FoundingCall
    <3>2. AssignmentCall \subseteq AssignmentCall'
      BY <2>1 DEF AssignmentCall
    <3>3. NoCall' = NoCall
      BY DEF NoCall
    <3> QED BY <1>2, <3>1, <3>2, <3>3 DEF CallsOK
  <2>9. \A u \in Calls : underway'[u].pc \in {"idle", "founding", "assigning", "written"}
    BY <1>2 DEF NoCall, FoundingCall, AssignmentCall
  <2>10. MembershipsTypeOK'
    BY <1>3, <2>1, <2>5, <2>6, <2>7, <2>9 DEF MembershipsTypeOK, Organization
  <2>11. FoundsOnce'
    <3> SUFFICES ASSUME NEW q \in Organizations'
                 PROVE  /\ MembershipOf(q, organizations[q].founder)'
                        /\ \A r \in Organizations' \ {q} :
                             /\ organizations'[r].founder # organizations'[q].founder
                             /\ organizations'[r].slug # organizations'[q].slug
      BY DEF FoundsOnce
    <3>1. MembershipOf(q, organizations[q].founder)'
      BY <2>1, <2>2 DEF MembershipsInv, FoundsOnce, MembershipOf
    <3>2. \A r \in Organizations : /\ organizations[r].founder # organization.founder
                                   /\ organizations[r].slug # organization.slug
      BY <1>5 DEF FoundingUnique
    <3>3. ASSUME NEW r \in Organizations' \ {q}
          PROVE  /\ organizations'[r].founder # organizations'[q].founder
                 /\ organizations'[r].slug # organizations'[q].slug
      <4>1. CASE q = o \/ r = o
        BY <2>1, <3>2, <3>3, <4>1
      <4>2. CASE q \in Organizations /\ r \in Organizations
        BY <2>1, <3>3, <4>2 DEF MembershipsInv, FoundsOnce
      <4> QED BY <2>1, <3>3, <4>1, <4>2
    <3> QED BY <3>1, <3>3
  <2> QED BY <2>8, <2>10, <2>11 DEF MembershipsInv
<1>6. CASE UNCHANGED <<organizations, members, cookie>>
  BY <1>1, <1>2, <1>6, OrganizationsRest
<1> QED BY <1>0, <1>5, <1>6 DEF CreateOrganization

(* An assignment, checked.                                                 *)
LEMMA CheckAssignmentKeeps ==
  ASSUME MembershipsInv, NEW t \in Calls, NEW actor \in People, NEW profile \in People,
         NEW access \in Assigned, CheckAssignment(t, actor, profile, access)
  PROVE  MembershipsInv'
<1>1. PICK o \in Organizations :
        underway' = [underway EXCEPT ![t] = [pc |-> "assigning", organization |-> o,
                       profile |-> profile, access |-> access]]
  BY DEF CheckAssignment, BeginCall
<1>2. access \in Accesses
  BY MembershipsAssumption
<1>3. [pc |-> "assigning", organization |-> o, profile |-> profile, access |-> access]
        \in AssignmentCall
  BY <1>2 DEF AssignmentCall
<1>4. /\ underway \in [Calls -> {NoCall} \cup FoundingCall \cup AssignmentCall]
      /\ cookie \in [People -> {NoCookie} \cup Organizations]
  BY DEF MembershipsInv, CallsOK, MembershipsTypeOK
<1>5. underway' \in [Calls -> {NoCall} \cup FoundingCall \cup AssignmentCall]
  BY <1>1, <1>3, <1>4
<1>6. UNCHANGED <<organizations, members>> /\ cookie' = cookie
  BY DEF CheckAssignment
<1> QED BY <1>4, <1>5, <1>6, OrganizationsRest

(* The upsert changes the request only.                                    *)
LEMMA UpsertKeeps ==
  ASSUME MembershipsInv, NEW t \in Calls, UpsertMembership(t)
  PROVE  MembershipsInv'
<1>1. /\ underway \in [Calls -> {NoCall} \cup FoundingCall \cup AssignmentCall]
      /\ cookie \in [People -> {NoCookie} \cup Organizations]
  BY DEF MembershipsInv, CallsOK, MembershipsTypeOK
<1>2. underway[t] \in AssignmentCall
  BY CallKinds DEF UpsertMembership, MembershipsInv
<1>3. \/ underway' = [underway EXCEPT ![t].pc = "written"]
      \/ underway' = [underway EXCEPT ![t] = NoCall]
  BY DEF UpsertMembership, EndCall
<1>4. [underway[t] EXCEPT !.pc = "written"] \in AssignmentCall
  BY <1>2 DEF AssignmentCall
<1>5. underway' \in [Calls -> {NoCall} \cup FoundingCall \cup AssignmentCall]
  BY <1>1, <1>3, <1>4
<1>6. UNCHANGED <<organizations, members>> /\ cookie' = cookie
  BY DEF UpsertMembership
<1> QED BY <1>1, <1>5, <1>6, OrganizationsRest

(* An assignment committed: no membership is lost.                         *)
LEMMA CommitKeeps ==
  ASSUME MembershipsInv, NEW t \in Calls, CommitAssignment(t)
  PROVE  MembershipsInv'
<1> DEFINE call == underway[t]
<1>1. call \in AssignmentCall
  BY CallKinds DEF CommitAssignment, MembershipsInv
<1>2. /\ members' = Joined(members, MembershipRow(call.organization, call.profile, call.access))
      /\ underway' = [underway EXCEPT ![t] = NoCall]
      /\ organizations' = organizations /\ cookie' = cookie /\ Organizations' = Organizations
  BY DEF CommitAssignment, EndCall, Organizations
<1>3. /\ call.organization \in Organizations /\ call.profile \in People /\ call.access \in Accesses
  BY <1>1 DEF AssignmentCall
<1> HIDE DEF call
<1>4. /\ DOMAIN members' = DOMAIN members \cup {<<call.organization, call.profile>>}
      /\ members'[<<call.organization, call.profile>>] = call.access
      /\ \A m \in DOMAIN members :
           m # <<call.organization, call.profile>> => members'[m] = members[m]
  BY <1>2, Joining
<1>5. /\ DOMAIN members' \subseteq Organizations' \X People
      /\ \A m \in DOMAIN members' : members'[m] \in Accesses
  BY <1>2, <1>3, <1>4 DEF MembershipsInv, MembershipsTypeOK
<1>6. CallsOK'
  BY <1>2 DEF MembershipsInv, CallsOK, FoundingCall, AssignmentCall, NoCall
<1>7. MembershipsTypeOK'
  <2>1. \A u \in Calls : underway'[u].pc \in {"idle", "founding", "assigning", "written"}
    BY <1>6 DEF CallsOK, NoCall, FoundingCall, AssignmentCall
  <2> QED BY <1>2, <1>5, <2>1 DEF MembershipsInv, MembershipsTypeOK
<1>8. FoundsOnce'
  BY <1>2, <1>4 DEF MembershipsInv, FoundsOnce, MembershipOf
<1> QED BY <1>6, <1>7, <1>8 DEF MembershipsInv

(* The invariant of the memberships holds at the start.                    *)
LEMMA MembershipsStart == MembershipsInit => MembershipsInv
  BY MembershipsAssumption DEF MembershipsInit, MembershipsInv, MembershipsTypeOK, CallsOK,
     FoundsOnce, Organizations, NoCall, NoCookie
(* And every step of the memberships keeps it.                             *)
LEMMA MembershipsSteps == MembershipsInv /\ [MembershipsNext]_membershipVars => MembershipsInv'
<1> SUFFICES ASSUME MembershipsInv, [MembershipsNext]_membershipVars PROVE MembershipsInv'
  OBVIOUS
<1>1. CASE SessionStep
  BY <1>1, SessionKeeps
<1>2. CASE \E t \in Calls : FoundingStep(t)
  BY <1>2, CreateOrganizationKeeps, CheckFoundingKeeps DEF FoundingStep
<1>3. CASE \E t \in Calls : AssignmentStep(t)
  BY <1>3, CheckAssignmentKeeps, UpsertKeeps, CommitKeeps DEF AssignmentStep
<1>4. CASE UNCHANGED membershipVars
  <2>1. /\ underway' \in [Calls -> {NoCall} \cup FoundingCall \cup AssignmentCall]
        /\ cookie' \in [People -> {NoCookie} \cup Organizations]
    BY <1>4 DEF membershipVars, MembershipsInv, CallsOK, MembershipsTypeOK
  <2>2. UNCHANGED <<organizations, members>>
    BY <1>4 DEF membershipVars
  <2> QED BY <2>1, <2>2, OrganizationsRest
<1> QED BY <1>1, <1>2, <1>3, <1>4 DEF MembershipsNext

(* The invariant holds of every behaviour.                                 *)
THEOREM MembershipsInvariance == MembershipsSpec => []MembershipsInv
  BY MembershipsStart, MembershipsSteps, PTL DEF MembershipsSpec

(* A profile founds one organization however many requests it sends, an    *)
(* organization has an address of its own, and its founder is a member.    *)
THEOREM FoundedOnce == MembershipsSpec => []FoundsOnce
<1>1. MembershipsInv => FoundsOnce BY DEF MembershipsInv
<1> QED BY <1>1, MembershipsInvariance, PTL

-----------------------------------------------------------------------------
(* The employee records rest when the memberships do not.                  *)
LEMMA StaffRests ==
  ASSUME AccessInv, UNCHANGED staff, MembershipsInv', Organizations \subseteq Organizations'
  PROVE  AccessInv'
<1>1. StaffOK'
  <2>1. StaffRow \subseteq StaffRow'
    BY DEF StaffRow, Records
  <2>2. staff \in Seq(StaffRow) /\ Len(staff) <= MaxEmployees /\ Len(staff) \in Nat
    BY DEF AccessInv, StaffOK
  <2>3. staff' \in Seq(StaffRow') /\ Len(staff') <= MaxEmployees
    BY <2>1, <2>2
  <2> QED BY <2>3 DEF StaffOK
<1>2. LinkedOnce' /\ ManagersPrecede'
  BY DEF AccessInv, LinkedOnce, ManagersPrecede, Records
<1> QED BY <1>1, <1>2 DEF AccessInv

(* And the memberships when the records do not.                            *)
LEMMA MembershipsRest ==
  ASSUME MembershipsInv, UNCHANGED membershipVars
  PROVE  MembershipsInv' /\ Organizations' = Organizations
<1>1. Organizations' = Organizations
  BY DEF membershipVars, Organizations
<1>2. MembershipsInv'
  BY MembershipsSteps
<1> QED BY <1>1, <1>2

(* A record is added: its profile has no other, and its manager is one.    *)
LEMMA RecordAdded ==
  ASSUME AccessInv, UNCHANGED membershipVars, Len(staff) < MaxEmployees,
         NEW o \in Organizations, NEW p \in People \cup {Nobody}, Unlinked(p),
         NEW m \in Records \cup {NoRecord}, m # NoRecord => staff[m].organization = o,
         staff' = Append(staff, Record(o, p, m))
  PROVE  AccessInv'
<1> DEFINE record == Record(o, p, m)
<1>0. PICK n : n = Len(staff) + 1
  OBVIOUS
<1>1. staff \in Seq(StaffRow) /\ Len(staff) \in Nat /\ Records = 1..Len(staff)
  BY DEF AccessInv, StaffOK, Records
<1>2. /\ record.organization = o /\ record.profile = p /\ record.active = TRUE
      /\ record.manager = m /\ record \in StaffRow
  BY DEF Record, StaffRow
<1> HIDE DEF record
<1>3. /\ Len(staff') = n /\ Records' = Records \cup {n} /\ n \notin Records
      /\ staff'[n] = record /\ \A e \in Records : staff'[e] = staff[e] /\ e < n
      /\ staff' \in Seq(StaffRow)
  BY <1>0, <1>1, <1>2 DEF Records, record
<1>4. MembershipsInv' /\ Organizations' = Organizations
  BY MembershipsRest DEF AccessInv
<1>5. StaffOK'
  <2>1. StaffRow \subseteq StaffRow'
    BY <1>3, <1>4 DEF StaffRow
  <2>2. staff' \in Seq(StaffRow')
    BY <1>3, <2>1
  <2>3. Len(staff') <= MaxEmployees
    BY <1>0, <1>1, <1>3, AccessAssumption
  <2> QED BY <2>2, <2>3 DEF StaffOK
<1>6. LinkedOnce'
  <2>1. p # Nobody => \A e \in Records : staff[e].profile # p
    BY DEF Unlinked
  <2> SUFFICES ASSUME NEW d \in Records', NEW e \in Records',
                      staff'[d].profile = staff'[e].profile, staff'[e].profile # Nobody
               PROVE  d = e
    BY DEF LinkedOnce
  <2>2. CASE d \in Records /\ e \in Records
    BY <1>3, <2>2 DEF AccessInv, LinkedOnce
  <2>3. CASE d = n \/ e = n
    <3>1. staff'[n].profile = p
      BY <1>2, <1>3
    <3>2. \A x \in Records : x # n /\ staff'[x].profile = staff[x].profile
      BY <1>3
    <3>3. d \in Records \cup {n} /\ e \in Records \cup {n}
      BY <1>3
    <3>4. CASE d = n
      <4>1. p # Nobody
        BY <3>1, <3>4
      <4> QED BY <2>1, <3>1, <3>2, <3>3, <3>4, <4>1
    <3>5. CASE e = n
      BY <2>1, <3>1, <3>2, <3>3, <3>5
    <3> QED BY <2>3, <3>4, <3>5
  <2> QED BY <1>3, <2>2, <2>3
<1>7. ManagersPrecede'
  <2> SUFFICES ASSUME NEW e \in Records', staff'[e].manager # NoRecord
               PROVE  /\ staff'[e].manager \in Records' /\ staff'[e].manager < e
                      /\ staff'[staff'[e].manager].organization = staff'[e].organization
    BY DEF ManagersPrecede
  <2>1. CASE e \in Records
    <3>1. /\ staff[e].manager \in Records /\ staff[e].manager < e
          /\ staff[staff[e].manager].organization = staff[e].organization
      BY <1>3, <2>1 DEF AccessInv, ManagersPrecede
    <3> QED BY <1>3, <2>1, <3>1
  <2>2. CASE e = n
    <3>1. staff'[n].manager = m /\ staff'[n].organization = o
      BY <1>2, <1>3
    <3>2. m \in Records /\ staff'[m].organization = o /\ m < n /\ m \in Records'
      BY <1>3, <2>2, <3>1
    <3> QED BY <2>2, <3>1, <3>2
  <2> QED BY <1>3, <2>1, <2>2
<1> QED BY <1>4, <1>5, <1>6, <1>7 DEF AccessInv

(* A record is linked to a profile that has none, unlinked, or deactivated. *)
LEMMA RecordChanged ==
  ASSUME AccessInv, UNCHANGED membershipVars, NEW e \in Records,
         NEW p \in People \cup {Nobody}, p = staff[e].profile \/ Unlinked(p),
         Len(staff') = Len(staff), staff' \in Seq(StaffRow),
         \A d \in Records : d # e => staff'[d] = staff[d],
         staff'[e].organization = staff[e].organization, staff'[e].profile = p,
         staff'[e].manager = staff[e].manager
  PROVE  AccessInv'
<1>1. Records' = Records
  BY DEF Records, AccessInv, StaffOK
<1>2. MembershipsInv' /\ Organizations' = Organizations
  BY MembershipsRest DEF AccessInv
<1>3. StaffOK'
  <2>1. StaffRow' = StaffRow
    BY <1>1, <1>2 DEF StaffRow
  <2> QED BY <2>1 DEF AccessInv, StaffOK
<1>4. LinkedOnce'
  <2>1. \A d \in Records : d # e => staff'[d].profile = staff[d].profile
    OBVIOUS
  <2>2. p # Nobody => \A d \in Records : d # e => staff[d].profile # p
    BY DEF AccessInv, LinkedOnce, Unlinked
  <2> QED BY <1>1, <2>1, <2>2 DEF AccessInv, LinkedOnce
<1>5. ManagersPrecede'
  <2>1. \A d \in Records : /\ staff'[d].organization = staff[d].organization
                           /\ staff'[d].manager = staff[d].manager
    OBVIOUS
  <2> SUFFICES ASSUME NEW d \in Records', staff'[d].manager # NoRecord
               PROVE  /\ staff'[d].manager \in Records' /\ staff'[d].manager < d
                      /\ staff'[staff'[d].manager].organization = staff'[d].organization
    BY DEF ManagersPrecede
  <2>2. /\ staff[d].manager \in Records /\ staff[d].manager < d
        /\ staff[staff[d].manager].organization = staff[d].organization
    BY <1>1, <2>1 DEF AccessInv, ManagersPrecede
  <2> QED BY <1>1, <2>1, <2>2
<1> QED BY <1>2, <1>3, <1>4, <1>5 DEF AccessInv

(* The one who changes records does so in an organization that is there.   *)
LEMMA OfAnOrganization ==
  ASSUME NEW actor, NEW r \in requirePayrollAdministrator(actor)
  PROVE  r.organization \in Organizations
<1>1. r \in getAccessState(actor, cookie[actor])
  BY DEF requirePayrollAdministrator, assertRole, requireOrganizationAccess
<1>2. PICK o \in Available(actor) : r = AsMember(o, actor, Only(ActiveRecordsOf(o, actor)))
  BY <1>1 DEF getAccessState, Select
<1> QED BY <1>2 DEF AsMember, Available

(* Every step of the employee records keeps the invariant.                 *)
LEMMA StaffKeeps == ASSUME AccessInv, StaffStep PROVE AccessInv'
<1>0. /\ staff \in Seq(StaffRow) /\ Len(staff) \in Nat /\ Records = 1..Len(staff)
      /\ staff \in [Records -> StaffRow]
  BY DEF AccessInv, StaffOK, Records
<1>1. ASSUME NEW actor \in People, NEW p \in People \cup {Nobody}, InsertEmployee(actor, p)
      PROVE  AccessInv'
  <2>1. PICK r \in requirePayrollAdministrator(actor) :
          /\ MayLink(r.organization, p) /\ Len(staff) < MaxEmployees
          /\ staff' = Append(staff, Record(r.organization, p, NoRecord))
          /\ UNCHANGED membershipVars
    BY <1>1 DEF InsertEmployee
  <2>2. PICK o \in Organizations : o = r.organization
    BY OfAnOrganization
  <2>3. Unlinked(p)
    BY <2>1 DEF MayLink, Unlinked
  <2> QED BY <2>1, <2>2, <2>3, RecordAdded
<1>2. ASSUME NEW actor \in People, NEW p \in People \cup {Nobody}, NEW o \in Organizations,
             NEW m \in Records \cup {NoRecord}, PostEmployee(actor, o, p, m)
      PROVE  AccessInv'
  BY <1>2, RecordAdded DEF PostEmployee
<1>3. ASSUME NEW actor \in People, NEW p \in People \cup {Nobody}, NEW e \in Records,
             UpdateEmployee(actor, e, p)
      PROVE  AccessInv'
  <2>1. /\ MayLink(staff[e].organization, p) /\ UNCHANGED membershipVars
        /\ staff' = [staff EXCEPT ![e].profile = p]
    BY <1>3 DEF UpdateEmployee
  <2>2. Unlinked(p)
    BY <2>1 DEF MayLink, Unlinked
  <2>3. /\ staff' \in Seq(StaffRow) /\ Len(staff') = Len(staff)
        /\ \A d \in Records : d # e => staff'[d] = staff[d]
        /\ staff'[e].organization = staff[e].organization /\ staff'[e].profile = p
        /\ staff'[e].manager = staff[e].manager
    BY <1>0, <2>1 DEF StaffRow
  <2> QED BY <2>1, <2>2, <2>3, RecordChanged
<1>4. ASSUME NEW actor \in People, NEW e \in Records, DeactivateRecord(actor, e)
      PROVE  AccessInv'
  <2>1. UNCHANGED membershipVars /\ staff' = [staff EXCEPT ![e].active = FALSE]
    BY <1>4 DEF DeactivateRecord
  <2>2. PICK p \in People \cup {Nobody} : p = staff[e].profile
    BY <1>0 DEF StaffRow
  <2> PICK b \in BOOLEAN : b = FALSE
    OBVIOUS
  <2>3. /\ staff' \in Seq(StaffRow) /\ Len(staff') = Len(staff)
        /\ \A d \in Records : d # e => staff'[d] = staff[d]
        /\ staff'[e].organization = staff[e].organization /\ staff'[e].profile = p
        /\ staff'[e].manager = staff[e].manager
    <3>1. staff' = [staff EXCEPT ![e].active = b]
      BY <2>1
    <3>2. staff' \in Seq(StaffRow) /\ Len(staff') = Len(staff)
      BY <1>0, <3>1 DEF StaffRow
    <3> QED BY <1>0, <2>2, <3>1, <3>2 DEF StaffRow
  <2> QED BY <2>1, <2>2, <2>3, RecordChanged
<1> QED BY <1>1, <1>2, <1>3, <1>4 DEF StaffStep

(* Organizations are only added.                                           *)
LEMMA OrganizationsStay ==
  MembershipsInv /\ [MembershipsNext]_membershipVars => Organizations \subseteq Organizations'
<1> SUFFICES ASSUME MembershipsInv, [MembershipsNext]_membershipVars
             PROVE  Organizations \subseteq Organizations'
  OBVIOUS
<1>1. \/ organizations' = organizations
      \/ \E organization : organizations' = Append(organizations, organization)
  BY DEF MembershipsNext, SessionStep, SignIn, SignOut, ChooseOrganization, FoundingStep,
     CreateOrganization, CheckFounding, AssignmentStep, CheckAssignment, UpsertMembership,
     CommitAssignment, membershipVars
<1>2. organizations \in Seq([founder : Founders, slug : Names \X (1..MaxOrganizations)])
  BY DEF MembershipsInv, MembershipsTypeOK
<1> QED BY <1>1, <1>2 DEF Organizations

(* The invariant of both holds at the start.                               *)
LEMMA AccessStart == AccessInit => AccessInv
<1> SUFFICES ASSUME AccessInit PROVE AccessInv
  OBVIOUS
<1>1. MembershipsInv /\ staff = <<>>
  BY MembershipsStart DEF AccessInit
<1> QED BY <1>1, AccessAssumption DEF AccessInv, StaffOK, LinkedOnce, ManagersPrecede, Records
(* And every step of the memberships or of the records keeps it.           *)
LEMMA AccessSteps == AccessInv /\ [AccessNext]_accessVars => AccessInv'
<1> SUFFICES ASSUME AccessInv, [AccessNext]_accessVars PROVE AccessInv'
  OBVIOUS
<1>1. CASE StaffStep
  BY <1>1, StaffKeeps
<1>2. CASE UNCHANGED staff /\ [MembershipsNext]_membershipVars
  <2>1. MembershipsInv' /\ Organizations \subseteq Organizations'
    BY <1>2, MembershipsSteps, OrganizationsStay DEF AccessInv
  <2> QED BY <1>2, <2>1, StaffRests
<1> QED BY <1>1, <1>2 DEF AccessNext, accessVars

-----------------------------------------------------------------------------
(* A person has one record at most, whatever its organization and status.  *)
LEMMA OneRecord ==
  ASSUME AccessInv, NEW p \in People, NEW o
  PROVE  /\ NoRecord \notin Records
         /\ \A d, e \in RecordsOf(o, p) : d = e
         /\ ActiveRecordsOf(o, p) \subseteq RecordsOf(o, p)
         /\ RecordsOf(o, p) \subseteq Records
<1>1. NoRecord \notin Records
  BY DEF AccessInv, StaffOK, Records, NoRecord
<1>2. p # Nobody
  BY AccessAssumption
<1> QED BY <1>1, <1>2 DEF AccessInv, LinkedOnce, RecordsOf, ActiveRecordsOf
(* The only record of a set that has one.                                  *)
LEMMA OnlyOne ==
  ASSUME NEW S, NEW e \in S, \A d \in S : d = e
  PROVE  Only(S) = e
  BY DEF Only
(* What the left joins find: the active record, the record of any status,  *)
(* or none.                                                                *)
LEMMA OnlyRecord ==
  ASSUME AccessInv, NEW p \in People, NEW o
  PROVE  /\ \A e \in ActiveRecordsOf(o, p) : /\ Only(ActiveRecordsOf(o, p)) = e
                                             /\ Only(RecordsOf(o, p)) = e
         /\ \A e \in RecordsOf(o, p) : Only(RecordsOf(o, p)) = e
         /\ ActiveRecordsOf(o, p) = {} => Only(ActiveRecordsOf(o, p)) = NoRecord
         /\ RecordsOf(o, p) = {} => Only(RecordsOf(o, p)) = NoRecord
         /\ Only(ActiveRecordsOf(o, p)) # NoRecord =>
              Only(ActiveRecordsOf(o, p)) \in ActiveRecordsOf(o, p)
<1>1. \A e \in RecordsOf(o, p) : Only(RecordsOf(o, p)) = e
  BY OneRecord, OnlyOne
<1>2. \A e \in ActiveRecordsOf(o, p) : Only(ActiveRecordsOf(o, p)) = e
  BY OneRecord, OnlyOne
<1>3. /\ ActiveRecordsOf(o, p) = {} => Only(ActiveRecordsOf(o, p)) = NoRecord
      /\ RecordsOf(o, p) = {} => Only(RecordsOf(o, p)) = NoRecord
  BY DEF Only
<1> QED BY <1>1, <1>2, <1>3, OneRecord

(* The membership of a person in an organization, as every part finds it.  *)
MemberOf(o, p) == AsMember(o, p, Only(ActiveRecordsOf(o, p)))
Chosen(o, p, given) ==
  o \in Available(p) /\ IF given = NoCookie THEN Available(p) = {o} ELSE o = given

(* The fields of a membership.                                             *)
LEMMA Fields ==
  ASSUME NEW o, NEW p
  PROVE  /\ MemberOf(o, p).organization = o
         /\ MemberOf(o, p).role = members[<<o, p>>].role
         /\ MemberOf(o, p).employee = Only(ActiveRecordsOf(o, p))
  BY DEF MemberOf, AsMember
(* The answer of getAccessState: the membership in the one organization    *)
(* that is chosen.                                                         *)
LEMMA AnswerIs ==
  ASSUME NEW p, NEW given, NEW r
  PROVE  r \in getAccessState(p, given) <=> \E o \in Available(p) :
                                              r = MemberOf(o, p) /\ Chosen(o, p, given)
<1> DEFINE rows == {MemberOf(o, p) : o \in Available(p)}
<1>1. getAccessState(p, given) =
        {x \in rows : IF given = NoCookie THEN rows = {x} ELSE x.organization = given}
  BY DEF getAccessState, Select, MemberOf
<1>2. \A o \in Available(p) : MemberOf(o, p) \in rows /\ MemberOf(o, p).organization = o
  BY Fields
<1>3. \A o \in Available(p) : rows = {MemberOf(o, p)} <=> Available(p) = {o}
  <2> SUFFICES ASSUME NEW o \in Available(p)
               PROVE  rows = {MemberOf(o, p)} <=> Available(p) = {o}
    OBVIOUS
  <2>1. ASSUME rows = {MemberOf(o, p)} PROVE Available(p) = {o}
    <3>1. \A q \in Available(p) : MemberOf(q, p) = MemberOf(o, p)
      BY <1>2, <2>1
    <3>2. \A q \in Available(p) : q = o
      BY <1>2, <3>1
    <3> QED BY <3>2
  <2>2. ASSUME Available(p) = {o} PROVE rows = {MemberOf(o, p)}
    BY <2>2
  <2> QED BY <2>1, <2>2
<1>4. \A x \in rows : \E o \in Available(p) : x = MemberOf(o, p)
  OBVIOUS
<1> HIDE DEF rows
<1>5. ASSUME r \in getAccessState(p, given)
      PROVE  \E o \in Available(p) : r = MemberOf(o, p) /\ Chosen(o, p, given)
  <2>1. PICK o \in Available(p) : r = MemberOf(o, p)
    BY <1>1, <1>4, <1>5
  <2>2. IF given = NoCookie THEN rows = {r} ELSE r.organization = given
    BY <1>1, <1>5
  <2>3. Chosen(o, p, given)
    BY <1>2, <1>3, <2>1, <2>2 DEF Chosen
  <2> QED BY <2>1, <2>3
<1>6. ASSUME NEW o \in Available(p), r = MemberOf(o, p), Chosen(o, p, given)
      PROVE  r \in getAccessState(p, given)
  <2>1. IF given = NoCookie THEN rows = {r} ELSE r.organization = given
    BY <1>2, <1>3, <1>6 DEF Chosen
  <2> QED BY <1>1, <1>2, <1>6, <2>1
<1> QED BY <1>5, <1>6

(* No two organizations are chosen.                                        *)
LEMMA OneIsChosen ==
  ASSUME NEW p, NEW given, NEW o, NEW q, Chosen(o, p, given), Chosen(q, p, given)
  PROVE  o = q
  BY DEF Chosen

(* Attendance looks at the status of the record after it has found it: the *)
(* answer is the same.                                                     *)
LEMMA AttendanceAgrees ==
  ASSUME AccessInv, NEW p \in People
  PROVE  getAttendanceAccessState(p) = getAccessState(p, cookie[p])
<1> DEFINE found(o) == LET e == Only(RecordsOf(o, p))
                       IN IF e # NoRecord /\ staff[e].active THEN e ELSE NoRecord
<1>1. ASSUME NEW o \in Organizations
      PROVE  found(o) = Only(ActiveRecordsOf(o, p))
  <2>1. CASE ActiveRecordsOf(o, p) # {}
    <3>1. PICK e \in ActiveRecordsOf(o, p) : TRUE
      BY <2>1
    <3>2. e # NoRecord /\ staff[e].active
      BY OneRecord DEF ActiveRecordsOf
    <3>3. Only(RecordsOf(o, p)) = e /\ Only(ActiveRecordsOf(o, p)) = e
      BY OnlyRecord
    <3> QED BY <3>2, <3>3
  <2>2. CASE ActiveRecordsOf(o, p) = {} /\ RecordsOf(o, p) # {}
    <3>1. PICK e \in RecordsOf(o, p) : TRUE
      BY <2>2
    <3>2. Only(RecordsOf(o, p)) = e /\ Only(ActiveRecordsOf(o, p)) = NoRecord
      BY <2>2, OnlyRecord
    <3>3. ~staff[e].active
      BY <2>2 DEF ActiveRecordsOf
    <3> QED BY <3>2, <3>3
  <2>3. CASE ActiveRecordsOf(o, p) = {} /\ RecordsOf(o, p) = {}
    <3>1. Only(RecordsOf(o, p)) = NoRecord /\ Only(ActiveRecordsOf(o, p)) = NoRecord
      BY <2>3, OnlyRecord
    <3> QED BY <3>1
  <2> QED BY <2>1, <2>2, <2>3
<1>2. Available(p) \subseteq Organizations
  BY DEF Available
<1>3. \A o \in Available(p) : AsMember(o, p, found(o)) = MemberOf(o, p)
  BY <1>1, <1>2 DEF MemberOf
<1>4. getAttendanceAccessState(p) =
        Select({AsMember(o, p, found(o)) : o \in Available(p)}, cookie[p])
  <2>1. \A o \in Available(p) :
          [q \in Organizations |-> Only(RecordsOf(q, p))][o] = Only(RecordsOf(o, p))
    BY <1>2
  <2> QED BY <2>1 DEF getAttendanceAccessState
<1>5. getAccessState(p, cookie[p]) = Select({MemberOf(o, p) : o \in Available(p)}, cookie[p])
  BY DEF getAccessState, MemberOf
<1> HIDE DEF found
<1>6. {AsMember(o, p, found(o)) : o \in Available(p)} = {MemberOf(o, p) : o \in Available(p)}
  BY <1>3
<1> QED BY <1>4, <1>5, <1>6
(* Time off looks among the active records of all organizations together,  *)
(* for those of one.                                                       *)
LEMMA TimeOffAgrees ==
  ASSUME NEW p
  PROVE  getAuthenticatedAccess(p) = getAccessState(p, cookie[p])
<1> DEFINE rows == UNION {ActiveRecordsOf(o, p) : o \in Available(p)}
           mine(o) == {e \in rows : staff[e].organization = o}
<1>1. \A o \in Available(p) : mine(o) = ActiveRecordsOf(o, p)
  BY DEF ActiveRecordsOf, RecordsOf
<1>2. getAuthenticatedAccess(p) =
        Select({AsMember(o, p, Only(mine(o))) : o \in Available(p)}, cookie[p])
  BY DEF getAuthenticatedAccess
<1>3. getAccessState(p, cookie[p]) = Select({MemberOf(o, p) : o \in Available(p)}, cookie[p])
  BY DEF getAccessState, MemberOf
<1> HIDE DEF mine
<1>4. {AsMember(o, p, Only(mine(o))) : o \in Available(p)} = {MemberOf(o, p) : o \in Available(p)}
  BY <1>1 DEF MemberOf
<1> QED BY <1>2, <1>3, <1>4

(* Who self-service lets in, and with which record.                        *)
LEMMA SelfServiceIs ==
  ASSUME AccessInv, NEW p \in People
  PROVE  requireSelfServiceContext(p) = Employed(getAccessState(p, cookie[p]))
<1> DEFINE rows == getAccessState(p, cookie[p])
           lets == {q \in rows : ActiveRecordsOf(q.organization, p) # {}}
<1>1. ASSUME NEW r \in rows
      PROVE  /\ AsMember(r.organization, p, Only(ActiveRecordsOf(r.organization, p))) = r
             /\ ActiveRecordsOf(r.organization, p) # {} <=> r.employee # NoRecord
  <2>1. PICK o \in Available(p) : r = MemberOf(o, p)
    BY AnswerIs
  <2>2. r.organization = o /\ r.employee = Only(ActiveRecordsOf(o, p))
    BY <2>1, Fields
  <2>3. ActiveRecordsOf(o, p) # {} <=> Only(ActiveRecordsOf(o, p)) # NoRecord
    BY OnlyRecord, OneRecord
  <2> QED BY <2>1, <2>2, <2>3 DEF MemberOf
<1>2. requireSelfServiceContext(p) =
        {AsMember(r.organization, p, Only(ActiveRecordsOf(r.organization, p))) : r \in lets}
  BY DEF requireSelfServiceContext, requireOrganizationAccess
<1>3. Employed(rows) = {r \in rows : r.employee # NoRecord}
  BY DEF Employed
<1>4. lets = Employed(rows)
  BY <1>1, <1>3
<1>5. lets \subseteq rows
  OBVIOUS
<1> HIDE DEF rows, lets
<1>6. {AsMember(r.organization, p, Only(ActiveRecordsOf(r.organization, p))) : r \in lets} = lets
  BY <1>1, <1>5
<1> QED BY <1>2, <1>4, <1>6 DEF rows

(* The parts find the same organization, role and employee.                *)
LEMMA AnswersAgree == AccessInv => SameAnswers
<1> SUFFICES ASSUME AccessInv, NEW p \in People
             PROVE  /\ getAttendanceAccessState(p) = getAccessState(p, cookie[p])
                    /\ getAuthenticatedAccess(p) = getAccessState(p, cookie[p])
                    /\ Employed(getAccessState(p, cookie[p])) = requireSelfServiceContext(p)
                    /\ \A r \in Employed(getAccessState(p, cookie[p])) :
                         r \in resolveOrganizationAccess(p, r.organization)
  BY DEF SameAnswers
<1>1. ASSUME NEW r \in Employed(getAccessState(p, cookie[p]))
      PROVE  r \in resolveOrganizationAccess(p, r.organization)
  <2>1. r \in getAccessState(p, cookie[p]) /\ r.employee # NoRecord
    BY DEF Employed
  <2>2. PICK o \in Available(p) : r = MemberOf(o, p)
    BY <2>1, AnswerIs
  <2>3. r.organization = o /\ Only(ActiveRecordsOf(o, p)) # NoRecord
    BY <2>1, <2>2, Fields
  <2>4. Only(RecordsOf(o, p)) = Only(ActiveRecordsOf(o, p))
    BY <2>3, OnlyRecord
  <2>5. r = AsMember(o, p, Only(RecordsOf(o, p)))
    BY <2>2, <2>4 DEF MemberOf
  <2>6. resolveOrganizationAccess(p, o) =
          {AsMember(q, p, Only(RecordsOf(q, p))) : q \in {o} \cap Available(p)}
    BY DEF resolveOrganizationAccess
  <2> QED BY <2>3, <2>5, <2>6
<1> QED BY <1>1, AttendanceAgrees, TimeOffAgrees, SelfServiceIs

-----------------------------------------------------------------------------
(* Administrators by rank and by name are the same.                        *)
LEMMA Ranked ==
  ASSUME MembershipsTypeOK, NEW p, NEW given
  PROVE  assertRole(getAccessState(p, given), "administrator") =
           WithRole(getAccessState(p, given), {"administrator"})
<1>1. ASSUME NEW r \in getAccessState(p, given)
      PROVE  Rank[r.role] >= Rank["administrator"] <=> r.role \in {"administrator"}
  <2>1. PICK o \in Available(p) : r = MemberOf(o, p)
    BY AnswerIs
  <2>2. r.role = members[<<o, p>>].role /\ <<o, p>> \in DOMAIN members
    BY <2>1, Fields DEF Available, MembershipOf
  <2>3. r.role \in {"administrator", "manager", "employee"}
    BY <2>2 DEF MembershipsTypeOK, Accesses, MembershipRoles
  <2> QED BY <2>3 DEF Rank
<1> QED BY <1>1 DEF assertRole, WithRole

(* They have the same administrators, and time off lets in those           *)
(* attendance does.                                                        *)
LEMMA AdministratorsAgree == AccessInv => SameAdministrators
<1> SUFFICES ASSUME AccessInv, NEW p \in People
             PROVE  /\ requirePayrollAdministrator(p) = requireProductOperationsContext(p)
                    /\ requirePayrollAdministrator(p) = requirePrivacyContext(p, TRUE)
                    /\ requirePayrollAdministrator(p) = requireOvertimeAdministrator(p)
                    /\ requirePayrollAdministrator(p) =
                         WithRole(requireTimeOffContext(p, TRUE), {"administrator"})
                    /\ requireTimeOffContext(p, TRUE) \subseteq requireAttendanceContext(p, TRUE)
                    /\ requireAttendanceContext(p, FALSE) \subseteq requireTimeOffContext(p, FALSE)
                    /\ \A o \in Organizations :
                         ActsAsAdministrator(p, o) <=>
                           \E r \in requirePayrollAdministrator(p) : r.organization = o
  BY DEF SameAdministrators
<1> DEFINE answer == getAccessState(p, cookie[p])
           administrators == WithRole(answer, {"administrator"})
<1>1. requirePayrollAdministrator(p) = administrators
  BY Ranked DEF requirePayrollAdministrator, requireOrganizationAccess, AccessInv, MembershipsInv
<1>2. /\ requireProductOperationsContext(p) = administrators
      /\ requirePrivacyContext(p, TRUE) = administrators
      /\ requireOvertimeAdministrator(p) = administrators
  BY DEF requireProductOperationsContext, requirePrivacyContext, requireOvertimeAdministrator,
     requireOvertimeContext, requireOrganizationAccess
<1>3. /\ requireTimeOffContext(p, TRUE) =
           administrators \cup Employed(WithRole(answer, {"manager"}))
      /\ requireTimeOffContext(p, FALSE) = Employed(answer)
  BY TimeOffAgrees DEF requireTimeOffContext
<1>4. /\ requireAttendanceContext(p, TRUE) = WithRole(answer, Reviewing)
      /\ requireAttendanceContext(p, FALSE) = Employed(WithRole(answer, {"employee"}))
  BY AttendanceAgrees DEF requireAttendanceContext
<1> HIDE DEF answer
<1>5. WithRole(requireTimeOffContext(p, TRUE), {"administrator"}) = administrators
  BY <1>3 DEF WithRole, Employed
<1>6. /\ requireTimeOffContext(p, TRUE) \subseteq requireAttendanceContext(p, TRUE)
      /\ requireAttendanceContext(p, FALSE) \subseteq requireTimeOffContext(p, FALSE)
  BY <1>3, <1>4 DEF WithRole, Employed, Reviewing
<1>7. ASSUME NEW o \in Organizations
      PROVE  ActsAsAdministrator(p, o) <=> \E r \in administrators : r.organization = o
  <2>1. o # NoCookie
    BY DEF AccessInv, MembershipsInv, MembershipsTypeOK, Organizations, NoCookie
  <2>2. ActsIn(p, o) <=> Chosen(o, p, cookie[p])
    BY <2>1 DEF ActsIn, Chosen
  <2>3. ASSUME ActsAsAdministrator(p, o)
        PROVE  \E r \in administrators : r.organization = o
    <3>1. Chosen(o, p, cookie[p]) /\ o \in Available(p) /\ members[<<o, p>>].role = "administrator"
      BY <2>2, <2>3 DEF ActsAsAdministrator, Chosen
    <3>2. MemberOf(o, p) \in answer
      BY <3>1, AnswerIs DEF answer
    <3> QED BY <3>1, <3>2, Fields DEF WithRole
  <2>4. ASSUME NEW r \in administrators, r.organization = o
        PROVE  ActsAsAdministrator(p, o)
    <3>1. r \in getAccessState(p, cookie[p]) /\ r.role = "administrator"
      BY DEF WithRole, answer
    <3>2. PICK q \in Available(p) : r = MemberOf(q, p) /\ Chosen(q, p, cookie[p])
      BY <3>1, AnswerIs
    <3>3. q = o /\ members[<<o, p>>].role = "administrator"
      <4>1. MemberOf(q, p).organization = q /\ MemberOf(q, p).role = members[<<q, p>>].role
        BY Fields
      <4>2. q = o
        BY <2>4, <3>2, <4>1
      <4> QED BY <3>1, <3>2, <4>1, <4>2
    <3> QED BY <2>2, <3>2, <3>3 DEF ActsAsAdministrator
  <2> QED BY <2>3, <2>4
<1> HIDE DEF administrators
<1> QED BY <1>1, <1>2, <1>5, <1>6, <1>7

(* Whoever self-service lets in has a payslip of theirs from the download  *)
(* route: as its employee, or as an administrator of the one organization  *)
(* the person acts in.                                                     *)
LEMMA PayslipsAgree == AccessInv => OwnPayslips
<1> SUFFICES ASSUME AccessInv, NEW p \in People, NEW r \in requireSelfServiceContext(p)
             PROVE  DownloadsPayslip(p, r.organization, r.employee)
  BY DEF OwnPayslips
<1>1. CASE requirePayrollAdministrator(p) = {}
  BY <1>1 DEF DownloadsPayslip
<1>2. CASE requirePayrollAdministrator(p) # {}
  <2>1. PICK a \in requirePayrollAdministrator(p) : TRUE
    BY <1>2
  <2>2. a \in getAccessState(p, cookie[p])
    BY DEF requirePayrollAdministrator, requireOrganizationAccess, assertRole
  <2>3. r \in getAccessState(p, cookie[p])
    BY SelfServiceIs DEF Employed
  <2>4. PICK o \in Available(p) : a = MemberOf(o, p) /\ Chosen(o, p, cookie[p])
    BY <2>2, AnswerIs
  <2>5. PICK q \in Available(p) : r = MemberOf(q, p) /\ Chosen(q, p, cookie[p])
    BY <2>3, AnswerIs
  <2>6. o = q
    BY <2>4, <2>5, OneIsChosen
  <2> QED BY <1>2, <2>1, <2>4, <2>5, <2>6 DEF DownloadsPayslip
<1> QED BY <1>1, <1>2

(* An accepted timecard can be decided: by the administrator who made it   *)
(* acceptable, or by the manager, whose active record is the one the       *)
(* access answer has, and not the employee's own.                          *)
LEMMA Reviewable == AccessInv => SubmittedIsReviewable
<1> SUFFICES ASSUME AccessInv, NEW p \in People, NEW e \in Records,
                    NEW context \in requireOvertimeContext(p), SubmissionAccepted(p, context, e),
                    ~(staff[e].manager # NoRecord /\ ~staff[staff[e].manager].active)
             PROVE  \E q \in People : \E c \in getAccessState(q, context.organization) :
                      AssertReviewer(q, c, e)
  BY DEF SubmittedIsReviewable
<1>1. PICK o : o = context.organization
  OBVIOUS
<1>2. staff[e].organization = o /\ staff[e].profile = p
  BY <1>1 DEF SubmissionAccepted, loadAuthorizedEmployee
<1>3. o \in Organizations /\ o # NoCookie
  <2>1. staff[e] \in StaffRow
    BY DEF AccessInv, StaffOK, Records
  <2>2. \A q \in Organizations : q # NoCookie
    BY DEF AccessInv, MembershipsInv, MembershipsTypeOK, Organizations, NoCookie
  <2> QED BY <1>2, <2>1, <2>2 DEF StaffRow
<1>4. ASSUME NEW q \in People, o \in Available(q)
      PROVE  MemberOf(o, q) \in getAccessState(q, o)
  BY <1>3, <1>4, AnswerIs DEF Chosen
<1>5. ManagerOfRecord(e) \cup AdministratorsFor(e) # {}
  BY DEF SubmissionAccepted
<1>6. ASSUME NEW q \in AdministratorsFor(e)
      PROVE  \E c \in getAccessState(q, o) : AssertReviewer(q, c, e)
  <2>1. /\ q \in People /\ o \in Available(q) /\ members[<<o, q>>].role = "administrator"
        /\ q # staff[e].profile
    BY <1>2 DEF AdministratorsFor, ActiveIn
  <2>2. MemberOf(o, q).organization = o /\ MemberOf(o, q).role = "administrator"
    BY <2>1, Fields
  <2>3. AssertReviewer(q, MemberOf(o, q), e)
    BY <1>2, <2>1, <2>2 DEF AssertReviewer, loadAuthorizedEmployee
  <2> QED BY <1>4, <2>1, <2>3
<1>7. ASSUME NEW q \in ManagerOfRecord(e)
      PROVE  \E c \in getAccessState(q, o) : AssertReviewer(q, c, e)
  <2> DEFINE m == staff[e].manager
  <2>1. /\ q \in People /\ o \in Available(q) /\ m # NoRecord /\ staff[m].profile = q
    BY <1>2 DEF ManagerOfRecord, ActiveIn
  <2>2. m \in Records /\ m < e /\ staff[m].organization = o
    BY <1>2, <2>1 DEF AccessInv, ManagersPrecede
  <2>3. m \in ActiveRecordsOf(o, q)
    BY <2>1, <2>2 DEF ActiveRecordsOf, RecordsOf
  <2>4. Only(ActiveRecordsOf(o, q)) = m
    BY <2>1, <2>3, OnlyRecord
  <2>5. q # p
    <3>1. m # e /\ q # Nobody
      BY <2>1, <2>2, AccessAssumption DEF Records, AccessInv, StaffOK
    <3> QED BY <1>2, <2>1, <2>2, <3>1 DEF AccessInv, LinkedOnce
  <2>6. MemberOf(o, q).organization = o /\ MemberOf(o, q).employee = m
    BY <2>4, Fields
  <2>7. AssertReviewer(q, MemberOf(o, q), e)
    BY <1>2, <2>1, <2>5, <2>6 DEF AssertReviewer, loadAuthorizedEmployee
  <2> QED BY <1>4, <2>1, <2>7
<1>8. AdministratorsFor(e) \subseteq People /\ ManagerOfRecord(e) \subseteq People
  BY DEF AdministratorsFor, ManagerOfRecord
<1> QED BY <1>1, <1>5, <1>6, <1>7, <1>8

-----------------------------------------------------------------------------
(* The invariant holds of every behaviour of the memberships and the       *)
(* employee records together.                                              *)
THEOREM AccessInvariance == AccessSpec => []AccessInv
  BY AccessStart, AccessSteps, PTL DEF AccessSpec

(* The variables take the values the type invariant lists.                 *)
THEOREM AccessTypeCorrect == AccessSpec => []AccessTypeOK
<1>1. AccessInv => AccessTypeOK
  BY DEF AccessInv, MembershipsInv, AccessTypeOK, StaffOK, StaffRow
<1> QED BY <1>1, AccessInvariance, PTL

(* The parts of the application agree on who somebody is, and whoever      *)
(* submits a timecard has a reviewer.                                      *)
THEOREM PartsAgree == AccessSpec => []AccessAgrees
<1>1. AccessInv => AccessAgrees
  BY AnswersAgree, AdministratorsAgree, PayslipsAgree, Reviewable DEF AccessAgrees
<1> QED BY <1>1, AccessInvariance, PTL

-----------------------------------------------------------------------------
(* What would keep an administrator in every organization: that of two     *)
(* assignments of one organization the second waits, before the trigger    *)
(* looks for another administrator, until the first is committed.          *)
Written(t) == underway[t].pc = "written"
WritersApart ==
  \A t, u \in Calls : t # u /\ Written(t) /\ Written(u) =>
    underway[t].organization # underway[u].organization

(* What the trigger has found is so until the commit.                      *)
IsAdministrator(o, q) == MembershipOf(o, q) /\ members[<<o, q>>] = Administers
AnotherThan(o, p) == \E q \in People \ {p} : IsAdministrator(o, q)
LetThrough(call) ==
  call.access = Administers \/ AnotherThan(call.organization, call.profile)
WritesAreLetThrough == \A t \in Calls : Written(t) => LetThrough(underway[t])
AdministratorsInv == MembershipsInv /\ AdministratorRemains /\ WritesAreLetThrough

(* The memberships stay, and so does what has been written, or it is let   *)
(* through.                                                                *)
LEMMA AdministratorsRest ==
  ASSUME AdministratorsInv, UNCHANGED <<organizations, members>>,
         \A t \in Calls : \/ underway'[t] = underway[t]
                          \/ underway'[t].pc # "written"
                          \/ LetThrough(underway'[t])
  PROVE  AdministratorRemains' /\ WritesAreLetThrough'
<1>1. Organizations' = Organizations
  BY DEF Organizations
<1>2. AdministratorRemains'
  BY <1>1 DEF AdministratorsInv, AdministratorRemains, MembershipOf
<1>3. ASSUME NEW t \in Calls, Written(t)'
      PROVE  LetThrough(underway[t])'
  <2>1. LetThrough(underway'[t])
    BY <1>3 DEF AdministratorsInv, WritesAreLetThrough, Written
  <2> QED
    BY <2>1 DEF LetThrough, AnotherThan, IsAdministrator, MembershipOf
<1> QED
  BY <1>2, <1>3 DEF WritesAreLetThrough

(* What the upsert lets through.                                           *)
LEMMA UpsertLooks ==
  ASSUME AdministratorsInv, NEW t \in Calls, UpsertMembership(t)
  PROVE  AdministratorRemains' /\ WritesAreLetThrough'
<1>1. underway[t] \in AssignmentCall
  BY CallKinds DEF AdministratorsInv, MembershipsInv, UpsertMembership
<1>2. PICK o \in Organizations, p \in People :
        o = underway[t].organization /\ p = underway[t].profile
  BY <1>1 DEF AssignmentCall
<1>3. underway \in [Calls -> {NoCall} \cup FoundingCall \cup AssignmentCall]
  BY DEF AdministratorsInv, MembershipsInv, CallsOK
<1>4. UNCHANGED <<organizations, members>>
  BY DEF UpsertMembership
<1>5. CASE underway' = [underway EXCEPT ![t] = NoCall]
  <2>1. \A u \in Calls : underway'[u] = underway[u] \/ underway'[u].pc # "written"
    BY <1>3, <1>5 DEF NoCall
  <2> QED
    BY <1>4, <2>1, AdministratorsRest
<1>6. CASE /\ ~(MembershipOf(o, p) /\ LastAdministrator(o, p)
                  /\ underway[t].access # Administers)
           /\ underway' = [underway EXCEPT ![t].pc = "written"]
  <2>1. \A u \in Calls \ {t} : underway'[u] = underway[u]
    BY <1>3, <1>6
  <2>2. /\ underway'[t].organization = o /\ underway'[t].profile = p
        /\ underway'[t].access = underway[t].access
    BY <1>1, <1>2, <1>3, <1>6 DEF AssignmentCall
  <2>3. PICK q \in People : IsAdministrator(o, q)
    BY DEF AdministratorsInv, AdministratorRemains, IsAdministrator
  <2>4. underway[t].access = Administers \/ AnotherThan(o, p)
    <3>1. CASE q # p
      BY <2>3, <3>1 DEF AnotherThan
    <3>2. CASE q = p /\ underway[t].access # Administers
      <4>1. ~LastAdministrator(o, p) /\ members[<<o, p>>] = Administers
        BY <1>6, <2>3, <3>2 DEF IsAdministrator
      <4> QED
        BY <4>1 DEF LastAdministrator, AnotherThan, IsAdministrator
    <3> QED
      BY <3>1, <3>2
  <2>5. LetThrough(underway'[t])
    BY <2>2, <2>4 DEF LetThrough
  <2> QED
    BY <1>4, <2>1, <2>5, AdministratorsRest
<1> QED
  BY <1>2, <1>5, <1>6 DEF UpsertMembership, EndCall

(* A row that is written: the organization has an administrator, and so do *)
(* the others that are let through for one.                                *)
LEMMA RowWritten ==
  ASSUME AdministratorsInv, NEW t \in Calls, NEW o, NEW p \in People, NEW access,
         members' = Joined(members, MembershipRow(o, p, access)),
         Organizations' = Organizations \cup {o},
         o \notin Organizations \/ AnotherThan(o, p) \/ access = Administers,
         o \notin Organizations => access = Administers,
         \A u \in Calls \ {t} : underway'[u] = underway[u]
                                /\ (Written(u) => underway[u].organization # o),
         ~Written(t)'
  PROVE  AdministratorRemains' /\ WritesAreLetThrough'
<1>1. /\ DOMAIN members' = DOMAIN members \cup {<<o, p>>}
      /\ members'[<<o, p>>] = access
      /\ \A m \in DOMAIN members : m # <<o, p>> => members'[m] = members[m]
  BY Joining
<1>2. \A r, q : IsAdministrator(r, q) /\ (r # o \/ q # p) => IsAdministrator(r, q)'
  BY <1>1 DEF IsAdministrator, MembershipOf
<1>3. access = Administers => IsAdministrator(o, p)'
  BY <1>1 DEF IsAdministrator, MembershipOf, Administers
<1>4. \A r \in Organizations' : \E q \in People : IsAdministrator(r, q)'
  <2>1. SUFFICES ASSUME NEW r \in Organizations' PROVE \E q \in People : IsAdministrator(r, q)'
    OBVIOUS
  <2>2. CASE r = o
    BY <1>2, <1>3, <2>2 DEF AnotherThan
  <2>3. CASE r # o
    <3>1. PICK q \in People : IsAdministrator(r, q)
      BY <2>3 DEF AdministratorsInv, AdministratorRemains, IsAdministrator
    <3> QED
      BY <1>2, <2>3, <3>1
  <2> QED
    BY <2>2, <2>3
<1>5. AdministratorRemains'
  BY <1>4 DEF AdministratorRemains, IsAdministrator
<1>6. ASSUME NEW u \in Calls, Written(u)'
      PROVE  LetThrough(underway[u])'
  <2>1. u # t /\ underway'[u] = underway[u]
    BY <1>6
  <2>2. Written(u)
    BY <1>6, <2>1 DEF Written
  <2>3. LetThrough(underway[u]) /\ underway[u].organization # o
    BY <2>1, <2>2 DEF AdministratorsInv, WritesAreLetThrough
  <2>4. CASE underway[u].access = Administers
    BY <2>1, <2>4 DEF LetThrough, Administers
  <2>5. CASE AnotherThan(underway[u].organization, underway[u].profile)
    <3>1. PICK q \in People \ {underway[u].profile} :
            IsAdministrator(underway[u].organization, q)
      BY <2>5 DEF AnotherThan
    <3>2. IsAdministrator(underway[u].organization, q)'
      <4>1. PICK r : r = underway[u].organization
        OBVIOUS
      <4>2. IsAdministrator(r, q)'
        BY <1>2, <2>3, <3>1, <4>1
      <4> QED
        BY <2>1, <4>1, <4>2 DEF IsAdministrator, MembershipOf
    <3> QED
      BY <2>1, <3>2 DEF LetThrough, AnotherThan
  <2> QED
    BY <2>3, <2>4, <2>5 DEF LetThrough
<1> QED
  BY <1>5, <1>6 DEF WritesAreLetThrough

(* A commit of one of them.                                                *)
LEMMA CommitLeavesOne ==
  ASSUME AdministratorsInv, WritersApart, NEW t \in Calls, CommitAssignment(t)
  PROVE  AdministratorRemains' /\ WritesAreLetThrough'
<1>1. underway[t] \in AssignmentCall /\ Written(t)
  BY CallKinds DEF AdministratorsInv, MembershipsInv, CommitAssignment, Written
<1>2. PICK o \in Organizations, p \in People, access \in Accesses :
        /\ o = underway[t].organization /\ p = underway[t].profile
        /\ access = underway[t].access
  BY <1>1 DEF AssignmentCall
<1>3. /\ members' = Joined(members, MembershipRow(o, p, access))
      /\ underway' = [underway EXCEPT ![t] = NoCall]
      /\ Organizations' = Organizations \cup {o}
  BY <1>2 DEF CommitAssignment, EndCall, Organizations
<1>4. AnotherThan(o, p) \/ access = Administers
  BY <1>1, <1>2 DEF AdministratorsInv, WritesAreLetThrough, LetThrough
<1>5. underway \in [Calls -> {NoCall} \cup FoundingCall \cup AssignmentCall]
  BY DEF AdministratorsInv, MembershipsInv, CallsOK
<1>6. \A u \in Calls \ {t} : underway'[u] = underway[u]
                             /\ (Written(u) => underway[u].organization # o)
  BY <1>1, <1>2, <1>3, <1>5 DEF WritersApart
<1>7. ~Written(t)'
  BY <1>3, <1>5 DEF Written, NoCall
<1> QED
  BY <1>3, <1>4, <1>6, <1>7, RowWritten

(* A new organization has its founder for an administrator.                *)
LEMMA FoundedWithOne ==
  ASSUME AdministratorsInv, NEW t \in Calls, CreateOrganization(t)
  PROVE  AdministratorRemains' /\ WritesAreLetThrough'
<1>1. underway \in [Calls -> {NoCall} \cup FoundingCall \cup AssignmentCall]
  BY DEF AdministratorsInv, MembershipsInv, CallsOK
<1>2. underway' = [underway EXCEPT ![t] = NoCall]
  BY DEF CreateOrganization, EndCall
<1>3. underway'[t] = NoCall /\ \A u \in Calls \ {t} : underway'[u] = underway[u]
  BY <1>1, <1>2
<1>4. CASE UNCHANGED <<organizations, members>>
  <2>1. \A u \in Calls : underway'[u] = underway[u] \/ underway'[u].pc # "written"
    BY <1>3 DEF NoCall
  <2> QED
    BY <1>4, <2>1, AdministratorsRest
<1>5. PICK row : row = [founder |-> underway[t].founder, slug |-> underway[t].slug]
  OBVIOUS
<1>6. PICK o : o = Len(organizations) + 1
  OBVIOUS
<1>7. CASE /\ organizations' = Append(organizations, row)
           /\ members' = Joined(members, MembershipRow(o, row.founder, Administers))
  <2>1. underway[t] \in FoundingCall
    BY CallKinds DEF AdministratorsInv, MembershipsInv, CreateOrganization
  <2>2. PICK p \in People : p = row.founder
    BY <1>5, <2>1, MembershipsAssumption DEF FoundingCall
  <2>3. organizations \in Seq(Organization) /\ row \in Organization
    <3>1. organizations \in Seq(Organization)
      BY DEF AdministratorsInv, MembershipsInv, MembershipsTypeOK, Organization
    <3>2. /\ underway[t].founder \in Founders
          /\ underway[t].slug \in Names \X (1..(Len(organizations) + 1))
          /\ Len(organizations) + 1 <= MaxOrganizations
      BY <2>1 DEF FoundingCall, CreateOrganization
    <3>3. MaxOrganizations \in Nat /\ Len(organizations) \in Nat
      BY <3>1, MembershipsAssumption
    <3>4. underway[t].slug \in Names \X (1..MaxOrganizations)
      BY <3>2, <3>3
    <3> QED
      BY <1>5, <3>1, <3>2, <3>4 DEF Organization
  <2>4. Organizations' = Organizations \cup {o} /\ o \notin Organizations
    BY <1>6, <1>7, <2>3 DEF Organizations
  <2>5. \A u \in Calls : Written(u) => underway[u].organization \in Organizations
    BY CallKinds DEF AdministratorsInv, MembershipsInv, Written, AssignmentCall
  <2>6. \A u \in Calls \ {t} : underway'[u] = underway[u]
                               /\ (Written(u) => underway[u].organization # o)
    BY <1>3, <2>4, <2>5
  <2>7. members' = Joined(members, MembershipRow(o, p, Administers)) /\ ~Written(t)'
    BY <1>3, <1>7, <2>2 DEF Written, NoCall
  <2> QED
    BY <2>4, <2>6, <2>7, RowWritten
<1> QED
  BY <1>4, <1>5, <1>6, <1>7 DEF CreateOrganization

(* Every step keeps an administrator in every organization, if assignments *)
(* of an organization are apart.                                           *)
LEMMA AdministratorsStay ==
  AdministratorsInv /\ WritersApart /\ [MembershipsNext]_membershipVars => AdministratorsInv'
<1> SUFFICES ASSUME AdministratorsInv, WritersApart, [MembershipsNext]_membershipVars
             PROVE  AdministratorsInv'
  OBVIOUS
<1>1. MembershipsInv'
  BY MembershipsSteps DEF AdministratorsInv
<1>2. ASSUME UNCHANGED <<organizations, members, underway>>
      PROVE  AdministratorRemains' /\ WritesAreLetThrough'
  BY <1>2, AdministratorsRest
<1>3. ASSUME NEW t \in Calls, NEW call, call.pc # "written", BeginCall(t, call),
             UNCHANGED <<organizations, members>>
      PROVE  AdministratorRemains' /\ WritesAreLetThrough'
  <2>1. \A u \in Calls : underway'[u] = underway[u] \/ underway'[u].pc # "written"
    BY <1>3 DEF BeginCall, AdministratorsInv, MembershipsInv, CallsOK
  <2> QED
    BY <1>3, <2>1, AdministratorsRest
<1>4. ASSUME SessionStep
      PROVE  AdministratorRemains' /\ WritesAreLetThrough'
  BY <1>2, <1>4 DEF SessionStep, SignIn, SignOut, ChooseOrganization
<1>5. ASSUME NEW t \in Calls, FoundingStep(t)
      PROVE  AdministratorRemains' /\ WritesAreLetThrough'
  <2>1. CASE CreateOrganization(t)
    BY <2>1, FoundedWithOne
  <2>2. ASSUME NEW p \in People, NEW name \in Names, CheckFounding(t, p, name)
        PROVE  AdministratorRemains' /\ WritesAreLetThrough'
    <3>1. PICK call : call = [pc |-> "founding", founder |-> p, slug |-> FreeSlug(name)]
      OBVIOUS
    <3>2. call.pc # "written"
      BY <3>1
    <3> QED
      BY <1>3, <2>2, <3>1, <3>2 DEF CheckFounding
  <2> QED
    BY <1>5, <2>1, <2>2 DEF FoundingStep
<1>6. ASSUME NEW t \in Calls, AssignmentStep(t)
      PROVE  AdministratorRemains' /\ WritesAreLetThrough'
  <2>1. CASE UpsertMembership(t)
    BY <2>1, UpsertLooks
  <2>2. CASE CommitAssignment(t)
    BY <2>2, CommitLeavesOne
  <2>3. ASSUME NEW actor \in People, NEW profile \in People, NEW access \in Assigned,
               CheckAssignment(t, actor, profile, access)
        PROVE  AdministratorRemains' /\ WritesAreLetThrough'
    <3>1. PICK o \in Organizations :
            BeginCall(t, [pc |-> "assigning", organization |-> o, profile |-> profile,
                          access |-> access])
      BY <2>3 DEF CheckAssignment
    <3>2. PICK call : call = [pc |-> "assigning", organization |-> o, profile |-> profile,
                              access |-> access]
      OBVIOUS
    <3>3. call.pc # "written"
      BY <3>2
    <3> QED
      BY <1>3, <2>3, <3>1, <3>2, <3>3 DEF CheckAssignment
  <2> QED
    BY <1>6, <2>1, <2>2, <2>3 DEF AssignmentStep
<1>7. ASSUME UNCHANGED membershipVars
      PROVE  AdministratorRemains' /\ WritesAreLetThrough'
  BY <1>2, <1>7 DEF membershipVars
<1> QED
  BY <1>1, <1>4, <1>5, <1>6, <1>7 DEF MembershipsNext, AdministratorsInv

(* An organization keeps an administrator, unless assignments of the same  *)
(* organization are written at once: nothing else takes the last one away  *)
(* (protect_last_active_administrator).                                    *)
THEOREM OnlyTheRaceTakesTheLast ==
  MembershipsSpec /\ []WritersApart => []AdministratorRemains
<1>1. MembershipsInit => AdministratorsInv
  BY MembershipsStart DEF AdministratorsInv, MembershipsInit, AdministratorRemains,
     WritesAreLetThrough, Written, Organizations, NoCall
<1>2. AdministratorsInv => AdministratorRemains
  BY DEF AdministratorsInv
<1> QED
  BY <1>1, <1>2, AdministratorsStay, PTL DEF MembershipsSpec
=============================================================================
