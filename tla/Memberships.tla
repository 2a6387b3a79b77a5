------------------------------ MODULE Memberships ------------------------------
(***************************************************************************)
(* Founding an organization (src/app/actions/organizations.js), choosing   *)
(* one (src/auth/actions.js), and assigning memberships in it              *)
(* (assignMembershipAction, drizzle/0005_steep_pixie.sql).  Each request   *)
(* checks, and then writes: the unique indexes see the rows of the others, *)
(* the trigger that keeps the last administrator sees only what is         *)
(* committed.                                                              *)
(*                                                                         *)
(* Profiles are provisioned and active, and organizations are active:      *)
(* nothing in the program changes that.  The slug of an organization is    *)
(* its name, with a number when another has that name.                     *)
(***************************************************************************)
EXTENDS Integers, Sequences, FiniteSets

CONSTANTS
  People,            \* profiles
  Founders,          \* those whose account may found an organization
  Calls,             \* requests under way at once
  Assigned,          \* bound: what assignments give, roles and statuses
  Names,             \* names given to organizations
  MaxOrganizations   \* bound on the organizations

MembershipRoles == {"administrator", "manager", "employee"}
Accesses == [role : MembershipRoles, status : {"active", "inactive"}]

ASSUME MembershipsAssumption ==
  Founders \subseteq People /\ Assigned \subseteq Accesses /\ MaxOrganizations \in Nat

VARIABLES
  organizations,  \* in order of insertion
  members,        \* memberships: <<organization, profile>> -> role and status
  cookie,         \* hr_pulse_organization_id in the browser of each profile
  underway        \* the requests

membershipVars == <<organizations, members, cookie, underway>>

NoCookie == 0
Administers == [role |-> "administrator", status |-> "active"]
Organizations == DOMAIN organizations
MembershipOf(o, p) == <<o, p>> \in DOMAIN members
MembershipRow(o, p, access) == [m \in {<<o, p>>} |-> access]
Joined(rows, row) == [m \in DOMAIN rows \cup DOMAIN row |->
                        IF m \in DOMAIN row THEN row[m] ELSE rows[m]]

NoCall == [pc |-> "idle"]
BeginCall(t, request) ==
  underway[t] = NoCall /\ underway' = [underway EXCEPT ![t] = request]
EndCall(t) == underway' = [underway EXCEPT ![t] = NoCall]

(* getAccessState: the organizations a profile is an active member of, and *)
(* the one it acts in: the cookie's, or the only one.                      *)
Available(p) ==
  {o \in Organizations : MembershipOf(o, p) /\ members[<<o, p>>].status = "active"}
ActsIn(p, o) ==
  /\ o \in Available(p)
  /\ \/ cookie[p] = o
     \/ cookie[p] = NoCookie /\ Available(p) = {o}

(* assertRole, resolveOrganizationAccess and requirePayrollAdministrator.  *)
ActsAsAdministrator(p, o) == ActsIn(p, o) /\ members[<<o, p>>].role = "administrator"

-----------------------------------------------------------------------------
(* createOrganization: the checks, and the first slug that is free.        *)
Slugs == {organizations[o].slug : o \in Organizations}
FreeSlug(name) ==
  LET taken == {n \in 1..MaxOrganizations : <<name, n>> \in Slugs}
  IN <<name, CHOOSE n \in 1..(Len(organizations) + 1) :
               n \notin taken /\ 1..(n - 1) \subseteq taken>>
CheckFounding(t, p, name) ==
  /\ p \in Founders
  /\ \A o \in Organizations : organizations[o].founder # p /\ ~MembershipOf(o, p)
  /\ BeginCall(t, [pc |-> "founding", founder |-> p, slug |-> FreeSlug(name)])
  /\ UNCHANGED <<organizations, members, cookie>>

(* The inserts and the commit, refused by the unique indexes on the        *)
(* founder and on the slug; createOrganizationAction then sets the cookie. *)
FoundingUnique_SlugOnly(organization) == organization.slug \notin Slugs
FoundingUnique(organization) ==
  \A o \in Organizations : /\ organizations[o].founder # organization.founder
                           /\ organizations[o].slug # organization.slug
CreateOrganization(t) ==
  LET organization == [founder |-> underway[t].founder, slug |-> underway[t].slug]
      o == Len(organizations) + 1
  IN /\ underway[t].pc = "founding" /\ o <= MaxOrganizations
     /\ \/ /\ FoundingUnique(organization)
           /\ organizations' = Append(organizations, organization)
           /\ members' = Joined(members, MembershipRow(o, organization.founder, Administers))
           /\ cookie' = [cookie EXCEPT ![organization.founder] = o]
        \/ /\ ~FoundingUnique(organization)
           /\ UNCHANGED <<organizations, members, cookie>>
     /\ EndCall(t)

-----------------------------------------------------------------------------
(* signIn: with one organization available it is chosen. *)
SignIn(p) ==
  /\ \E o \in Available(p) :
       cookie' = [cookie EXCEPT ![p] = IF Available(p) = {o} THEN o ELSE @]
  /\ UNCHANGED <<organizations, members, underway>>
SignOut(p) ==
  /\ cookie' = [cookie EXCEPT ![p] = NoCookie]
  /\ UNCHANGED <<organizations, members, underway>>
ChooseOrganization(p) ==
  /\ \E o \in Available(p) : cookie' = [cookie EXCEPT ![p] = o]
  /\ UNCHANGED <<organizations, members, underway>>

-----------------------------------------------------------------------------
(* assignMembershipAction: the actor is an administrator ... *)
CheckAssignment(t, actor, profile, access) ==
  /\ \E o \in Organizations :
       /\ ActsAsAdministrator(actor, o)
       /\ BeginCall(t, [pc |-> "assigning", organization |-> o, profile |-> profile,
                    access |-> access])
  /\ UNCHANGED <<organizations, members, cookie>>

(* ... and the upsert, which waits for another that writes the same row.   *)
(* protect_last_active_administrator: other administrators are looked for  *)
(* in the committed rows, without a lock.                                  *)
Writes(t, o, p) ==
  /\ underway[t].pc = "written"
  /\ underway[t].organization = o /\ underway[t].profile = p
LastAdministrator(o, p) ==
  /\ members[<<o, p>>] = Administers
  /\ \A q \in People \ {p} : MembershipOf(o, q) => members[<<o, q>>] # Administers
UpsertMembership(t) ==
  LET o == underway[t].organization
      p == underway[t].profile
      refused == /\ MembershipOf(o, p) /\ LastAdministrator(o, p)
                 /\ underway[t].access # Administers
  IN /\ underway[t].pc = "assigning"
     /\ \A u \in Calls : ~Writes(u, o, p)
     /\ \/ ~refused /\ underway' = [underway EXCEPT ![t].pc = "written"]
        \/ refused /\ EndCall(t)
     /\ UNCHANGED <<organizations, members, cookie>>
CommitAssignment(t) ==
  /\ underway[t].pc = "written"
  /\ LET call == underway[t]
     IN members' = Joined(members, MembershipRow(call.organization, call.profile, call.access))
  /\ EndCall(t)
  /\ UNCHANGED <<organizations, cookie>>

-----------------------------------------------------------------------------
MembershipsInit ==
  /\ organizations = <<>>
  /\ members = <<>>
  /\ cookie = [p \in People |-> NoCookie]
  /\ underway = [t \in Calls |-> NoCall]

SessionStep == \E p \in People : SignIn(p) \/ SignOut(p) \/ ChooseOrganization(p)
FoundingStep(t) ==
  \/ CreateOrganization(t)
  \/ \E p \in People, name \in Names : CheckFounding(t, p, name)
AssignmentStep(t) ==
  \/ UpsertMembership(t)
  \/ CommitAssignment(t)
  \/ \E actor, profile \in People, access \in Assigned :
       CheckAssignment(t, actor, profile, access)
MembershipsNext == SessionStep \/ \E t \in Calls : FoundingStep(t) \/ AssignmentStep(t)

MembershipsSpec == MembershipsInit /\ [][MembershipsNext]_membershipVars

-----------------------------------------------------------------------------
(* TYPE.  The values the variables take. *)
MembershipsTypeOK ==
  /\ organizations \in Seq([founder : Founders, slug : Names \X (1..MaxOrganizations)])
  /\ Len(organizations) <= MaxOrganizations
  /\ DOMAIN members \subseteq Organizations \X People
  /\ \A m \in DOMAIN members : members[m] \in Accesses
  /\ cookie \in [People -> {NoCookie} \cup Organizations]
  /\ \A t \in Calls : underway[t].pc \in {"idle", "founding", "assigning", "written"}

(* SAFETY.  However many requests to found an organization a profile sends *)
(* at once, it founds one, and each organization has an address of its own *)
(* and is never without its founder's membership                           *)
(* (createOrganization, organizations_founding_profile_unique).            *)
FoundsOnce ==
  \A o \in Organizations :
    /\ MembershipOf(o, organizations[o].founder)
    /\ \A q \in Organizations \ {o} :
         /\ organizations[q].founder # organizations[o].founder
         /\ organizations[q].slug # organizations[o].slug

(* SAFETY, not kept.  "At least one active administrator must remain in an *)
(* organization" (docs/user-guide/glossary.md:13): two administrators who  *)
(* take away each other's role at once are each other's reason to be let.  *)
AdministratorRemains ==
  \A o \in Organizations :
    \E p \in People : MembershipOf(o, p) /\ members[<<o, p>>] = Administers
=============================================================================
