------------------------------ MODULE MCMemberships ------------------------------
EXTENDS Memberships

CONSTANTS founder, colleague, t1, t2, n1

MCPeople == {founder, colleague}
MCFounders == {founder}
MCCalls == {t1, t2}
MCNames == {n1}
MCAssigned == {[role |-> "administrator", status |-> "active"],
               [role |-> "employee", status |-> "active"]}
=============================================================================
