-------------------------- MODULE MCTenantRegistry --------------------------
(* Values for checking TenantRegistry: tenant t1 with its owner u1 and the   *)
(* member u2, one more tenant and one more user to be made.                  *)
EXTENDS TenantRegistry, TLC

CONSTANTS t1, t2, u1, u2, u3, d1, d2, n1

MCEmails == {"Ada", "ada", "bob", "cy"}

MCLower == [e \in MCEmails |-> IF e = "Ada" THEN "ada" ELSE e]

MCOldTenants ==
    [t \in Tenants |-> IF t = t1
        THEN [domain |-> d1, number |-> n1, plan |-> "Standard", active |-> TRUE]
        ELSE None]

Member(email, role) == [tenant |-> t1, email |-> email, role |-> role,
                        active |-> TRUE, verified |-> TRUE, mustChange |-> FALSE]

MCOldUsers == (u1 :> Member("Ada", "OWNER")) @@ (u2 :> Member("bob", "STAFF"))
              @@ [u \in Users |-> None]

TenantBody == [domain |-> Keep, number |-> Keep, plan |-> Keep, active |-> Keep]

UserBody == [role |-> Keep, active |-> Keep, verified |-> Keep]

\* A null plan is all that an owner can make of it.
Bodies == {[TenantBody EXCEPT !.plan = None],
           [TenantBody EXCEPT !.domain = None],
           [TenantBody EXCEPT !.number = None],
           [TenantBody EXCEPT !.domain = d2],
           [TenantBody EXCEPT !.plan = "Standard", !.active = TRUE]}

Deactivation == [UserBody EXCEPT !.active = FALSE, !.verified = None]

UserBodies == {[UserBody EXCEPT !.role = "OWNER"], Deactivation}

OwnerBodies == {[UserBody EXCEPT !.role = "STAFF"], Deactivation}

MCCalls ==
    {[op |-> "register", domain |-> d2, number |-> None, plan |-> "Premium",
      email |-> e] : e \in {"Ada", "cy"}}
    \cup {[op |-> "register", domain |-> None, number |-> None, plan |-> "Standard",
           email |-> "cy"],
          [op |-> "createTenant", domain |-> d2, number |-> None, plan |-> "Premium"]}
    \cup {[op |-> "updateTenant", actor |-> u1, tenant |-> t1, change |-> b] : b \in Bodies}
    \cup {[op |-> "updateTenant", actor |-> Root, tenant |-> t1,
           change |-> [TenantBody EXCEPT !.plan = "Premium", !.number = None]],
          [op |-> "updateTenant", actor |-> u2, tenant |-> t1,
           change |-> [TenantBody EXCEPT !.plan = "Premium"]],
          [op |-> "updateTenant", actor |-> Root, tenant |-> t2,
           change |-> [TenantBody EXCEPT !.domain = d1, !.active = None]]}
    \cup [op : {"setActive"}, actor : {Root}, tenant : {t1}, active : BOOLEAN]
    \cup {[op |-> "createUser", actor |-> u1, email |-> "ada", role |-> "STAFF"],
          [op |-> "createUser", actor |-> u1, email |-> "cy", role |-> "OWNER"]}
    \cup [op : {"updateUser"}, actor : {u1}, user : {u2}, change : UserBodies]
    \cup [op : {"updateUser"}, actor : {u1}, user : {u1}, change : OwnerBodies]
    \cup {[op |-> "deleteUser", actor |-> u1, user |-> u2],
          [op |-> "deleteUser", actor |-> u2, user |-> u1]}

Anyone == Permutations(Requests)

=============================================================================
