------------------------ MODULE TenantRegistryProofs ------------------------
(***************************************************************************)
(* The registry's properties for any number of tenants, users and requests. *)
(* What a request found out before (Sound) holds until its commit because   *)
(* every step of the others changes the tables in few ways (TableStep).     *)
(***************************************************************************)
EXTENDS TenantRegistry, TLAPS

TenantOps == {"updateTenant", "setActive"}
UserOps == {"updateUser", "deleteUser"}

\* Which statements the handler of each operation has.
StepFits(r) ==
    /\ pc[r] # "unsent" => call[r] \in Calls
    /\ pc[r] = "auth" => call[r].op \in TenantOps \cup UserOps \cup {"createUser"}
    /\ pc[r] = "load" => call[r].op \in TenantOps \cup UserOps
    /\ pc[r] = "owner" => call[r].op = "updateTenant" /\ call[r].actor # Root
    /\ pc[r] \in {"domain", "number"} =>
           call[r].op \in {"register", "createTenant", "updateTenant"}
    /\ pc[r] = "email" => call[r].op \in {"register", "createUser"}
    /\ pc[r] = "refresh" => call[r].op \in {"register", "createTenant", "updateTenant",
                                            "createUser", "updateUser"}
    /\ pc[r] = "queue" => call[r].op = "register" /\ tries[r] < MaxTries
    /\ pc[r] \notin {"queue", "answered", "failed", "dead"} => tries[r] = 0

\* The rows a request has loaded are of the right table and are still there.
ReadFits(r) ==
    /\ pc[r] \in {"load", "email", "commit"} /\ call[r].op \in UserOps \cup {"createUser"} =>
           read[r] \in UserRow /\ read[r].tenant \in Stored(tenants)
    /\ pc[r] = "load" /\ call[r].op \in UserOps =>
           read[r].role = "OWNER"
    /\ pc[r] = "commit" /\ call[r].op \in UserOps => call[r].user \in Stored(users)
    /\ pc[r] \in {"load", "owner"} /\ call[r].actor # Root => call[r].actor \in Stored(users)
    /\ pc[r] \in {"owner", "domain", "number", "commit"} /\ call[r].op \in TenantOps =>
           read[r] \in TenantRow /\ call[r].tenant \in Stored(tenants)
    /\ pc[r] = "refresh" => IF AboutUser(call[r]) THEN wrote[r] \in Stored(users)
                                                  ELSE wrote[r] \in Stored(tenants)

\* What the request has checked.
Checked(r) ==
    /\ pc[r] \in {"domain", "number", "commit"} /\ call[r].op = "updateTenant"
       /\ call[r].actor # Root => call[r].change.plan \in {Keep, None, read[r].plan}
    /\ pc[r] = "commit" /\ call[r].op = "updateTenant" => Remains(read[r], call[r].change)
    /\ pc[r] = "commit" /\ call[r].op = "updateUser" /\ call[r].change.role # Keep =>
           call[r].change.role # "OWNER" /\ users[call[r].user].role # "OWNER"
    /\ pc[r] \in {"load", "commit"} /\ call[r].op \in UserOps =>
           /\ call[r].actor \in Stored(users)
           /\ users[call[r].actor].role = "OWNER"
           /\ users[call[r].actor].tenant = read[r].tenant
    /\ pc[r] = "commit" /\ call[r].op \in UserOps =>
           /\ users[call[r].user].tenant = read[r].tenant
           /\ call[r].op = "deleteUser" => users[call[r].user].role # "OWNER"
    /\ pc[r] = "commit" /\ call[r].op = "createUser" =>
           \A u \in Stored(users) :
               users[u].tenant = read[r].tenant /\ Lower[users[u].email] = Lower[call[r].email]
                   => users[u].email = Lower[call[r].email]

Truthful(r) ==
    /\ wrote[r] # None => pc[r] \in {"refresh", "queue", "answered", "failed", "dead"}
    /\ pc[r] \in {"refresh", "queue", "answered", "failed"} => wrote[r] # None

Sound(r) == StepFits(r) /\ ReadFits(r) /\ Checked(r) /\ Truthful(r)

HasOwner(t) == \E u \in Stored(users) : users[u].tenant = t /\ users[u].role = "OWNER"
Owned == \A t \in Stored(tenants) \ bare : HasOwner(t)

IsActive(row) == row.active = TRUE

\* An owner who is not active was retired.
Retirement == \A u \in Stored(users) :
    users[u].role = "OWNER" /\ ~IsActive(users[u]) => u \in retired

Tables == /\ IdentifiersDiffer
          /\ EmailsDiffer
          /\ Owned
          /\ Retirement
          /\ \A u \in Stored(users) : users[u].tenant \in Stored(tenants)

RegistryInv == TypeOK /\ Tables /\ \A r \in Requests : Sound(r)

\* All that a step does to the tables, as far as another request can tell.
TableStep ==
    /\ Stored(tenants) \subseteq Stored(tenants')
    /\ \A u \in Stored(users) :
           /\ u \in Stored(users')
           /\ users'[u].tenant = users[u].tenant
           /\ users'[u].email = users[u].email
           /\ users'[u].role = "OWNER" <=> users[u].role = "OWNER"
    /\ \A u \in Stored(users') \ Stored(users) :
           \/ users'[u].tenant \notin Stored(tenants)
           \/ users'[u].email = Lower[users'[u].email]

LEMMA CallShapes ==
    ASSUME NEW c \in Calls
    PROVE  /\ c.op = "register" => c \in RegisterCalls
           /\ c.op = "createTenant" => c \in CreateTenantCalls
           /\ c.op = "updateTenant" => c \in UpdateTenantCalls
           /\ c.op = "setActive" => c \in SetActiveCalls
           /\ c.op = "createUser" => c \in CreateUserCalls
           /\ c.op = "updateUser" => c \in UpdateUserCalls
           /\ c.op = "deleteUser" => c \in DeleteUserCalls
           /\ c.op \in {"register", "createTenant", "createUser"} \cup TenantOps \cup UserOps
  BY CallsAreCalls DEF AllCalls, RegisterCalls, CreateTenantCalls, UpdateTenantCalls,
     SetActiveCalls, CreateUserCalls, UpdateUserCalls, DeleteUserCalls, TenantOps, UserOps

LEMMA NetType ==
    ASSUME NEW S, NEW a \in S \cup {Keep}, NEW l, NEW s \in S
    PROVE  Net(a, l, s) \in S
  BY DEF Net

LEMMA UpdatedTenantType ==
    ASSUME NEW s \in TenantRow, NEW l \in TenantRow, NEW c \in TenantChanges
    PROVE  UpdatedTenant(s, l, c) \in TenantRow
<1>1. /\ c.domain \in (Domains \cup {None}) \cup {Keep}
      /\ c.number \in (Numbers \cup {None}) \cup {Keep}
      /\ c.plan \in (Plans \cup {None}) \cup {Keep}
      /\ c.active \in Flags \cup {Keep}
  BY DEF TenantChanges
<1>2. /\ s.domain \in Domains \cup {None}
      /\ s.number \in Numbers \cup {None}
      /\ s.plan \in Plans \cup {None}
      /\ s.active \in Flags
  BY DEF TenantRow
<1>3. /\ Net(c.domain, l.domain, s.domain) \in Domains \cup {None}
      /\ Net(c.number, l.number, s.number) \in Numbers \cup {None}
      /\ Net(c.plan, l.plan, s.plan) \in Plans \cup {None}
      /\ Net(c.active, l.active, s.active) \in Flags
  BY <1>1, <1>2, NetType, Zenon
<1>4. QED
  BY <1>3 DEF UpdatedTenant, TenantRow

LEMMA UpdatedUserType ==
    ASSUME NEW s \in UserRow, NEW l \in UserRow, NEW c \in UserChanges
    PROVE  /\ UpdatedUser(s, l, c) \in UserRow
           /\ UpdatedUser(s, l, c).tenant = s.tenant
           /\ UpdatedUser(s, l, c).email = s.email
           /\ UpdatedUser(s, l, c).role = Net(c.role, l.role, s.role)
<1>1. /\ c.role \in Roles \cup {Keep}
      /\ c.active \in Flags \cup {Keep}
      /\ c.verified \in Flags \cup {Keep}
  BY DEF UserChanges
<1>2. s.role \in Roles /\ s.active \in Flags /\ s.verified \in Flags
  BY DEF UserRow
<1>3. /\ Net(c.role, l.role, s.role) \in Roles
      /\ Net(c.active, l.active, s.active) \in Flags
      /\ Net(c.verified, l.verified, s.verified) \in Flags
  BY <1>1, <1>2, NetType, Zenon
<1>4. QED
  BY <1>3 DEF UpdatedUser, UserRow

\* What a request knows, the steps of the others leave true.
LEMMA OthersKeepSound ==
    ASSUME NEW r \in Requests, TypeOK, Sound(r), TableStep,
           pc'[r] = pc[r], call'[r] = call[r], read'[r] = read[r], tries'[r] = tries[r],
           wrote'[r] = wrote[r]
    PROVE  Sound(r)'
<1>1. StepFits(r)' /\ Truthful(r)'
  BY DEF Sound, StepFits, Truthful
<1>2. ReadFits(r)'
  BY DEF Sound, ReadFits, TableStep
<1>3. Checked(r)'
  <2>1. ASSUME pc[r] = "commit", call[r].op = "updateUser", call[r].change.role # Keep
        PROVE  call[r].change.role # "OWNER" /\ users'[call[r].user].role # "OWNER"
    BY <2>1 DEF Sound, Checked, ReadFits, UserOps, TableStep
  <2>2. ASSUME pc[r] = "commit", call[r].op = "createUser",
               NEW u \in Stored(users'), users'[u].tenant = read[r].tenant,
               Lower[users'[u].email] = Lower[call[r].email]
        PROVE  users'[u].email = Lower[call[r].email]
    <3>1. read[r].tenant \in Stored(tenants)
      BY <2>2 DEF Sound, ReadFits
    <3>2. CASE u \in Stored(users)
      BY <2>2, <3>2 DEF Sound, Checked, TableStep
    <3>3. CASE u \notin Stored(users)
      BY <2>2, <3>1, <3>3 DEF TableStep
    <3>4. QED
      BY <3>2, <3>3
  <2>3. ASSUME pc[r] \in {"load", "commit"}, call[r].op \in UserOps
        PROVE  /\ call[r].actor \in Stored(users')
               /\ users'[call[r].actor].role = "OWNER"
               /\ users'[call[r].actor].tenant = read[r].tenant
    BY <2>3 DEF Sound, Checked, TableStep
  <2>4. ASSUME pc[r] = "commit", call[r].op \in UserOps
        PROVE  /\ users'[call[r].user].tenant = read[r].tenant
               /\ call[r].op = "deleteUser" => users'[call[r].user].role # "OWNER"
    BY <2>4 DEF Sound, Checked, ReadFits, TableStep
  <2>5. QED
    BY <2>1, <2>2, <2>3, <2>4 DEF Sound, Checked
<1>4. QED
  BY <1>1, <1>2, <1>3 DEF Sound

OnlyMoves(r) ==
    \A s \in Requests \ {r} : /\ pc'[s] = pc[s]
                              /\ call'[s] = call[s]
                              /\ read'[s] = read[s]
                              /\ tries'[s] = tries[s]
                              /\ wrote'[s] = wrote[s]

\* A step is accounted for by what it does to the tables and its own request.
LEMMA OneMoves ==
    ASSUME RegistryInv, NEW r \in Requests, OnlyMoves(r), TypeOK', TableStep, Tables', Sound(r)'
    PROVE  RegistryInv'
<1>1. ASSUME NEW s \in Requests \ {r} PROVE Sound(s)'
  BY <1>1, OthersKeepSound DEF RegistryInv, OnlyMoves
<1>2. QED
  BY <1>1 DEF RegistryInv

LEMMA QuietTables ==
    ASSUME RegistryInv, UNCHANGED <<tenants, users, bare, retired>>
    PROVE  TableStep /\ Tables'
<1>1. TableStep
  BY DEF TableStep
<1>2. Tables'
  BY DEF RegistryInv, Tables, IdentifiersDiffer, EmailsDiffer, Owned, HasOwner,
     Retirement, Stored
<1>3. QED
  BY <1>1, <1>2

\* A statement that only reads: the request goes on or is refused.
LEMMA QuietStep ==
    ASSUME RegistryInv, NEW r \in Requests, UNCHANGED <<tenants, users, wrote, bare, retired>>,
           OnlyMoves(r), TypeOK', Sound(r)'
    PROVE  RegistryInv'
  BY OneMoves, QuietTables

LEMMA RegistryInit == Init => RegistryInv
<1> SUFFICES ASSUME Init PROVE RegistryInv
  OBVIOUS
<1>1. TypeOK
  <2>1. retired \subseteq Users
    BY TablesAreSound DEF Init, Stored
  <2>2. QED
    <3>1. /\ tenants \in [Tenants -> TenantRow \cup {None}]
          /\ users \in [Users -> UserRow \cup {None}]
      BY TablesAreSound DEF Init
    <3>2. /\ pc = [r \in Requests |-> "unsent"]
          /\ call = [r \in Requests |-> None] /\ read = [r \in Requests |-> None]
          /\ tries = [r \in Requests |-> 0] /\ wrote = [r \in Requests |-> None]
          /\ bare = {}
      BY DEF Init
    <3>3. QED
      BY <2>1, <3>1, <3>2 DEF TypeOK, MaxTries
<1>2. Tables
  <2>1. tenants = OldTenants /\ users = OldUsers
        /\ retired = {u \in Stored(users) : users[u].role = "OWNER" /\ ~IsActive(users[u])}
    BY DEF Init, IsActive
  <2>2. Retirement
    BY <2>1 DEF Retirement
  <2>3. QED
    BY <2>1, <2>2, TablesAreSound
    DEF Tables, IdentifiersDiffer, EmailsDiffer, Owned, HasOwner, TableInvariants
<1>3. ASSUME NEW r \in Requests PROVE Sound(r)
  BY <1>3 DEF Init, Sound, StepFits, ReadFits, Checked, Truthful
<1>4. QED
  BY <1>1, <1>2, <1>3 DEF RegistryInv

LEMMA SendStep ==
    ASSUME RegistryInv, NEW r \in Requests, NEW c \in Calls, Send(r, c)
    PROVE  RegistryInv'
<1>1. /\ pc[r] = "unsent" /\ call' = [call EXCEPT ![r] = c]
      /\ UNCHANGED <<tenants, users, read, tries, wrote, bare, retired>>
  BY DEF Send
<1>2. TypeOK /\ Sound(r)
  BY DEF RegistryInv
<1>3. PICK where \in {"domain", "refused", "auth"} :
        /\ pc' = [pc EXCEPT ![r] = where]
        /\ where = "domain" => c.op \in {"register", "createTenant"}
        /\ where = "auth" => c.op \notin {"register", "createTenant"}
  BY DEF Send, Goto, Continue
<1>4. TypeOK'
  BY <1>1, <1>2, <1>3 DEF TypeOK
<1>5. call'[r] = c /\ pc'[r] = where /\ wrote'[r] = None /\ tries'[r] = 0 /\ OnlyMoves(r)
  BY <1>1, <1>2, <1>3 DEF TypeOK, OnlyMoves, Sound, Truthful, StepFits
<1>6. Sound(r)'
  BY <1>3, <1>5, CallShapes DEF Sound, StepFits, ReadFits, Checked, Truthful, TenantOps, UserOps
<1>7. QED
  BY <1>1, <1>4, <1>5, <1>6, QuietStep

LEMMA AuthenticateStep ==
    ASSUME RegistryInv, NEW r \in Requests, Authenticate(r)
    PROVE  RegistryInv'
<1> DEFINE c == call[r]
           user == users[c.actor]
<1>1. pc[r] = "auth" /\ UNCHANGED <<tenants, users, call, tries, wrote, bare, retired>>
  BY DEF Authenticate, Queries
<1>2. TypeOK /\ Sound(r) /\ Tables
  BY DEF RegistryInv
<1>3. c \in Calls /\ c.op \in TenantOps \cup UserOps \cup {"createUser"} /\ wrote[r] = None
      /\ tries[r] = 0
  BY <1>1, <1>2 DEF Sound, StepFits, Truthful
<1>4. /\ c.op \in UserOps \cup {"createUser"} => c.actor \in Users
      /\ c.actor = Root \/ c.actor \in Users
  BY <1>3, CallShapes DEF UserOps, TenantOps, CreateUserCalls, UpdateUserCalls,
     DeleteUserCalls, UpdateTenantCalls, SetActiveCalls
<1>5. CASE c.actor = Root
  <2>1. pc' = [pc EXCEPT ![r] = "load"] /\ read' = read /\ c.op \in TenantOps
    BY <1>3, <1>4, <1>5, MarksDiffer DEF Authenticate, Goto
  <2>2. TypeOK' /\ OnlyMoves(r) /\ pc'[r] = "load"
    BY <1>1, <1>2, <2>1 DEF TypeOK, OnlyMoves
  <2>3. Sound(r)'
    BY <1>1, <1>3, <1>5, <2>1, <2>2
    DEF Sound, StepFits, ReadFits, Checked, Truthful, TenantOps, UserOps
  <2>4. QED
    BY <1>1, <2>2, <2>3, QuietStep
<1>6. CASE c.actor # Root
  <2>1. PICK where \in {"email", "load", "refused"} :
          /\ pc' = [pc EXCEPT ![r] = where]
          /\ read' = [read EXCEPT ![r] = user]
          /\ where # "refused" => /\ user # None
                                  /\ Updating(c) \/ user.role = "OWNER"
          /\ where = "email" => c.op = "createUser"
          /\ where = "load" => c.op # "createUser"
    BY <1>6 DEF Authenticate, Goto, Continue
  <2>2. c.actor \in Users /\ user \in UserRow \cup {None}
    BY <1>2, <1>4, <1>6 DEF TypeOK
  <2>3. TypeOK' /\ OnlyMoves(r) /\ pc'[r] = where /\ read'[r] = user
    BY <1>1, <1>2, <2>1, <2>2 DEF TypeOK, OnlyMoves
  <2>4. where # "refused" => /\ user \in UserRow
                             /\ c.actor \in Stored(users)
                             /\ user.tenant \in Stored(tenants)
    BY <1>2, <2>1, <2>2 DEF Stored, TypeOK, Tables
  <2>5. where = "load" /\ c.op \in UserOps => user.role = "OWNER"
    BY <2>1 DEF Updating, UserOps
  <2>6. StepFits(r)' /\ Checked(r)' /\ Truthful(r)'
    BY <1>1, <1>3, <2>1, <2>3, <2>4, <2>5 DEF StepFits, Checked, Truthful, TenantOps, UserOps
  <2>7. ReadFits(r)'
    BY <1>1, <1>3, <2>1, <2>3, <2>4, <2>5 DEF ReadFits
  <2>8. Sound(r)'
    BY <2>6, <2>7 DEF Sound
  <2>9. QED
    BY <1>1, <2>3, <2>8, QuietStep
<1>7. QED
  BY <1>5, <1>6

LEMMA LoadTenantStep ==
    ASSUME RegistryInv, NEW r \in Requests, LoadTenant(r)
    PROVE  RegistryInv'
<1> DEFINE c == call[r]
           row == tenants[c.tenant]
<1>1. /\ pc[r] = "load" /\ c.op \in TenantOps
      /\ UNCHANGED <<tenants, users, call, tries, wrote, bare, retired>>
      /\ read' = [read EXCEPT ![r] = row]
  BY DEF LoadTenant, Queries, TenantOps
<1>2. TypeOK /\ Sound(r)
  BY DEF RegistryInv
<1>3. c \in Calls /\ wrote[r] = None /\ tries[r] = 0
  BY <1>1, <1>2 DEF Sound, StepFits, Truthful
<1>4. /\ c.tenant \in Tenants /\ row \in TenantRow \cup {None}
      /\ c.actor = Root \/ c.actor \in Users
      /\ c.op = "setActive" => c.actor = Root
  BY <1>1, <1>2, <1>3, CallShapes DEF TenantOps, UpdateTenantCalls, SetActiveCalls, TypeOK
<1>5. PICK where \in {"commit", "domain", "owner", "refused"} :
        /\ pc' = [pc EXCEPT ![r] = where]
        /\ where # "refused" => row # None
        /\ where = "commit" => c.op = "setActive"
        /\ where = "domain" => c.op = "updateTenant" /\ c.actor = Root
        /\ where = "owner" => c.op = "updateTenant" /\ c.actor # Root
  BY <1>1 DEF LoadTenant, Continue, Goto, Updating, TenantOps
<1>6. TypeOK' /\ OnlyMoves(r) /\ pc'[r] = where /\ read'[r] = row
  BY <1>1, <1>2, <1>4, <1>5 DEF TypeOK, OnlyMoves
<1>7. where # "refused" => row \in TenantRow /\ c.tenant \in Stored(tenants)
  BY <1>2, <1>4, <1>5 DEF Stored, TypeOK
<1>8. where = "owner" => c.actor \in Stored(users)
  BY <1>1, <1>2, <1>5 DEF Sound, ReadFits
<1>9. Sound(r)'
  BY <1>1, <1>3, <1>5, <1>6, <1>7, <1>8
  DEF Sound, StepFits, ReadFits, Checked, Truthful, TenantOps, UserOps
<1>10. QED
  BY <1>1, <1>6, <1>9, QuietStep

LEMMA CheckOwnerStep ==
    ASSUME RegistryInv, NEW r \in Requests, CheckOwner(r)
    PROVE  RegistryInv'
<1>1. pc[r] = "owner" /\ UNCHANGED <<tenants, users, call, read, tries, wrote, bare, retired>>
  BY DEF CheckOwner, Queries
<1>2. TypeOK /\ Sound(r)
  BY DEF RegistryInv
<1>3. PICK where \in {"domain", "refused"} :
        /\ pc' = [pc EXCEPT ![r] = where]
        /\ where = "domain" => call[r].change.plan \in {Keep, None, read[r].plan}
  BY DEF CheckOwner, Continue, Goto
<1>4. TypeOK' /\ OnlyMoves(r) /\ pc'[r] = where
  BY <1>1, <1>2, <1>3 DEF TypeOK, OnlyMoves
<1>5. Sound(r)'
  BY <1>1, <1>2, <1>3, <1>4 DEF Sound, StepFits, ReadFits, Checked, Truthful, TenantOps, UserOps
<1>6. QED
  BY <1>1, <1>4, <1>5, QuietStep

LEMMA CheckDomainStep ==
    ASSUME RegistryInv, NEW r \in Requests, CheckDomain(r)
    PROVE  RegistryInv'
<1>1. pc[r] = "domain" /\ UNCHANGED <<tenants, users, call, read, tries, wrote, bare, retired>>
  BY DEF CheckDomain, Queries
<1>2. TypeOK /\ Sound(r)
  BY DEF RegistryInv
<1>3. PICK where \in {"number", "refused"} : pc' = [pc EXCEPT ![r] = where]
  BY DEF CheckDomain, Continue, Goto
<1>4. TypeOK' /\ OnlyMoves(r) /\ pc'[r] = where
  BY <1>1, <1>2, <1>3 DEF TypeOK, OnlyMoves
<1>5. Sound(r)'
  BY <1>1, <1>2, <1>3, <1>4 DEF Sound, StepFits, ReadFits, Checked, Truthful, TenantOps, UserOps
<1>6. QED
  BY <1>1, <1>4, <1>5, QuietStep

LEMMA CheckNumberStep ==
    ASSUME RegistryInv, NEW r \in Requests, CheckNumber(r)
    PROVE  RegistryInv'
<1>1. pc[r] = "number" /\ UNCHANGED <<tenants, users, call, read, tries, wrote, bare, retired>>
  BY DEF CheckNumber, Queries
<1>2. TypeOK /\ Sound(r)
  BY DEF RegistryInv
<1>3. PICK where \in {"email", "commit", "refused"} :
        /\ pc' = [pc EXCEPT ![r] = where]
        /\ where = "email" => call[r].op = "register"
        /\ where = "commit" /\ call[r].op = "updateTenant" => Remains(read[r], call[r].change)
  BY DEF CheckNumber, Continue, Goto, Updating
<1>4. TypeOK' /\ OnlyMoves(r) /\ pc'[r] = where
  BY <1>1, <1>2, <1>3 DEF TypeOK, OnlyMoves
<1>5. Remains(read[r], call[r].change)' <=> Remains(read[r], call[r].change)
  BY <1>1 DEF Remains, Assigned
<1>6. Sound(r)'
  BY <1>1, <1>2, <1>3, <1>4, <1>5
  DEF Sound, StepFits, ReadFits, Checked, Truthful, TenantOps, UserOps
<1>7. QED
  BY <1>1, <1>4, <1>6, QuietStep

LEMMA CheckEmailStep ==
    ASSUME RegistryInv, NEW r \in Requests, CheckEmail(r)
    PROVE  RegistryInv'
<1>1. pc[r] = "email" /\ UNCHANGED <<tenants, users, call, read, tries, wrote, bare, retired>>
  BY DEF CheckEmail, Queries
<1>2. TypeOK /\ Sound(r)
  BY DEF RegistryInv
<1>3. PICK where \in {"commit", "refused"} :
        /\ pc' = [pc EXCEPT ![r] = where]
        /\ where = "commit" /\ call[r].op = "createUser" =>
               \A u \in Stored(users) : users[u].tenant = read[r].tenant =>
                   Lower[users[u].email] # Lower[call[r].email]
  BY DEF CheckEmail, Continue, Goto
<1>4. TypeOK' /\ OnlyMoves(r) /\ pc'[r] = where
  BY <1>1, <1>2, <1>3 DEF TypeOK, OnlyMoves
<1>5. Sound(r)'
  BY <1>1, <1>2, <1>3, <1>4 DEF Sound, StepFits, ReadFits, Checked, Truthful, TenantOps, UserOps
<1>6. QED
  BY <1>1, <1>4, <1>5, QuietStep

LEMMA LoadUserStep ==
    ASSUME RegistryInv, NEW r \in Requests, LoadUser(r)
    PROVE  RegistryInv'
<1> DEFINE c == call[r]
           row == IF c.user = c.actor THEN read[r] ELSE users[c.user]
<1>1. /\ pc[r] = "load" /\ c.op \in UserOps
      /\ UNCHANGED <<tenants, users, call, tries, wrote, bare, retired>>
      /\ read' = [read EXCEPT ![r] = row]
  BY DEF LoadUser, Queries, UserOps
<1>2. TypeOK /\ Sound(r) /\ Tables
  BY DEF RegistryInv
<1>3. c \in Calls /\ wrote[r] = None /\ read[r] \in UserRow /\ read[r].role = "OWNER"
      /\ read[r].tenant \in Stored(tenants) /\ tries[r] = 0
  BY <1>1, <1>2 DEF Sound, StepFits, ReadFits, Truthful
<1>4. c.user \in Users /\ c.actor \in Users /\ c.actor \in Stored(users)
  BY <1>1, <1>2, <1>3, CallShapes, MarksDiffer
  DEF UserOps, UpdateUserCalls, DeleteUserCalls, Sound, ReadFits
<1>5. row \in UserRow \cup {None}
  BY <1>2, <1>3, <1>4 DEF TypeOK
<1>6. PICK where \in {"commit", "refused"} :
        /\ pc' = [pc EXCEPT ![r] = where]
        /\ where = "commit" =>
               /\ row # None /\ row.tenant = read[r].tenant
               /\ c.op = "updateUser" /\ c.change.role # Keep =>
                      row.role # "OWNER" /\ c.change.role # "OWNER"
               /\ c.op = "deleteUser" => c.user # c.actor /\ row.role # "OWNER"
  BY DEF LoadUser, Continue, Goto
<1>7. TypeOK' /\ OnlyMoves(r) /\ pc'[r] = where /\ read'[r] = row
  BY <1>1, <1>2, <1>5, <1>6 DEF TypeOK, OnlyMoves
<1>8. where = "commit" => /\ row \in UserRow
                          /\ c.user \in Stored(users)
                          /\ row.tenant \in Stored(tenants)
  BY <1>2, <1>3, <1>4, <1>5, <1>6 DEF Stored, TypeOK, Tables
<1>9. where = "commit" /\ c.op = "updateUser" /\ c.change.role # Keep =>
          c.change.role # "OWNER" /\ users[c.user].role # "OWNER"
  BY <1>3, <1>6
<1>10. /\ users[c.actor].role = "OWNER" /\ users[c.actor].tenant = read[r].tenant
       /\ where = "commit" => row.tenant = read[r].tenant /\ users[c.user].tenant = row.tenant
       /\ where = "commit" /\ c.op = "deleteUser" => users[c.user].role # "OWNER"
  BY <1>1, <1>2, <1>6 DEF Sound, Checked
<1>11. Sound(r)'
  BY <1>1, <1>3, <1>4, <1>6, <1>7, <1>8, <1>9, <1>10
  DEF Sound, StepFits, ReadFits, Checked, Truthful, TenantOps, UserOps
<1>12. QED
  BY <1>1, <1>7, <1>11, QuietStep

LEMMA QueueVerificationStep ==
    ASSUME RegistryInv, NEW r \in Requests, QueueVerification(r)
    PROVE  RegistryInv'
<1>1. /\ pc[r] = "queue" /\ tries' = [tries EXCEPT ![r] = @ + 1]
      /\ UNCHANGED <<tenants, users, call, read, wrote, bare, retired>>
  BY DEF QueueVerification
<1>2. TypeOK /\ Sound(r)
  BY DEF RegistryInv
<1>3. tries[r] \in Nat /\ tries[r] < 3 /\ tries'[r] = tries[r] + 1 /\ tries'[r] \in 0 .. 3
  BY <1>1, <1>2 DEF Sound, StepFits, TypeOK, MaxTries
<1>4. PICK where \in {"queue", "answered", "failed"} :
        /\ pc' = [pc EXCEPT ![r] = where]
        /\ where = "queue" => tries'[r] # 3
  BY DEF QueueVerification, Goto, MaxTries, Answer
<1>5. TypeOK' /\ OnlyMoves(r) /\ pc'[r] = where
  BY <1>1, <1>2, <1>3, <1>4 DEF TypeOK, OnlyMoves, MaxTries
<1>6. Sound(r)'
  BY <1>1, <1>2, <1>3, <1>4, <1>5
  DEF Sound, StepFits, ReadFits, Checked, Truthful, TenantOps, UserOps, MaxTries
<1>7. QED
  BY <1>1, <1>5, <1>6, QuietStep

LEMMA RefreshStep ==
    ASSUME RegistryInv, NEW r \in Requests, Refresh(r)
    PROVE  RegistryInv'
<1> DEFINE row == IF AboutUser(call[r]) THEN users[wrote[r]] ELSE tenants[wrote[r]]
<1>1. /\ pc[r] = "refresh" /\ read' = [read EXCEPT ![r] = row]
      /\ UNCHANGED <<tenants, users, call, tries, wrote, bare, retired>>
  BY DEF Refresh, Queries
<1>2. TypeOK /\ Sound(r)
  BY DEF RegistryInv
<1>3. row \in TenantRow \cup UserRow
  BY <1>1, <1>2 DEF Sound, ReadFits, TypeOK, Stored
<1>4. PICK where \in {"queue", "answered", "failed"} :
        /\ pc' = [pc EXCEPT ![r] = where]
        /\ where = "queue" => call[r].op = "register"
  BY DEF Refresh, Goto, Answer
<1>5. TypeOK' /\ OnlyMoves(r) /\ pc'[r] = where
  BY <1>1, <1>2, <1>3, <1>4 DEF TypeOK, OnlyMoves
<1>6. Sound(r)'
  BY <1>1, <1>2, <1>4, <1>5 DEF Sound, StepFits, ReadFits, Checked, Truthful, MaxTries
<1>7. QED
  BY <1>1, <1>5, <1>6, QuietStep

LEMMA CrashStep ==
    ASSUME RegistryInv, NEW r \in Requests, Crash(r)
    PROVE  RegistryInv'
<1>1. /\ pc[r] # "unsent" /\ pc' = [pc EXCEPT ![r] = "dead"]
      /\ UNCHANGED <<tenants, users, call, read, tries, wrote, bare, retired>>
  BY DEF Crash, Goto
<1>2. TypeOK /\ Sound(r)
  BY DEF RegistryInv
<1>3. TypeOK' /\ OnlyMoves(r) /\ pc'[r] = "dead"
  BY <1>1, <1>2 DEF TypeOK, OnlyMoves
<1>4. Sound(r)'
  BY <1>1, <1>2, <1>3 DEF Sound, StepFits, ReadFits, Checked, Truthful
<1>5. QED
  BY <1>1, <1>3, <1>4, QuietStep

\* A commit that is refused by a constraint is a quiet step.
LEMMA RefusedCommit ==
    ASSUME RegistryInv, NEW r \in Requests, pc[r] = "commit", pc' = [pc EXCEPT ![r] = "refused"],
           UNCHANGED <<tenants, users, call, read, tries, wrote, bare, retired>>
    PROVE  RegistryInv'
<1>1. TypeOK /\ Sound(r)
  BY DEF RegistryInv
<1>2. TypeOK' /\ OnlyMoves(r) /\ pc'[r] = "refused"
  BY <1>1 DEF TypeOK, OnlyMoves
<1>3. Sound(r)'
  BY <1>1, <1>2 DEF Sound, StepFits, ReadFits, Checked, Truthful
<1>4. QED
  BY <1>2, <1>3, QuietStep

\* A commit that is not has its request answered, or about to read its row again.
LEMMA DoneCommit ==
    ASSUME RegistryInv, NEW r \in Requests, NEW where \in {"answered", "refresh"},
           NEW i \in Tenants \cup Users,
           pc[r] = "commit", pc' = [pc EXCEPT ![r] = where],
           wrote' = [wrote EXCEPT ![r] = i], UNCHANGED <<call, read, tries>>,
           tenants' \in [Tenants -> TenantRow \cup {None}],
           users' \in [Users -> UserRow \cup {None}],
           bare' \subseteq Tenants, retired' \subseteq Users, TableStep, Tables',
           where = "refresh" =>
               IF AboutUser(call[r])
               THEN i \in Stored(users')
               ELSE call[r].op \in {"register", "createTenant", "updateTenant"}
                    /\ i \in Stored(tenants')
    PROVE  RegistryInv'
<1>1. TypeOK /\ Sound(r)
  BY DEF RegistryInv
<1>2. TypeOK' /\ OnlyMoves(r) /\ pc'[r] = where /\ wrote'[r] = i /\ i # None
  BY <1>1, MarksDiffer DEF TypeOK, OnlyMoves
<1>3. Sound(r)'
  BY <1>1, <1>2 DEF Sound, StepFits, ReadFits, Checked, Truthful, MaxTries, AboutUser
<1>4. QED
  BY <1>2, <1>3, OneMoves

\* Tables that get a row, or change one, without disturbing the others.
LEMMA TenantCommitted ==
    ASSUME RegistryInv, NEW t \in Tenants, NEW row \in TenantRow,
           tenants' = [tenants EXCEPT ![t] = row], TenantFits(t, row),
           UNCHANGED <<users, retired>>,
           t \in Stored(tenants) \/ t \in bare', bare \subseteq bare'
    PROVE  TableStep /\ Tables'
<1>1. TypeOK /\ Tables
  BY DEF RegistryInv
<1>2. row # None
  BY MarksDiffer
<1>3. Stored(tenants') = Stored(tenants) \cup {t} /\ Stored(users') = Stored(users)
  BY <1>1, <1>2 DEF Stored, TypeOK
<1>4. tenants'[t] = row /\ \A s \in Stored(tenants) \ {t} : tenants'[s] = tenants[s]
  BY <1>1 DEF TypeOK, Stored
<1>5. TableStep
  BY <1>3 DEF TableStep
<1>6. IdentifiersDiffer'
  <2> SUFFICES ASSUME NEW a \in Stored(tenants'), NEW b \in Stored(tenants'), a # b
               PROVE  /\ tenants'[a].domain # None => tenants'[a].domain # tenants'[b].domain
                      /\ tenants'[a].number # None => tenants'[a].number # tenants'[b].number
    BY DEF IdentifiersDiffer
  <2>1. CASE a = t
    BY <1>3, <1>4, <2>1 DEF TenantFits
  <2>2. CASE b = t
    BY <1>3, <1>4, <2>2 DEF TenantFits
  <2>3. CASE a # t /\ b # t
    BY <1>1, <1>3, <1>4, <2>3 DEF Tables, IdentifiersDiffer
  <2>4. QED
    BY <2>1, <2>2, <2>3
<1>7. EmailsDiffer'
  BY <1>1 DEF Tables, EmailsDiffer
<1>8. Owned'
  BY <1>1, <1>3 DEF Tables, Owned, HasOwner
<1>9. \A u \in Stored(users') : users'[u].tenant \in Stored(tenants')
  BY <1>1, <1>3 DEF Tables
<1>10. Retirement'
  BY <1>1 DEF Tables, Retirement
<1>11. QED
  BY <1>5, <1>6, <1>7, <1>8, <1>9, <1>10 DEF Tables

LEMMA UserCommitted ==
    ASSUME RegistryInv, NEW u \in Stored(users), NEW row \in UserRow,
           users' = [users EXCEPT ![u] = row], UNCHANGED <<tenants, bare>>,
           row.tenant = users[u].tenant, row.email = users[u].email,
           row.role = "OWNER" <=> users[u].role = "OWNER",
           retired \ {u} \subseteq retired',
           row.role = "OWNER" /\ ~IsActive(row) => u \in retired'
    PROVE  TableStep /\ Tables' /\ users' \in [Users -> UserRow \cup {None}]
<1>1. TypeOK /\ Tables
  BY DEF RegistryInv
<1>2. row # None
  BY MarksDiffer
<1>3. u \in Users /\ users' \in [Users -> UserRow \cup {None}] /\ users'[u] = row
      /\ \A v \in Users \ {u} : users'[v] = users[v]
  BY <1>1 DEF TypeOK, Stored
<1>4. Stored(users') = Stored(users) /\ Stored(users) \subseteq Users
  BY <1>1, <1>2, <1>3 DEF Stored, TypeOK
<1>5. \A v \in Stored(users) : /\ users'[v].tenant = users[v].tenant
                               /\ users'[v].email = users[v].email
                               /\ users'[v].role = "OWNER" <=> users[v].role = "OWNER"
  BY <1>3, <1>4
<1>6. TableStep
  BY <1>4, <1>5 DEF TableStep
<1>7. EmailsDiffer'
  BY <1>1, <1>4, <1>5 DEF Tables, EmailsDiffer
<1>8. Owned'
  BY <1>1, <1>4, <1>5 DEF Tables, Owned, HasOwner, Stored
<1>9. IdentifiersDiffer'
  BY <1>1 DEF Tables, IdentifiersDiffer
<1>10. \A v \in Stored(users') : users'[v].tenant \in Stored(tenants')
  BY <1>1, <1>4, <1>5 DEF Tables
<1>11. Retirement'
  BY <1>1, <1>3, <1>4 DEF Tables, Retirement
<1>12. QED
  BY <1>3, <1>6, <1>7, <1>8, <1>9, <1>10, <1>11 DEF Tables

\* A new row that fits, fits wherever it is put.
LEMMA FreshFits ==
    ASSUME TypeOK, NEW row, TenantFits(None, row), NEW t
    PROVE  TenantFits(t, row)
<1>1. None \notin Stored(tenants)
  BY MarksDiffer DEF Stored, TypeOK
<1>2. QED
  BY <1>1 DEF TenantFits

LEMMA CommitTenantStep ==
    ASSUME RegistryInv, NEW r \in Requests, CommitTenant(r)
    PROVE  RegistryInv'
<1> DEFINE row == NewTenant(call[r])
<1>1. pc[r] = "commit" /\ call[r].op = "createTenant"
      /\ UNCHANGED <<call, read, tries, users, retired>>
  BY DEF CommitTenant, Rest
<1>2. TypeOK /\ call[r] \in CreateTenantCalls
  BY <1>1, CallShapes DEF RegistryInv, Sound, StepFits
<1>3. row \in TenantRow
  BY <1>2 DEF NewTenant, TenantRow, CreateTenantCalls, Flags
<1>4. CASE TenantFits(None, row)
  <2>1. PICK t \in Tenants \ Stored(tenants) :
          /\ tenants' = [tenants EXCEPT ![t] = row]
          /\ bare' = bare \cup {t}
          /\ wrote' = [wrote EXCEPT ![r] = t]
          /\ pc' = [pc EXCEPT ![r] = "refresh"]
    BY <1>4 DEF CommitTenant, Goto, Writes
  <2>2. TenantFits(t, row)
    BY <1>2, <1>4, FreshFits
  <2>3. TableStep /\ Tables'
    BY <1>1, <1>3, <2>1, <2>2, TenantCommitted
  <2>4. tenants' \in [Tenants -> TenantRow \cup {None}] /\ bare' \subseteq Tenants
        /\ users' \in [Users -> UserRow \cup {None}]
    BY <1>1, <1>2, <1>3, <2>1 DEF TypeOK
  <2>5. t \in Stored(tenants') /\ ~AboutUser(call[r])
    BY <1>1, <1>2, <1>3, <2>1, MarksDiffer DEF TypeOK, Stored, AboutUser
  <2>6. QED
    BY <1>1, <1>2, <2>1, <2>3, <2>4, <2>5, DoneCommit DEF TypeOK
<1>5. CASE ~TenantFits(None, row)
  <2>1. pc' = [pc EXCEPT ![r] = "refused"] /\ UNCHANGED <<tenants, bare, wrote>>
    BY <1>5 DEF CommitTenant, Goto
  <2>2. QED
    BY <1>1, <2>1, RefusedCommit
<1>6. QED
  BY <1>4, <1>5

LEMMA CommitTenantUpdateStep ==
    ASSUME RegistryInv, NEW r \in Requests, CommitTenantUpdate(r)
    PROVE  RegistryInv'
<1> DEFINE t == call[r].tenant
           row == UpdatedTenant(tenants[t], read[r], call[r].change)
<1>1. pc[r] = "commit" /\ call[r].op = "updateTenant"
      /\ UNCHANGED <<call, read, tries, users, bare, retired>>
  BY DEF CommitTenantUpdate, Rest, Updating
<1>2. TypeOK /\ call[r] \in UpdateTenantCalls
  BY <1>1, CallShapes DEF RegistryInv, Sound, StepFits
<1>3. t \in Tenants /\ t \in Stored(tenants) /\ read[r] \in TenantRow
      /\ call[r].change \in TenantChanges
  BY <1>1, <1>2 DEF RegistryInv, Sound, ReadFits, TenantOps, UpdateTenantCalls
<1>4. tenants[t] \in TenantRow
  BY <1>2, <1>3 DEF TypeOK, Stored
<1>5. row \in TenantRow
  BY <1>3, <1>4, UpdatedTenantType
<1>6. CASE TenantFits(t, row)
  <2>1. /\ tenants' = [tenants EXCEPT ![t] = row]
        /\ wrote' = [wrote EXCEPT ![r] = t]
        /\ pc' = [pc EXCEPT ![r] = "refresh"]
    BY <1>6 DEF CommitTenantUpdate, Goto, Writes
  <2>2. TableStep /\ Tables'
    BY <1>1, <1>3, <1>5, <1>6, <2>1, TenantCommitted
  <2>3. tenants' \in [Tenants -> TenantRow \cup {None}] /\ bare' \subseteq Tenants
        /\ users' \in [Users -> UserRow \cup {None}]
    BY <1>1, <1>2, <1>5, <2>1 DEF TypeOK
  <2>4. t \in Stored(tenants') /\ ~AboutUser(call[r])
    BY <1>1, <1>3, <2>2 DEF TableStep, AboutUser
  <2>5. QED
    BY <1>1, <1>2, <1>3, <2>1, <2>2, <2>3, <2>4, DoneCommit DEF TypeOK
<1>7. CASE ~TenantFits(t, row)
  <2>1. pc' = [pc EXCEPT ![r] = "refused"] /\ UNCHANGED <<tenants, wrote>>
    BY <1>7 DEF CommitTenantUpdate, Goto
  <2>2. QED
    BY <1>1, <2>1, RefusedCommit
<1>8. QED
  BY <1>6, <1>7

LEMMA CommitActiveStep ==
    ASSUME RegistryInv, NEW r \in Requests, CommitActive(r)
    PROVE  RegistryInv'
<1> DEFINE t == call[r].tenant
           row == [tenants[t] EXCEPT !.active = call[r].active]
<1>1. /\ pc[r] = "commit" /\ call[r].op = "setActive"
      /\ tenants' = [tenants EXCEPT ![t] = row]
      /\ wrote' = [wrote EXCEPT ![r] = t]
      /\ pc' = [pc EXCEPT ![r] = "answered"]
      /\ UNCHANGED <<call, read, tries, users, bare, retired>>
  BY DEF CommitActive, Rest, Goto, Writes
<1>2. TypeOK /\ Tables /\ call[r] \in SetActiveCalls
  BY <1>1, CallShapes DEF RegistryInv, Sound, StepFits
<1>3. t \in Tenants /\ t \in Stored(tenants) /\ call[r].active \in BOOLEAN
  BY <1>1, <1>2 DEF RegistryInv, Sound, ReadFits, TenantOps, SetActiveCalls
<1>4. tenants[t] \in TenantRow
  BY <1>2, <1>3 DEF TypeOK, Stored
<1>5. row \in TenantRow /\ row.domain = tenants[t].domain /\ row.number = tenants[t].number
  BY <1>3, <1>4 DEF TenantRow, Flags
<1>6. TenantFits(t, row)
  BY <1>2, <1>3, <1>5 DEF TenantFits, Tables, IdentifiersDiffer
<1>7. TableStep /\ Tables'
  BY <1>1, <1>3, <1>5, <1>6, TenantCommitted
<1>8. tenants' \in [Tenants -> TenantRow \cup {None}] /\ bare' \subseteq Tenants
      /\ users' \in [Users -> UserRow \cup {None}]
  BY <1>1, <1>2, <1>5 DEF TypeOK
<1>9. QED
  BY <1>1, <1>2, <1>3, <1>7, <1>8, DoneCommit DEF TypeOK

LEMMA CommitUserUpdateStep ==
    ASSUME RegistryInv, NEW r \in Requests, CommitUserUpdate(r)
    PROVE  RegistryInv'
<1> DEFINE u == call[r].user
           row == UpdatedUser(users[u], read[r], call[r].change)
<1>1. /\ pc[r] = "commit" /\ call[r].op = "updateUser"
      /\ users' = [users EXCEPT ![u] = row]
      /\ wrote' = [wrote EXCEPT ![r] = u]
      /\ pc' = [pc EXCEPT ![r] = "refresh"]
      /\ retired' = IF Retires(call[r], row) THEN retired \cup {u}
                     ELSE retired \ {v \in {u} : row.active = TRUE}
      /\ UNCHANGED <<call, read, tries, tenants, bare>>
  BY DEF CommitUserUpdate, Rest, Goto, Writes
<1>2. TypeOK /\ Sound(r) /\ call[r] \in UpdateUserCalls
  BY <1>1, CallShapes DEF RegistryInv, Sound, StepFits
<1>3. u \in Stored(users) /\ read[r] \in UserRow /\ call[r].change \in UserChanges
  BY <1>1, <1>2 DEF Sound, ReadFits, UserOps, UpdateUserCalls
<1>4. users[u] \in UserRow
  BY <1>2, <1>3 DEF TypeOK, Stored
<1>5. /\ row \in UserRow
      /\ row.tenant = users[u].tenant /\ row.email = users[u].email
      /\ row.role = Net(call[r].change.role, read[r].role, users[u].role)
  BY <1>3, <1>4, UpdatedUserType
<1>6. row.role = "OWNER" <=> users[u].role = "OWNER"
  BY <1>1, <1>2, <1>5 DEF Sound, Checked, Net
<1>7. ASSUME row.role = "OWNER", ~IsActive(row) PROVE u \in retired'
  <2>1. CASE IsActive(users[u])
    <3>1. call[r].change.active \in {FALSE, None}
      BY <1>3, <1>4, <1>7, <2>1, MarksDiffer DEF UpdatedUser, Net, UserRow, UserChanges, Flags, IsActive
    <3>2. users[call[r].actor].role = "OWNER" /\ users[call[r].actor].tenant = row.tenant
      BY <1>1, <1>2, <1>5 DEF Sound, Checked, UserOps
    <3>3. Retires(call[r], row)
      BY <1>7, <2>1, <3>1, <3>2 DEF Retires, IsActive
    <3>4. QED
      BY <1>1, <3>3
  <2>2. CASE ~IsActive(users[u])
    <3>1. u \in retired
      BY <1>3, <1>6, <1>7, <2>2 DEF RegistryInv, Tables, Retirement
    <3>2. QED
      BY <1>1, <1>7, <3>1 DEF IsActive
  <2>3. QED
    BY <2>1, <2>2
<1>8. retired \ {u} \subseteq retired' /\ retired' \subseteq Users
  BY <1>1, <1>2, <1>3 DEF TypeOK, Stored
<1>9. TableStep /\ Tables' /\ users' \in [Users -> UserRow \cup {None}]
  BY <1>1, <1>3, <1>5, <1>6, <1>7, <1>8, UserCommitted
<1>10. u \in Users /\ u \in Stored(users') /\ AboutUser(call[r])
  BY <1>1, <1>2, <1>3, <1>9 DEF TableStep, AboutUser, TypeOK, Stored
<1>11. QED
  BY <1>1, <1>2, <1>8, <1>9, <1>10, DoneCommit DEF TypeOK

LEMMA CommitDeleteStep ==
    ASSUME RegistryInv, NEW r \in Requests, CommitDelete(r)
    PROVE  RegistryInv'
<1> DEFINE u == call[r].user
           active == Net(FALSE, read[r].active, users[u].active)
           row == [users[u] EXCEPT !.active = active]
<1>1. /\ pc[r] = "commit" /\ call[r].op = "deleteUser"
      /\ users' = [users EXCEPT ![u] = row]
      /\ wrote' = [wrote EXCEPT ![r] = u]
      /\ pc' = [pc EXCEPT ![r] = "answered"]
      /\ UNCHANGED <<call, read, tries, tenants, bare, retired>>
  BY DEF CommitDelete, Rest, Goto, Writes
<1>2. TypeOK /\ Sound(r)
  BY DEF RegistryInv
<1>3. u \in Stored(users)
  BY <1>1, <1>2 DEF Sound, ReadFits, UserOps
<1>4. users[u] \in UserRow /\ users[u].active \in Flags /\ FALSE \in Flags \cup {Keep}
  BY <1>2, <1>3 DEF TypeOK, Stored, UserRow, Flags
<1>5. active \in Flags
  BY <1>4, NetType, Zenon
<1>6. /\ row \in UserRow
      /\ row.tenant = users[u].tenant /\ row.email = users[u].email
      /\ row.role = users[u].role /\ row.role # "OWNER"
  <2>1. users[u].role # "OWNER"
    BY <1>1, <1>2 DEF Sound, Checked, UserOps
  <2> HIDE DEF active
  <2> QED
    BY <1>4, <1>5, <2>1 DEF UserRow
<1>7. TableStep /\ Tables' /\ users' \in [Users -> UserRow \cup {None}]
  BY <1>1, <1>3, <1>6, UserCommitted
<1>8. u \in Users
  BY <1>2, <1>3 DEF TypeOK, Stored
<1>9. QED
  BY <1>1, <1>2, <1>7, <1>8, DoneCommit DEF TypeOK

LEMMA CommitUserStep ==
    ASSUME RegistryInv, NEW r \in Requests, CommitUser(r)
    PROVE  RegistryInv'
<1> DEFINE email == Lower[call[r].email]
           row == [tenant |-> read[r].tenant, email |-> email, role |-> call[r].role,
                   active |-> TRUE, verified |-> TRUE, mustChange |-> TRUE]
<1>1. pc[r] = "commit" /\ call[r].op = "createUser"
      /\ UNCHANGED <<call, read, tries, tenants, bare, retired>>
  BY DEF CommitUser, Rest
<1>2. TypeOK /\ Tables /\ Sound(r) /\ call[r] \in CreateUserCalls
  BY <1>1, CallShapes DEF RegistryInv, Sound, StepFits
<1>3. /\ read[r].tenant \in Tenants /\ read[r].tenant \in Stored(tenants)
      /\ call[r].email \in Emails /\ call[r].role \in Roles
  BY <1>1, <1>2 DEF Sound, ReadFits, CreateUserCalls, UserRow
<1>4. email \in Emails /\ Lower[email] = email
  BY <1>3, LowerIsLower
<1>5. row \in UserRow /\ row # None
  <2>1. row \in UserRow
    BY <1>3, <1>4 DEF UserRow, Flags
  <2>2. QED
    BY <2>1, MarksDiffer
<1>6. \A u \in Stored(users) :
          users[u].tenant = read[r].tenant /\ Lower[users[u].email] = email
              => users[u].email = email
  BY <1>1, <1>2 DEF Sound, Checked
<1>7. CASE UserFits(row)
  <2>1. PICK u \in Users \ Stored(users) :
          /\ users' = [users EXCEPT ![u] = row]
          /\ wrote' = [wrote EXCEPT ![r] = u]
          /\ pc' = [pc EXCEPT ![r] = "refresh"]
    BY <1>7 DEF CommitUser, Goto, Writes
  <2>2. /\ users' \in [Users -> UserRow \cup {None}]
        /\ users'[u] = row
        /\ \A v \in Users \ {u} : users'[v] = users[v]
    BY <1>2, <1>5, <2>1 DEF TypeOK
  <2>3. Stored(users') = Stored(users) \cup {u} /\ Stored(users) \subseteq Users \ {u}
    BY <1>2, <1>5, <2>1, <2>2 DEF Stored, TypeOK
  <2>4. TableStep
    BY <1>1, <1>4, <2>2, <2>3 DEF TableStep
  <2>5. \A v \in Stored(users) : users[v].tenant = read[r].tenant => Lower[users[v].email] # email
    BY <1>6, <1>7 DEF UserFits
  <2>6. EmailsDiffer'
    <3> SUFFICES ASSUME NEW v \in Stored(users'), NEW w \in Stored(users'), v # w,
                        users'[v].tenant = users'[w].tenant
                 PROVE  Lower[users'[v].email] # Lower[users'[w].email]
      BY DEF EmailsDiffer
    <3>1. CASE v = u
      BY <1>4, <2>2, <2>3, <2>5, <3>1
    <3>2. CASE w = u
      BY <1>4, <2>2, <2>3, <2>5, <3>2
    <3>3. CASE v # u /\ w # u
      BY <1>2, <2>2, <2>3, <3>3 DEF Tables, EmailsDiffer
    <3>4. QED
      BY <3>1, <3>2, <3>3
  <2>7. Owned'
    BY <1>1, <1>2, <2>2, <2>3 DEF Tables, Owned, HasOwner
  <2>8. IdentifiersDiffer'
    BY <1>1, <1>2 DEF Tables, IdentifiersDiffer
  <2>9. \A v \in Stored(users') : users'[v].tenant \in Stored(tenants')
    BY <1>1, <1>2, <1>3, <2>2, <2>3 DEF Tables
  <2>10. Retirement'
    BY <1>1, <1>2, <2>2, <2>3 DEF Tables, Retirement, IsActive
  <2>11. Tables'
    BY <2>6, <2>7, <2>8, <2>9, <2>10 DEF Tables
  <2>12. AboutUser(call[r])
    BY <1>1 DEF AboutUser
  <2>13. QED
    BY <1>1, <1>2, <2>1, <2>2, <2>3, <2>4, <2>11, <2>12, DoneCommit DEF TypeOK
<1>8. CASE ~UserFits(row)
  <2>1. pc' = [pc EXCEPT ![r] = "refused"] /\ UNCHANGED <<users, wrote>>
    BY <1>8 DEF CommitUser, Goto
  <2>2. QED
    BY <1>1, <2>1, RefusedCommit
<1>9. QED
  BY <1>7, <1>8

LEMMA CommitRegistrationStep ==
    ASSUME RegistryInv, NEW r \in Requests, CommitRegistration(r)
    PROVE  RegistryInv'
<1> DEFINE tenant == NewTenant(call[r])
           owner(t) == [tenant |-> t, email |-> call[r].email, role |-> "OWNER",
                        active |-> TRUE, verified |-> FALSE, mustChange |-> FALSE]
<1>1. pc[r] = "commit" /\ call[r].op = "register" /\ UNCHANGED <<call, read, tries, bare, retired>>
  BY DEF CommitRegistration, Rest
<1>2. TypeOK /\ Tables /\ Sound(r) /\ call[r] \in RegisterCalls
  BY <1>1, CallShapes DEF RegistryInv, Sound, StepFits
<1>3. tenant \in TenantRow /\ tenant # None
  <2>1. tenant \in TenantRow
    BY <1>2 DEF NewTenant, TenantRow, RegisterCalls, Flags
  <2>2. QED
    BY <2>1, MarksDiffer
<1>4. CASE TenantFits(None, tenant)
  <2>1. PICK t \in Tenants \ Stored(tenants), u \in Users \ Stored(users) :
          /\ tenants' = [tenants EXCEPT ![t] = tenant]
          /\ users' = [users EXCEPT ![u] = owner(t)]
          /\ wrote' = [wrote EXCEPT ![r] = t]
          /\ pc' = [pc EXCEPT ![r] = "refresh"]
    BY <1>4 DEF CommitRegistration, Goto, Writes
  <2>2. owner(t) \in UserRow /\ owner(t) # None
    <3>1. owner(t) \in UserRow
      BY <1>2, <2>1 DEF UserRow, Roles, RegisterCalls, Flags
    <3>2. QED
      BY <3>1, MarksDiffer
  <2>3. /\ tenants' \in [Tenants -> TenantRow \cup {None}]
        /\ tenants'[t] = tenant
        /\ \A s \in Tenants \ {t} : tenants'[s] = tenants[s]
        /\ Stored(tenants') = Stored(tenants) \cup {t}
        /\ Stored(tenants) \subseteq Tenants \ {t}
    BY <1>2, <1>3, <2>1 DEF TypeOK, Stored
  <2>4. /\ users' \in [Users -> UserRow \cup {None}]
        /\ users'[u] = owner(t)
        /\ \A v \in Users \ {u} : users'[v] = users[v]
        /\ Stored(users') = Stored(users) \cup {u}
        /\ Stored(users) \subseteq Users \ {u}
    BY <1>2, <2>1, <2>2 DEF TypeOK, Stored
  <2>5. TableStep
    <3>1. owner(t).tenant = t
      OBVIOUS
    <3> HIDE DEF tenant, owner
    <3>2. QED
      BY <2>1, <2>3, <2>4, <3>1 DEF TableStep
  <2>6. TenantFits(t, tenant)
    BY <1>2, <1>4, FreshFits
  <2>7. IdentifiersDiffer'
    <3> SUFFICES ASSUME NEW a \in Stored(tenants'), NEW b \in Stored(tenants'), a # b
                 PROVE  /\ tenants'[a].domain # None => tenants'[a].domain # tenants'[b].domain
                        /\ tenants'[a].number # None => tenants'[a].number # tenants'[b].number
      BY DEF IdentifiersDiffer
    <3> HIDE DEF tenant
    <3>1. CASE a = t
      BY <2>3, <2>6, <3>1 DEF TenantFits
    <3>2. CASE b = t
      BY <2>3, <2>6, <3>2 DEF TenantFits
    <3>3. CASE a # t /\ b # t
      BY <1>2, <2>3, <3>3 DEF Tables, IdentifiersDiffer
    <3>4. QED
      BY <3>1, <3>2, <3>3
  <2>8. EmailsDiffer'
    <3> SUFFICES ASSUME NEW v \in Stored(users'), NEW w \in Stored(users'), v # w,
                        users'[v].tenant = users'[w].tenant
                 PROVE  Lower[users'[v].email] # Lower[users'[w].email]
      BY DEF EmailsDiffer
    <3>1. users'[u].tenant = t /\ t \notin Stored(tenants)
      BY <2>1, <2>4
    <3>2. \A x \in Stored(users) : x # u /\ users'[x].tenant # t
      BY <1>2, <2>4, <3>1 DEF Tables
    <3>3. v # u /\ w # u
      BY <2>4, <3>1, <3>2
    <3>4. QED
      BY <1>2, <2>4, <3>3 DEF Tables, EmailsDiffer
  <2>9. Owned'
    BY <1>1, <1>2, <2>3, <2>4 DEF Tables, Owned, HasOwner
  <2>10. \A v \in Stored(users') : users'[v].tenant \in Stored(tenants')
    BY <1>2, <2>3, <2>4 DEF Tables
  <2>11. Retirement'
    BY <1>1, <1>2, <2>4 DEF Tables, Retirement, IsActive
  <2>12. Tables'
    BY <2>7, <2>8, <2>9, <2>10, <2>11 DEF Tables
  <2>13. ~AboutUser(call[r])
    BY <1>1 DEF AboutUser
  <2>14. QED
    BY <1>1, <1>2, <2>1, <2>3, <2>4, <2>5, <2>12, <2>13, DoneCommit DEF TypeOK
<1>5. CASE ~TenantFits(None, tenant)
  <2>1. pc' = [pc EXCEPT ![r] = "refused"] /\ UNCHANGED <<tenants, users, wrote>>
    BY <1>5 DEF CommitRegistration, Goto
  <2>2. QED
    BY <1>1, <2>1, RefusedCommit
<1>6. QED
  BY <1>4, <1>5

LEMMA UserMoves ==
    ASSUME RegistryInv, NEW u \in Users, Verify(u) \/ ChangePassword(u)
    PROVE  RegistryInv'
<1>1. PICK row : /\ users' = [users EXCEPT ![u] = row]
                 /\ \/ row = [users[u] EXCEPT !.verified = TRUE]
                    \/ row = [users[u] EXCEPT !.mustChange = FALSE]
  BY DEF Verify, ChangePassword
<1>2. u \in Stored(users) /\ UNCHANGED <<tenants, pc, call, read, tries, wrote, bare, retired>>
  BY DEF Verify, ChangePassword
<1>3. TypeOK
  BY DEF RegistryInv
<1>4. users[u] \in UserRow
  BY <1>2, <1>3 DEF TypeOK, Stored
<1>5. /\ row \in UserRow
      /\ row.tenant = users[u].tenant /\ row.email = users[u].email
      /\ row.role = users[u].role /\ row.active = users[u].active
  BY <1>1, <1>4 DEF UserRow, Flags
<1>6. TableStep /\ Tables' /\ users' \in [Users -> UserRow \cup {None}]
  BY <1>1, <1>2, <1>5, UserCommitted DEF RegistryInv, Tables, Retirement, IsActive
<1>7. TypeOK'
  BY <1>2, <1>3, <1>6 DEF TypeOK
<1>8. ASSUME NEW r \in Requests PROVE Sound(r)'
  BY <1>2, <1>3, <1>6, <1>8, OthersKeepSound DEF RegistryInv
<1>9. QED
  BY <1>6, <1>7, <1>8 DEF RegistryInv

LEMMA RegistryStep == RegistryInv /\ [Next]_vars => RegistryInv'
<1> SUFFICES ASSUME RegistryInv, [Next]_vars PROVE RegistryInv'
  OBVIOUS
<1>1. ASSUME NEW r \in Requests, Step(r) PROVE RegistryInv'
  BY <1>1, SendStep, AuthenticateStep, LoadTenantStep, CheckOwnerStep, CheckDomainStep,
     CheckNumberStep, CheckEmailStep, CommitRegistrationStep, QueueVerificationStep,
     CommitTenantStep, CommitTenantUpdateStep, CommitActiveStep, CommitUserStep,
     LoadUserStep, CommitUserUpdateStep, CommitDeleteStep, RefreshStep, CrashStep DEF Step
<1>2. ASSUME NEW u \in Users, Verify(u) \/ ChangePassword(u) PROVE RegistryInv'
  BY <1>2, UserMoves
<1>3. CASE UNCHANGED vars
  <2>1. TableStep /\ Tables'
    BY <1>3, QuietTables DEF vars
  <2>2. TypeOK'
    BY <1>3 DEF RegistryInv, TypeOK, vars
  <2>3. ASSUME NEW r \in Requests PROVE Sound(r)'
    BY <1>3, <2>1, <2>3, OthersKeepSound DEF RegistryInv, vars
  <2>4. QED
    BY <2>1, <2>2, <2>3 DEF RegistryInv
<1>4. QED
  BY <1>1, <1>2, <1>3 DEF Next

LEMMA RegistryAlways == Spec => []RegistryInv
  BY RegistryInit, RegistryStep, PTL DEF Spec

\* The type invariant of the registry.
THEOREM RegistryTypeCorrect == Spec => []TypeOK
<1>1. RegistryInv => TypeOK
  BY DEF RegistryInv
<1>2. QED
  BY <1>1, RegistryAlways, PTL

\* No two tenants ever share a domain or a registration number.
THEOREM IdentifiersAlwaysDiffer == Spec => []IdentifiersDiffer
<1>1. RegistryInv => IdentifiersDiffer
  BY DEF RegistryInv, Tables
<1>2. QED
  BY <1>1, RegistryAlways, PTL

\* No two users of one tenant ever have the same address, whatever its case.
THEOREM EmailsAlwaysDiffer == Spec => []EmailsDiffer
<1>1. RegistryInv => EmailsDiffer
  BY DEF RegistryInv, Tables
<1>2. QED
  BY <1>1, RegistryAlways, PTL

\* A tenant that was registered with its owner has an owner for ever, and one that
\* is active unless an owner of the tenant has asked update_user to end that.
THEOREM RegisteredAlwaysHaveOwner == Spec => []RegisteredHaveOwner
<1>1. RegistryInv => RegisteredHaveOwner
  BY DEF RegistryInv, Tables, Owned, HasOwner, Retirement, RegisteredHaveOwner, IsActive
<1>2. QED
  BY <1>1, RegistryAlways, PTL

\* A step that changes a stored tenant is the commit of a request for it.
LEMMA WhoChangesATenant ==
    ASSUME RegistryInv, [Next]_vars, NEW t \in Stored(tenants), tenants'[t] # tenants[t]
    PROVE  \E r \in Requests :
               \/ CommitTenantUpdate(r) /\ CommitsBy(r) /\ call[r].tenant = t
               \/ CommitActive(r) /\ call[r].tenant = t
<1>1. TypeOK /\ t \in Tenants
  BY DEF RegistryInv, TypeOK, Stored
<1>2. ASSUME NEW r \in Requests, Step(r)
      PROVE  \/ CommitTenantUpdate(r) /\ CommitsBy(r) /\ call[r].tenant = t
             \/ CommitActive(r) /\ call[r].tenant = t
  <2>1. ~CommitRegistration(r) /\ ~CommitTenant(r)
    BY <1>1 DEF CommitRegistration, CommitTenant, TypeOK
  <2>2. CASE CommitTenantUpdate(r)
    <3>1. call[r].tenant = t /\ TenantFits(t, UpdatedTenant(tenants[t], read[r], call[r].change))
      BY <1>1, <2>2 DEF CommitTenantUpdate, TypeOK
    <3>2. wrote[r] = None /\ wrote'[r] = t /\ t # None
      BY <1>1, <2>2, <3>1, MarksDiffer
      DEF CommitTenantUpdate, Writes, RegistryInv, Sound, Truthful, TypeOK
    <3>3. QED
      BY <2>2, <3>1, <3>2 DEF CommitsBy
  <2>3. CASE CommitActive(r)
    BY <1>1, <2>3 DEF CommitActive, TypeOK
  <2>4. QED
    BY <1>2, <2>1, <2>2, <2>3
    DEF Step, Send, Authenticate, LoadTenant, CheckOwner, CheckDomain, CheckNumber, CheckEmail,
        QueueVerification, CommitUser, LoadUser, CommitUserUpdate, CommitDelete, Refresh, Crash,
        Queries
<1>3. QED
  BY <1>2 DEF Next, Verify, ChangePassword, vars

\* A tenant loses its last identifier only by an update that read identifiers
\* the tenant no longer has.
THEOREM OnlyOverlapLosesIdentifier == Spec => IdentifierLostByOverlap
<1>1. ASSUME RegistryInv, [Next]_vars, NEW t \in Stored(tenants), LosesIdentifier(t)
      PROVE  \E r \in Requests :
                 /\ CommitsBy(r) /\ Updating(call[r]) /\ call[r].tenant = t
                 /\ \/ read[r].domain # tenants[t].domain
                    \/ read[r].number # tenants[t].number
  <2>1. tenants'[t] # tenants[t]
    BY <1>1 DEF LosesIdentifier, HasIdentifier
  <2>2. PICK r \in Requests :
          \/ CommitTenantUpdate(r) /\ CommitsBy(r) /\ call[r].tenant = t
          \/ CommitActive(r) /\ call[r].tenant = t
    BY <1>1, <2>1, WhoChangesATenant
  <2>3. TypeOK /\ Sound(r) /\ t \in Tenants /\ tenants[t] \in TenantRow
    BY <1>1 DEF RegistryInv, TypeOK, Stored
  <2>4. ~CommitActive(r)
    BY <1>1, <2>2, <2>3
    DEF CommitActive, CommitTenantUpdate, Updating, LosesIdentifier, HasIdentifier, TypeOK,
        TenantRow
  <2>5. /\ pc[r] = "commit" /\ Updating(call[r]) /\ call[r].tenant = t /\ CommitsBy(r)
        /\ tenants'[t] = UpdatedTenant(tenants[t], read[r], call[r].change)
    BY <2>1, <2>2, <2>3, <2>4 DEF CommitTenantUpdate, TypeOK
  <2>6. Remains(read[r], call[r].change)
    BY <2>3, <2>5 DEF Sound, Checked, Updating
  <2>7. /\ Net(call[r].change.domain, read[r].domain, tenants[t].domain) = None
        /\ Net(call[r].change.number, read[r].number, tenants[t].number) = None
    BY <1>1, <2>5 DEF LosesIdentifier, HasIdentifier, UpdatedTenant
  <2>8. read[r].domain # tenants[t].domain \/ read[r].number # tenants[t].number
    BY <2>6, <2>7 DEF Remains, Assigned, Net
  <2>9. QED
    BY <2>5, <2>8
<1>2. RegistryInv /\ [Next]_vars => LosesOnlyByOverlap
  BY <1>1 DEF LosesOnlyByOverlap
<1>3. QED
  BY <1>2, RegistryAlways, PTL DEF Spec, IdentifierLostByOverlap

\* Once a tenant is there, another plan is put into its row by superadmins only.
THEOREM OnlySuperadminsChangePlans == Spec => PlanIsChangedBySuperadmins
<1>1. ASSUME RegistryInv, [Next]_vars, NEW t \in Stored(tenants),
             GivesPlan(t)
      PROVE  \E r \in Requests : CommitsBy(r) /\ Updating(call[r]) /\ call[r].actor = Root
  <2>0. tenants'[t] # tenants[t]
    BY <1>1 DEF GivesPlan
  <2>1. PICK r \in Requests :
          \/ CommitTenantUpdate(r) /\ CommitsBy(r) /\ call[r].tenant = t
          \/ CommitActive(r) /\ call[r].tenant = t
    BY <1>1, <2>0, WhoChangesATenant
  <2>2. TypeOK /\ Sound(r) /\ t \in Tenants /\ tenants[t] \in TenantRow
    BY <1>1 DEF RegistryInv, TypeOK, Stored
  <2>3. ~CommitActive(r)
    BY <1>1, <2>1, <2>2
    DEF GivesPlan, CommitActive, CommitTenantUpdate, Updating, TypeOK, TenantRow
  <2>4. /\ pc[r] = "commit" /\ Updating(call[r]) /\ CommitsBy(r)
        /\ tenants'[t] = UpdatedTenant(tenants[t], read[r], call[r].change)
    BY <2>0, <2>1, <2>2, <2>3 DEF CommitTenantUpdate, TypeOK
  <2>5. Net(call[r].change.plan, read[r].plan, tenants[t].plan) \notin {tenants[t].plan, None}
    BY <1>1, <2>4 DEF UpdatedTenant, GivesPlan
  <2>6. call[r].actor = Root
    BY <2>2, <2>4, <2>5 DEF Sound, Checked, Updating, Net
  <2>7. QED
    BY <2>4, <2>6
<1>2. RegistryInv /\ [Next]_vars => SuperadminGivesPlans
  BY <1>1 DEF SuperadminGivesPlans
<1>3. QED
  BY <1>2, RegistryAlways, PTL DEF Spec, PlanIsChangedBySuperadmins

-----------------------------------------------------------------------------

(***************************************************************************)
(* The answers.  A row shows a null only if the model began with it or a   *)
(* request has put it there, and what a request has written stays written. *)
(***************************************************************************)

BlankRows ==
    /\ \A t \in Stored(tenants) : ShowsTenant(tenants[t]) \/ MayBeBlank(t)
    /\ \A u \in Stored(users) : ShowsUser(users[u]) \/ MayBeBlank(u)

BlankAnswers == \A r \in Requests :
    /\ pc[r] = "queue" => ShowsTenant(read[r]) \/ MayBeBlank(wrote[r])
    /\ pc[r] = "failed" => MayBeBlank(wrote[r])

WrittenStays == \A q \in Requests :
    wrote[q] # None => wrote'[q] = wrote[q] /\ call'[q] = call[q]

LEMMA WhatIsWrittenStays ==
    ASSUME RegistryInv, [Next]_vars
    PROVE  WrittenStays
<1> SUFFICES ASSUME NEW q \in Requests, wrote[q] # None
             PROVE  wrote'[q] = wrote[q] /\ call'[q] = call[q]
  BY DEF WrittenStays
<1>1. TypeOK /\ pc[q] \notin {"unsent", "commit"}
  BY DEF RegistryInv, Sound, Truthful
<1>2. ASSUME NEW r \in Requests, Step(r) PROVE wrote'[q] = wrote[q] /\ call'[q] = call[q]
  <2>1. CASE pc[r] # "commit"
    BY <1>1, <1>2, <2>1
    DEF Step, Send, Authenticate, LoadTenant, CheckOwner, CheckDomain, CheckNumber, CheckEmail,
        QueueVerification, LoadUser, Refresh, Crash, Queries, CommitRegistration, CommitTenant,
        CommitTenantUpdate, CommitActive, CommitUser, CommitUserUpdate, CommitDelete, TypeOK
  <2>2. CASE pc[r] = "commit"
    <3>1. r # q
      BY <1>1, <2>2
    <3>2. call' = call /\ (wrote' = wrote \/ \E i : Writes(r, i))
      BY <1>2, <2>2
      DEF Step, Send, Authenticate, LoadTenant, CheckOwner, CheckDomain, CheckNumber, CheckEmail,
          QueueVerification, LoadUser, Refresh, Crash, CommitRegistration, CommitTenant,
          CommitTenantUpdate, CommitActive, CommitUser, CommitUserUpdate, CommitDelete, Rest
    <3>3. QED
      BY <1>1, <3>1, <3>2 DEF Writes, TypeOK
  <2>3. QED
    BY <2>1, <2>2
<1>3. QED
  BY <1>2 DEF Next, Verify, ChangePassword, vars

LEMMA BlankStays ==
    ASSUME WrittenStays, NEW i, i # None, MayBeBlank(i)
    PROVE  MayBeBlank(i)'
  BY DEF WrittenStays, MayBeBlank

LEMMA NetIsNull ==
    ASSUME NEW a, NEW l, NEW s, Net(a, l, s) = None
    PROVE  a = None \/ s = None
  BY DEF Net

\* A step that adds a tenant or changes one leaves no null that is not accounted for.
LEMMA TenantsBlank ==
    ASSUME RegistryInv, BlankRows, [Next]_vars, NEW t \in Stored(tenants')
    PROVE  ShowsTenant(tenants'[t]) \/ MayBeBlank(t)'
<1>1. TypeOK /\ RegistryInv' /\ WrittenStays
  BY RegistryStep, WhatIsWrittenStays DEF RegistryInv
<1>2. t \in Tenants /\ t # None
  BY <1>1, MarksDiffer DEF RegistryInv, TypeOK, Stored
<1>3. CASE t \in Stored(tenants) /\ tenants'[t] = tenants[t]
  BY <1>1, <1>2, <1>3, BlankStays DEF BlankRows, ShowsTenant
<1>4. CASE t \in Stored(tenants) /\ tenants'[t] # tenants[t]
  <2>1. PICK r \in Requests :
          \/ CommitTenantUpdate(r) /\ CommitsBy(r) /\ call[r].tenant = t
          \/ CommitActive(r) /\ call[r].tenant = t
    BY <1>4, WhoChangesATenant
  <2>2. Sound(r) /\ pc[r] = "commit" /\ tenants[t] \in TenantRow /\ call[r] \in Calls
    BY <1>1, <1>2, <1>4, <2>1
    DEF RegistryInv, Sound, StepFits, CommitTenantUpdate, CommitActive, TypeOK, Stored
  <2>3. CASE CommitTenantUpdate(r) /\ CommitsBy(r)
    <3>1. tenants'[t] = UpdatedTenant(tenants[t], read[r], call[r].change)
      BY <1>1, <1>2, <1>4, <2>1, <2>3 DEF CommitTenantUpdate, TypeOK
    <3>2. wrote'[r] = t /\ call' = call /\ Updating(call[r])
      BY <1>1, <1>2, <2>1, <2>3
      DEF CommitTenantUpdate, CommitsBy, Writes, Rest, CommitActive, TypeOK
    <3>3. CASE Clears(call[r])
      BY <3>2, <3>3 DEF MayBeBlank
    <3>4. CASE ~Clears(call[r]) /\ ShowsTenant(tenants[t])
      <4>1. call[r].change.plan # None /\ call[r].change.active # None
        BY <3>2, <3>4 DEF Clears
      <4>2. ShowsTenant(tenants'[t])
        BY <3>1, <3>4, <4>1, NetIsNull DEF UpdatedTenant, ShowsTenant
      <4>3. QED
        BY <4>2
    <3>5. CASE ~ShowsTenant(tenants[t])
      BY <1>1, <1>2, <1>4, <3>5, BlankStays DEF BlankRows
    <3>6. QED
      BY <3>3, <3>4, <3>5
  <2>4. CASE CommitActive(r)
    <3>1. /\ tenants'[t] = [tenants[t] EXCEPT !.active = call[r].active]
          /\ call[r].active \in BOOLEAN
      BY <1>1, <1>2, <2>1, <2>2, <2>4, CallShapes
      DEF CommitActive, CommitTenantUpdate, Updating, TypeOK, SetActiveCalls
    <3>2. tenants'[t].plan = tenants[t].plan /\ tenants'[t].active # None
      BY <2>2, <3>1, MarksDiffer DEF TenantRow
    <3>3. CASE ShowsTenant(tenants[t])
      BY <3>2, <3>3 DEF ShowsTenant
    <3>4. CASE ~ShowsTenant(tenants[t])
      BY <1>1, <1>2, <1>4, <3>4, BlankStays DEF BlankRows
    <3>5. QED
      BY <3>3, <3>4
  <2>5. QED
    BY <2>1, <2>3, <2>4
<1>5. CASE t \notin Stored(tenants)
  <2>1. PICK r \in Requests : CommitRegistration(r) \/ CommitTenant(r)
    <3>1. tenants' # tenants
      BY <1>5
    <3>2. ASSUME NEW r \in Requests, CommitTenantUpdate(r) \/ CommitActive(r) PROVE FALSE
      <4>1. call[r].tenant \in Stored(tenants)
        BY <3>2 DEF CommitTenantUpdate, CommitActive, Updating, RegistryInv, Sound, ReadFits,
                    TenantOps
      <4>2. \A s \in Tenants \ {call[r].tenant} : tenants'[s] = tenants[s]
        BY <1>1, <3>2 DEF CommitTenantUpdate, CommitActive, TypeOK
      <4>3. QED
        BY <1>1, <1>2, <1>5, <4>1, <4>2 DEF Stored, RegistryInv, TypeOK
    <3>3. QED
      BY <3>1, <3>2
      DEF Next, Step, Send, Authenticate, LoadTenant, CheckOwner, CheckDomain, CheckNumber,
          CheckEmail, QueueVerification, CommitUser, LoadUser, CommitUserUpdate, CommitDelete,
          Refresh, Crash, Queries, Verify, ChangePassword, Rest, vars
  <2>2. call[r] \in RegisterCalls \cup CreateTenantCalls
    BY <2>1, CallShapes DEF RegistryInv, Sound, StepFits, CommitRegistration, CommitTenant
  <2>3. tenants'[t] = NewTenant(call[r])
    BY <1>1, <1>2, <1>5, <2>1 DEF CommitRegistration, CommitTenant, TypeOK, Stored, RegistryInv
  <2>4. tenants'[t].plan \in Plans /\ tenants'[t].active = TRUE
    BY <2>2, <2>3 DEF NewTenant, RegisterCalls, CreateTenantCalls
  <2>5. None \notin Plans /\ TRUE # None
    <3>1. None \notin Plans
      BY MarksDiffer
    <3>2. TRUE \in BOOLEAN /\ None \notin BOOLEAN
      BY MarksDiffer
    <3>3. QED
      BY <3>1, <3>2, Zenon
  <2>6. tenants'[t].plan # None /\ tenants'[t].active # None
    BY <2>4, <2>5, Zenon
  <2>7. QED
    BY <2>6 DEF ShowsTenant
<1>6. QED
  BY <1>3, <1>4, <1>5

\* The same of users.
LEMMA UsersBlank ==
    ASSUME RegistryInv, BlankRows, [Next]_vars, NEW u \in Stored(users')
    PROVE  ShowsUser(users'[u]) \/ MayBeBlank(u)'
<1>1. TypeOK /\ RegistryInv' /\ WrittenStays
  BY RegistryStep, WhatIsWrittenStays DEF RegistryInv
<1>2. u \in Users /\ u # None
  BY <1>1, MarksDiffer DEF RegistryInv, TypeOK, Stored
<1>3. TRUE # None /\ FALSE # None
  <2>1. TRUE \in BOOLEAN /\ FALSE \in BOOLEAN /\ None \notin BOOLEAN
    BY MarksDiffer
  <2>2. QED
    BY <2>1, Zenon
<1>4. u \in Stored(users) => ShowsUser(users[u]) \/ MayBeBlank(u)'
  BY <1>1, <1>2, BlankStays DEF BlankRows
<1>5. CASE users'[u] = users[u]
  <2>1. u \in Stored(users)
    BY <1>1, <1>2, <1>5 DEF Stored, TypeOK
  <2>2. QED
    BY <1>4, <1>5, <2>1
<1>6. ASSUME NEW r \in Requests, Step(r), users'[u] # users[u]
      PROVE  ShowsUser(users'[u]) \/ MayBeBlank(u)'
  <2>1. Sound(r)
    BY DEF RegistryInv
  <2>2. CASE CommitRegistration(r)
    <3>1. users'[u].active = TRUE /\ users'[u].verified = FALSE
      BY <1>1, <1>2, <1>6, <2>2 DEF CommitRegistration, TypeOK
    <3>2. users'[u].active # None /\ users'[u].verified # None
      BY <1>3, <3>1, Zenon
    <3>3. QED
      BY <3>2 DEF ShowsUser
  <2>3. CASE CommitUser(r)
    <3>1. users'[u].active = TRUE /\ users'[u].verified = TRUE
      BY <1>1, <1>2, <1>6, <2>3 DEF CommitUser, TypeOK
    <3>2. users'[u].active # None /\ users'[u].verified # None
      BY <1>3, <3>1, Zenon
    <3>3. QED
      BY <3>2 DEF ShowsUser
  <2>4. CASE CommitUserUpdate(r)
    <3>1. /\ u = call[r].user /\ u \in Stored(users)
          /\ users'[u] = UpdatedUser(users[u], read[r], call[r].change)
          /\ wrote'[r] = u /\ call' = call /\ call[r].op = "updateUser"
      BY <1>1, <1>2, <1>6, <2>1, <2>4
      DEF CommitUserUpdate, Writes, Rest, TypeOK, Sound, ReadFits, UserOps
    <3>2. CASE Clears(call[r])
      BY <3>1, <3>2 DEF MayBeBlank
    <3>3. CASE ~Clears(call[r]) /\ ShowsUser(users[u])
      <4>1. call[r].change.active # None /\ call[r].change.verified # None
        BY <3>1, <3>3 DEF Clears
      <4>2. users[u] \in UserRow
        BY <1>1, <1>2, <3>1 DEF TypeOK, Stored
      <4>3. /\ users'[u].active = Net(call[r].change.active, read[r].active, users[u].active)
            /\ users'[u].verified =
                   Net(call[r].change.verified, read[r].verified, users[u].verified)
        BY <3>1, <4>2 DEF UpdatedUser, UserRow
      <4>4. QED
        BY <3>3, <4>1, <4>3, NetIsNull DEF ShowsUser
    <3>4. QED
      BY <1>4, <3>1, <3>2, <3>3
  <2>5. CASE CommitDelete(r)
    <3>1. /\ u = call[r].user /\ u \in Stored(users) /\ users[u] \in UserRow
          /\ users'[u] = [users[u] EXCEPT !.active = Net(FALSE, read[r].active, @)]
      BY <1>1, <1>2, <1>6, <2>1, <2>5
      DEF CommitDelete, TypeOK, Sound, ReadFits, UserOps, Stored
    <3>2. CASE ShowsUser(users[u])
      <4>1. /\ users'[u].active = Net(FALSE, read[r].active, users[u].active)
            /\ users'[u].verified = users[u].verified
        BY <3>1 DEF UserRow
      <4>2. QED
        BY <1>3, <3>2, <4>1, NetIsNull DEF ShowsUser
    <3>3. QED
      BY <1>4, <3>1, <3>2
  <2>6. QED
    BY <1>6, <2>2, <2>3, <2>4, <2>5
    DEF Step, Send, Authenticate, LoadTenant, CheckOwner, CheckDomain, CheckNumber, CheckEmail,
        QueueVerification, CommitTenant, CommitTenantUpdate, CommitActive, LoadUser, Refresh,
        Crash, Queries
<1>7. ASSUME NEW v \in Users, Verify(v) \/ ChangePassword(v), users'[u] # users[u]
      PROVE  ShowsUser(users'[u]) \/ MayBeBlank(u)'
  <2>1. u = v /\ u \in Stored(users) /\ users[u] \in UserRow
    BY <1>1, <1>2, <1>7 DEF Verify, ChangePassword, TypeOK, Stored
  <2>2. CASE ShowsUser(users[u])
    <3>1. /\ users'[u].active = users[u].active
          /\ users'[u].verified = TRUE \/ users'[u].verified = users[u].verified
      <4>1. \/ users'[u] = [users[u] EXCEPT !.verified = TRUE]
            \/ users'[u] = [users[u] EXCEPT !.mustChange = FALSE]
        BY <1>1, <1>7, <2>1 DEF Verify, ChangePassword, TypeOK
      <4>2. QED
        BY <2>1, <4>1 DEF UserRow
    <3>2. QED
      BY <1>3, <2>2, <3>1, Zenon DEF ShowsUser
  <2>3. QED
    BY <1>4, <2>1, <2>2
<1>8. QED
  BY <1>5, <1>6, <1>7 DEF Next, vars

Blank == RegistryInv /\ BlankRows /\ BlankAnswers

LEMMA BlankInit == Init => Blank
<1> SUFFICES ASSUME Init PROVE Blank
  OBVIOUS
<1>1. RegistryInv
  BY RegistryInit
<1>2. tenants = OldTenants /\ users = OldUsers /\ pc = [r \in Requests |-> "unsent"]
  BY DEF Init
<1>3. BlankRows
  BY <1>2 DEF BlankRows, MayBeBlank
<1>4. BlankAnswers
  BY <1>2 DEF BlankAnswers
<1>5. QED
  BY <1>1, <1>3, <1>4 DEF Blank

LEMMA BlankStep ==
    ASSUME Blank, [Next]_vars
    PROVE  Blank'
<1>1. RegistryInv /\ RegistryInv' /\ TypeOK /\ WrittenStays /\ BlankRows'
  BY RegistryStep, WhatIsWrittenStays, TenantsBlank, UsersBlank
  DEF Blank, BlankRows, RegistryInv, ShowsTenant, ShowsUser
<1>2. ASSUME NEW q \in Requests, pc'[q] \in {"queue", "failed"},
             pc'[q] # "queue" \/ ~ShowsTenant(read'[q])
      PROVE  MayBeBlank(wrote[q])'
  <2>1. wrote'[q] # None
    BY <1>1, <1>2 DEF RegistryInv, Sound, Truthful
  <2>2. CASE pc'[q] = pc[q] /\ read'[q] = read[q]
    <3>1. wrote[q] # None /\ MayBeBlank(wrote[q])
      BY <1>1, <1>2, <2>2 DEF Blank, BlankAnswers, RegistryInv, Sound, Truthful
    <3>2. wrote'[q] = wrote[q]
      BY <3>1, <1>1 DEF WrittenStays
    <3>3. QED
      BY <1>1, <3>1, <3>2, BlankStays
  <2>3. ASSUME Refresh(q) PROVE MayBeBlank(wrote[q])'
    <3>1. /\ pc[q] = "refresh" /\ wrote' = wrote /\ Sound(q)
          /\ read'[q] = IF AboutUser(call[q]) THEN users[wrote[q]] ELSE tenants[wrote[q]]
          /\ pc'[q] = IF call[q].op = "register" THEN "queue" ELSE Answer(call[q], read'[q])
      BY <1>1, <2>3 DEF Refresh, Queries, Goto, RegistryInv, TypeOK
    <3>2. CASE AboutUser(call[q])
      <4>1. ~ShowsUser(read'[q]) /\ wrote[q] \in Stored(users) /\ read'[q] = users[wrote[q]]
        BY <1>2, <3>1, <3>2 DEF Answer, AboutUser, Sound, ReadFits
      <4>2. MayBeBlank(wrote[q])
        BY <4>1 DEF Blank, BlankRows
      <4>3. QED
        BY <1>1, <2>1, <3>1, <4>2, BlankStays
    <3>3. CASE ~AboutUser(call[q])
      <4>1. ~ShowsTenant(read'[q]) /\ wrote[q] \in Stored(tenants) /\ read'[q] = tenants[wrote[q]]
        BY <1>2, <3>1, <3>3 DEF Answer, Sound, ReadFits
      <4>2. MayBeBlank(wrote[q])
        BY <4>1 DEF Blank, BlankRows
      <4>3. QED
        BY <1>1, <2>1, <3>1, <4>2, BlankStays
    <3>4. QED
      BY <3>2, <3>3
  <2>4. ASSUME QueueVerification(q) PROVE MayBeBlank(wrote[q])'
    <3>1. /\ pc[q] = "queue" /\ wrote' = wrote /\ read' = read /\ ~AboutUser(call[q])
          /\ pc'[q] \in {"queue", Answer(call[q], read[q])}
      BY <1>1, <2>4
      DEF QueueVerification, Goto, RegistryInv, TypeOK, Sound, StepFits, AboutUser
    <3>2. ~ShowsTenant(read[q])
      BY <1>2, <3>1 DEF Answer
    <3>3. MayBeBlank(wrote[q])
      BY <3>1, <3>2 DEF Blank, BlankAnswers
    <3>4. QED
      BY <1>1, <2>1, <3>1, <3>3, BlankStays
  <2>5. ASSUME NEW r \in Requests, Step(r), ~(Refresh(r) \/ QueueVerification(r)) \/ r # q
        PROVE  pc'[q] = pc[q] /\ read'[q] = read[q]
    <3>1. CASE r = q
      BY <1>1, <1>2, <2>5, <3>1
      DEF Step, Send, Authenticate, LoadTenant, CheckOwner, CheckDomain, CheckNumber, CheckEmail,
          LoadUser, Crash, CommitRegistration, CommitTenant, CommitTenantUpdate, CommitActive,
          CommitUser, CommitUserUpdate, CommitDelete, Goto, Continue, TypeOK
    <3>2. CASE r # q
      BY <1>1, <2>5, <3>2
      DEF Step, Send, Authenticate, LoadTenant, CheckOwner, CheckDomain, CheckNumber, CheckEmail,
          QueueVerification, LoadUser, Refresh, Crash, CommitRegistration, CommitTenant,
          CommitTenantUpdate, CommitActive, CommitUser, CommitUserUpdate, CommitDelete, Goto,
          Continue, Queries, Rest, TypeOK
    <3>3. QED
      BY <3>1, <3>2
  <2>6. QED
    BY <2>2, <2>3, <2>4, <2>5 DEF Next, Verify, ChangePassword, vars
<1>3. BlankAnswers'
  BY <1>2 DEF BlankAnswers, ShowsTenant
<1>4. QED
  BY <1>1, <1>3 DEF Blank

\* An answer of the registry tells whether the request was committed, and a 500
\* after a commit means that a null was put into the row, or a lost database.
THEOREM AnswersAreTrue == Spec => []AnswerIsTrue
<1>1. Init => Blank
  BY BlankInit
<1>2. Blank /\ [Next]_vars => Blank'
  BY BlankStep
<1>3. Blank => AnswerIsTrue
  BY DEF Blank, BlankAnswers, RegistryInv, Sound, Truthful, AnswerIsTrue
<1>4. QED
  BY <1>1, <1>2, <1>3, PTL DEF Spec

=============================================================================
