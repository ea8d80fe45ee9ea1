-------------------------- MODULE Deployment_proofs --------------------------
(***************************************************************************)
(* Theorems about Deployment, for any containers, operators and seeders,   *)
(* and any number of commands and crashes.                                 *)
(***************************************************************************)
EXTENDS Deployment, FiniteSetTheorems, TLAPS

-----------------------------------------------------------------------------
(* Types *)

Names == Objects \cup {"alembic_version"}

Operations ==
  [locks : SUBSET Names, needs : SUBSET Names, makes : SUBSET Objects,
   drops : SUBSET (Objects \cup {Nameless}), sets : SUBSET Objects, clears : SUBSET Objects]

Transactions ==
  [from : 0..Latest, at : 0..Latest, op : Nat \ {0}, goal : 0..Latest,
   made : SUBSET Objects, gone : SUBSET Objects, locks : SUBSET Names]

Typed ==
  /\ version \in 0..Latest /\ schema \in SUBSET Objects /\ plans \in Nat
  /\ pc \in [Migrators -> {"stopped", "migrating", "serving"}]
  /\ tx \in [Migrators -> Transactions]
  /\ \A m \in Migrators : pc[m] # "migrating" => tx[m] = NoTx
  /\ seeder \in [Seeders -> {"idle", "found_none", "done"}]
  /\ commands \in 0..MaxCommands /\ faults \in 0..MaxFaults
  /\ behind \in SUBSET Containers /\ raced \in SUBSET Seeders

LEMMA ObjectsAre ==
  Objects = {"members", "users", "contributions", "member_id", "chamas", "memberships",
             "created_at", "user_id", "chama_id", "role_varchar", "membershiprole",
             "role_enum", "userrole", "is_active", "user_role", "first_name", "last_name"}
<1>1. \A v \in 0..Latest :
        SchemaOf(v) \subseteq {"members", "users", "contributions", "member_id", "chamas",
             "memberships", "created_at", "user_id", "chama_id", "role_varchar",
             "membershiprole", "role_enum", "userrole", "is_active", "user_role",
             "first_name", "last_name"}
  BY DEF SchemaOf, When, Latest
<1>2. /\ {"members", "users", "contributions", "member_id"} \subseteq SchemaOf(1)
      /\ {"chamas", "memberships", "created_at", "user_id", "chama_id", "role_varchar"}
           \subseteq SchemaOf(2)
      /\ {"membershiprole", "role_enum", "userrole", "is_active", "user_role",
           "first_name", "last_name"} \subseteq SchemaOf(5)
  BY DEF SchemaOf, When
<1>3. 1 \in 0..Latest /\ 2 \in 0..Latest /\ 5 \in 0..Latest
  BY DEF Latest
<1>4. QED
  BY <1>1, <1>2, <1>3 DEF Objects

\* The scripts of the revisions, up and down.
LEMMA TheScripts ==
  /\ Upgrade[1] = CreateInitialTables /\ Upgrade[2] = ImplementChamas
  /\ Upgrade[3] = AddRole /\ Upgrade[4] = AddUserColumns /\ Upgrade[5] = AddUserNames
  /\ Downgrade[1] = DropInitialTables /\ Downgrade[2] = DropChamas
  /\ Downgrade[3] = DropRole /\ Downgrade[4] = DropUserColumns
  /\ Downgrade[5] = DropUserNames
BY DEF Upgrade, Downgrade

LEMMA ShortScripts ==
  ASSUME NEW X, NEW a \in X, NEW b \in X, NEW c \in X
  PROVE  <<a>> \in Seq(X) /\ <<a, b>> \in Seq(X) /\ <<a, b, c>> \in Seq(X)
OBVIOUS

LEMMA OperationTypes ==
  /\ \A o \in Objects, A, L \in SUBSET Objects : Create(o, A, L) \in Operations
  /\ \A o \in Objects, A, L \in SUBSET Objects, B \in SUBSET (Objects \cup {Nameless}) :
       Alter(o, L, A, B) \in Operations
  /\ \A o \in Objects, A \in SUBSET Objects : Drop(o, A) \in Operations
  /\ \A o \in Objects : Ensure(o) \in Operations /\ Clear(o) \in Operations
  /\ \A o, p, q \in Objects : Retype(o, p, q) \in Operations
BY DEF Operations, Names, Create, Alter, Drop, Ensure, Clear, Retype

LEMMA TheOperations ==
  /\ CreateInitialTables \in Seq(Operations) /\ ImplementChamas \in Seq(Operations)
  /\ AddRole \in Seq(Operations) /\ AddUserColumns \in Seq(Operations)
  /\ AddUserNames \in Seq(Operations) /\ DropInitialTables \in Seq(Operations)
  /\ DropChamas \in Seq(Operations) /\ DropRole \in Seq(Operations)
  /\ DropUserColumns \in Seq(Operations) /\ DropUserNames \in Seq(Operations)
<1> DEFINE T == SUBSET Objects
<1>1. /\ "members" \in Objects /\ "users" \in Objects /\ "contributions" \in Objects
      /\ "chamas" \in Objects /\ "memberships" \in Objects /\ "membershiprole" \in Objects
      /\ "userrole" \in Objects /\ "role_enum" \in Objects /\ "role_varchar" \in Objects
  BY ObjectsAre
<1>2. /\ {} \in T /\ {"members"} \in T /\ {"users"} \in T /\ {"chamas", "users"} \in T
      /\ {"member_id"} \in T /\ {"role_varchar"} \in T
      /\ {"created_at", "user_id", "chama_id"} \in T
      /\ {"members", "users", "chamas"} \in T
      /\ {"is_active", "user_role"} \in T /\ {"first_name", "last_name"} \in T
  BY ObjectsAre
<1>3. \A A \in T : A \in SUBSET (Objects \cup {Nameless})
  OBVIOUS
<1>4. {Nameless} \in SUBSET (Objects \cup {Nameless})
  OBVIOUS
<1> HIDE DEF T
<1>5. /\ CreateInitialTables \in Seq(Operations) /\ DropInitialTables \in Seq(Operations)
  <2>1. /\ Create("members", {}, {}) \in Operations /\ Create("users", {}, {}) \in Operations
        /\ Create("contributions", {"member_id"}, {"members"}) \in Operations
    BY <1>1, <1>2, OperationTypes DEF T
  <2>2. /\ Drop("contributions", {"member_id"}) \in Operations
        /\ Drop("users", {}) \in Operations /\ Drop("members", {}) \in Operations
    BY <1>1, <1>2, OperationTypes DEF T
  <2>3. QED
    BY <2>1, <2>2, ShortScripts DEF CreateInitialTables, DropInitialTables
<1>6. ImplementChamas \in Seq(Operations) /\ DropChamas \in Seq(Operations)
  <2>1. /\ Create("chamas", {}, {"users"}) \in Operations
        /\ Create("memberships", {"role_varchar"}, {"chamas", "users"}) \in Operations
    BY <1>1, <1>2, OperationTypes DEF T
  <2>2. /\ Alter("contributions", {"members", "users", "chamas"},
                 {"created_at", "user_id", "chama_id"}, {"member_id"}) \in Operations
        /\ Alter("contributions", {}, {"member_id"}, {Nameless}) \in Operations
    BY <1>1, <1>2, <1>3, <1>4, OperationTypes DEF T
  <2>3. QED
    BY <2>1, <2>2, ShortScripts DEF ImplementChamas, DropChamas
<1>7. AddRole \in Seq(Operations) /\ DropRole \in Seq(Operations)
  <2>1. /\ Ensure("membershiprole") \in Operations /\ Clear("membershiprole") \in Operations
        /\ Retype("memberships", "role_enum", "role_varchar") \in Operations
        /\ Retype("memberships", "role_varchar", "role_enum") \in Operations
    BY <1>1, OperationTypes
  <2>2. QED
    BY <2>1, ShortScripts DEF AddRole, DropRole
<1>8. AddUserColumns \in Seq(Operations) /\ DropUserColumns \in Seq(Operations)
  <2>1. /\ Ensure("userrole") \in Operations
        /\ Alter("users", {}, {"is_active", "user_role"}, {}) \in Operations
        /\ Alter("users", {}, {}, {"is_active", "user_role"}) \in Operations
    BY <1>1, <1>2, <1>3, OperationTypes DEF T
  <2>2. QED
    BY <2>1, ShortScripts DEF AddUserColumns, DropUserColumns
<1>9. AddUserNames \in Seq(Operations) /\ DropUserNames \in Seq(Operations)
  <2>1. /\ Alter("users", {}, {"first_name", "last_name"}, {}) \in Operations
        /\ Alter("users", {}, {}, {"first_name", "last_name"}) \in Operations
    BY <1>1, <1>2, <1>3, OperationTypes DEF T
  <2>2. QED
    BY <2>1, ShortScripts DEF AddUserNames, DropUserNames
<1>10. QED
  BY <1>5, <1>6, <1>7, <1>8, <1>9

-----------------------------------------------------------------------------
(* What the scripts do to a schema *)

Apply(op, S) == (S \ Removed(op)) \cup Added(op)

\* The schema S once the first k - 1 operations of a script have run.
After(script, k, S) ==
  IF k = 1 THEN S
  ELSE IF k = 2 THEN Apply(script[1], S)
  ELSE IF k = 3 THEN Apply(script[2], Apply(script[1], S))
  ELSE Apply(script[3], Apply(script[2], Apply(script[1], S)))

\* X is Y, but for the type that a downgrade may leave behind.
Close(X, Y) == Y \subseteq X /\ X \ Y \subseteq {"userrole"}

LEMMA Lengths ==
  /\ Len(Upgrade[1]) = 3 /\ Len(Upgrade[2]) = 3 /\ Len(Upgrade[3]) = 2
  /\ Len(Upgrade[4]) = 2 /\ Len(Upgrade[5]) = 1
  /\ Len(Downgrade[1]) = 3 /\ Len(Downgrade[2]) = 1 /\ Len(Downgrade[3]) = 2
  /\ Len(Downgrade[4]) = 1 /\ Len(Downgrade[5]) = 1
<1>1. Len(Upgrade[1]) = 3 /\ Len(Upgrade[2]) = 3 /\ Len(Downgrade[1]) = 3
  BY TheScripts DEF CreateInitialTables, ImplementChamas, DropInitialTables
<1>2. Len(Upgrade[3]) = 2 /\ Len(Upgrade[4]) = 2 /\ Len(Downgrade[3]) = 2
  BY TheScripts DEF AddRole, AddUserColumns, DropRole
<1>3. /\ Len(Upgrade[5]) = 1 /\ Len(Downgrade[2]) = 1
      /\ Len(Downgrade[4]) = 1 /\ Len(Downgrade[5]) = 1
  BY TheScripts DEF AddUserNames, DropChamas, DropUserColumns, DropUserNames
<1>4. QED
  BY <1>1, <1>2, <1>3

\* Each operation by what it adds (A) and removes (R).
Does(op, A, R) == \A S : Apply(op, S) = (S \ R) \cup A

LEMMA Effects ==
  /\ \A o, A, L : Does(Create(o, A, L), {o} \cup A, {})
  /\ \A o, L, A, B : Does(Alter(o, L, A, B), A, B)
  /\ \A o, A : Does(Drop(o, A), {}, {o} \cup A)
  /\ \A o : Does(Ensure(o), {o}, {}) /\ Does(Clear(o), {}, {o})
  /\ \A o, p, q : Does(Retype(o, p, q), {p}, {q})
BY DEF Does, Apply, Added, Removed, Create, Alter, Drop, Ensure, Clear, Retype

\* What each operation of each script adds and removes.
LEMMA UpgradeDoes ==
  /\ Does(Upgrade[1][1], {"members"} \cup {}, {})
  /\ Does(Upgrade[1][2], {"users"} \cup {}, {})
  /\ Does(Upgrade[1][3], {"contributions"} \cup {"member_id"}, {})
  /\ Does(Upgrade[2][1], {"chamas"} \cup {}, {})
  /\ Does(Upgrade[2][2], {"memberships"} \cup {"role_varchar"}, {})
  /\ Does(Upgrade[2][3], {"created_at", "user_id", "chama_id"}, {"member_id"})
  /\ Does(Upgrade[3][1], {"membershiprole"}, {})
  /\ Does(Upgrade[3][2], {"role_enum"}, {"role_varchar"})
  /\ Does(Upgrade[4][1], {"userrole"}, {})
  /\ Does(Upgrade[4][2], {"is_active", "user_role"}, {})
  /\ Does(Upgrade[5][1], {"first_name", "last_name"}, {})
<1>1. Does(Upgrade[1][1], {"members"} \cup {}, {})
  <2>1. Upgrade[1][1] = Create("members", {}, {})
    BY DEF Upgrade, CreateInitialTables
  <2>2. QED
    BY <2>1, Effects, Zenon
<1>2. Does(Upgrade[1][2], {"users"} \cup {}, {})
  <2>1. Upgrade[1][2] = Create("users", {}, {})
    BY DEF Upgrade, CreateInitialTables
  <2>2. QED
    BY <2>1, Effects, Zenon
<1>3. Does(Upgrade[1][3], {"contributions"} \cup {"member_id"}, {})
  <2>1. Upgrade[1][3] = Create("contributions", {"member_id"}, {"members"})
    BY DEF Upgrade, CreateInitialTables
  <2>2. QED
    BY <2>1, Effects, Zenon
<1>4. Does(Upgrade[2][1], {"chamas"} \cup {}, {})
  <2>1. Upgrade[2][1] = Create("chamas", {}, {"users"})
    BY DEF Upgrade, ImplementChamas
  <2>2. QED
    BY <2>1, Effects, Zenon
<1>5. Does(Upgrade[2][2], {"memberships"} \cup {"role_varchar"}, {})
  <2>1. Upgrade[2][2] = Create("memberships", {"role_varchar"}, {"chamas", "users"})
    BY DEF Upgrade, ImplementChamas
  <2>2. QED
    BY <2>1, Effects, Zenon
<1>6. Does(Upgrade[2][3], {"created_at", "user_id", "chama_id"}, {"member_id"})
  <2>1. Upgrade[2][3] = Alter("contributions", {"members", "users", "chamas"},
                         {"created_at", "user_id", "chama_id"}, {"member_id"})
    BY DEF Upgrade, ImplementChamas
  <2>2. QED
    BY <2>1, Effects
<1>7. Does(Upgrade[3][1], {"membershiprole"}, {})
  <2>1. Upgrade[3][1] = Ensure("membershiprole")
    BY DEF Upgrade, AddRole
  <2>2. QED
    BY <2>1, Effects, Zenon
<1>8. Does(Upgrade[3][2], {"role_enum"}, {"role_varchar"})
  <2>1. Upgrade[3][2] = Retype("memberships", "role_enum", "role_varchar")
    BY DEF Upgrade, AddRole
  <2>2. QED
    BY <2>1, Effects, Zenon
<1>9. Does(Upgrade[4][1], {"userrole"}, {})
  <2>1. Upgrade[4][1] = Ensure("userrole")
    BY DEF Upgrade, AddUserColumns
  <2>2. QED
    BY <2>1, Effects, Zenon
<1>10. Does(Upgrade[4][2], {"is_active", "user_role"}, {})
  <2>1. Upgrade[4][2] = Alter("users", {}, {"is_active", "user_role"}, {})
    BY DEF Upgrade, AddUserColumns
  <2>2. QED
    BY <2>1, Effects
<1>11. Does(Upgrade[5][1], {"first_name", "last_name"}, {})
  <2>1. Upgrade[5][1] = Alter("users", {}, {"first_name", "last_name"}, {})
    BY DEF Upgrade, AddUserNames
  <2>2. QED
    BY <2>1, Effects
<1>12. QED
  BY <1>1, <1>2, <1>3, <1>4, <1>5, <1>6, <1>7, <1>8, <1>9, <1>10, <1>11

LEMMA DowngradeDoes ==
  /\ Does(Downgrade[1][1], {}, {"contributions"} \cup {"member_id"})
  /\ Does(Downgrade[1][2], {}, {"users"} \cup {})
  /\ Does(Downgrade[1][3], {}, {"members"} \cup {})
  /\ Does(Downgrade[3][1], {"role_varchar"}, {"role_enum"})
  /\ Does(Downgrade[3][2], {}, {"membershiprole"})
  /\ Does(Downgrade[4][1], {}, {"is_active", "user_role"})
  /\ Does(Downgrade[5][1], {}, {"first_name", "last_name"})
<1>1. Does(Downgrade[1][1], {}, {"contributions"} \cup {"member_id"})
  <2>1. Downgrade[1][1] = Drop("contributions", {"member_id"})
    BY DEF Downgrade, DropInitialTables
  <2>2. QED
    BY <2>1, Effects, Zenon
<1>2. Does(Downgrade[1][2], {}, {"users"} \cup {})
  <2>1. Downgrade[1][2] = Drop("users", {})
    BY DEF Downgrade, DropInitialTables
  <2>2. QED
    BY <2>1, Effects, Zenon
<1>3. Does(Downgrade[1][3], {}, {"members"} \cup {})
  <2>1. Downgrade[1][3] = Drop("members", {})
    BY DEF Downgrade, DropInitialTables
  <2>2. QED
    BY <2>1, Effects, Zenon
<1>4. Does(Downgrade[3][1], {"role_varchar"}, {"role_enum"})
  <2>1. Downgrade[3][1] = Retype("memberships", "role_varchar", "role_enum")
    BY DEF Downgrade, DropRole
  <2>2. QED
    BY <2>1, Effects, Zenon
<1>5. Does(Downgrade[3][2], {}, {"membershiprole"})
  <2>1. Downgrade[3][2] = Clear("membershiprole")
    BY DEF Downgrade, DropRole
  <2>2. QED
    BY <2>1, Effects, Zenon
<1>6. Does(Downgrade[4][1], {}, {"is_active", "user_role"})
  <2>1. Downgrade[4][1] = Alter("users", {}, {}, {"is_active", "user_role"})
    BY DEF Downgrade, DropUserColumns
  <2>2. QED
    BY <2>1, Effects
<1>7. Does(Downgrade[5][1], {}, {"first_name", "last_name"})
  <2>1. Downgrade[5][1] = Alter("users", {}, {}, {"first_name", "last_name"})
    BY DEF Downgrade, DropUserNames
  <2>2. QED
    BY <2>1, Effects
<1>8. QED
  BY <1>1, <1>2, <1>3, <1>4, <1>5, <1>6, <1>7

LEMMA Schemas ==
  LET Initial == {"members", "users", "contributions"}
      Chamas == {"chamas", "memberships", "created_at", "user_id", "chama_id"}
      Roles == {"membershiprole", "role_enum"}
      Users == {"userrole", "is_active", "user_role"}
  IN /\ SchemaOf(0) = {} /\ SchemaOf(1) = Initial \cup {"member_id"}
     /\ SchemaOf(2) = Initial \cup Chamas \cup {"role_varchar"}
     /\ SchemaOf(3) = Initial \cup Chamas \cup Roles
     /\ SchemaOf(4) = Initial \cup Chamas \cup Roles \cup Users
     /\ SchemaOf(5) = Initial \cup Chamas \cup Roles \cup Users \cup {"first_name", "last_name"}
BY DEF SchemaOf, When

\* The schema after a whole script.
LEMMA AfterScripts ==
  ASSUME NEW s, NEW S
  PROVE  /\ After(s, 2, S) = Apply(s[1], S)
         /\ After(s, 3, S) = Apply(s[2], Apply(s[1], S))
         /\ After(s, 4, S) = Apply(s[3], Apply(s[2], Apply(s[1], S)))
BY DEF After

\* An upgrade leads from each version's schema to the next one's ...
LEMMA UpgradeLeadsOn ==
  \A v \in 1..5 : After(Upgrade[v], Len(Upgrade[v]) + 1, SchemaOf(v - 1)) = SchemaOf(v)
<1>1. After(Upgrade[1], 4, SchemaOf(0)) = SchemaOf(1)
  <2> DEFINE S1 == (SchemaOf(0) \ {}) \cup ({"members"} \cup {})
  <2> DEFINE S2 == (S1 \ {}) \cup ({"users"} \cup {})
  <2> DEFINE S3 == (S2 \ {}) \cup ({"contributions"} \cup {"member_id"})
  <2>1. Apply(Upgrade[1][1], SchemaOf(0)) = S1
    BY UpgradeDoes, Zenon DEF Does
  <2>2. Apply(Upgrade[1][2], S1) = S2
    BY UpgradeDoes, Zenon DEF Does
  <2>3. Apply(Upgrade[1][3], S2) = S3
    BY UpgradeDoes, Zenon DEF Does
  <2>4. S3 = SchemaOf(1)
    BY Schemas
  <2>5. After(Upgrade[1], 4, SchemaOf(0)) = S3
    <3> HIDE DEF S1, S2, S3
    <3>1. QED
      BY <2>1, <2>2, <2>3, AfterScripts
  <2>6. QED
    BY <2>4, <2>5, Zenon
<1>2. After(Upgrade[2], 4, SchemaOf(1)) = SchemaOf(2)
  <2> DEFINE S1 == (SchemaOf(1) \ {}) \cup ({"chamas"} \cup {})
  <2> DEFINE S2 == (S1 \ {}) \cup ({"memberships"} \cup {"role_varchar"})
  <2> DEFINE S3 == (S2 \ {"member_id"}) \cup {"created_at", "user_id", "chama_id"}
  <2>1. Apply(Upgrade[2][1], SchemaOf(1)) = S1
    BY UpgradeDoes, Zenon DEF Does
  <2>2. Apply(Upgrade[2][2], S1) = S2
    BY UpgradeDoes, Zenon DEF Does
  <2>3. Apply(Upgrade[2][3], S2) = S3
    BY UpgradeDoes, Zenon DEF Does
  <2>4. S3 = SchemaOf(2)
    BY Schemas
  <2>5. After(Upgrade[2], 4, SchemaOf(1)) = S3
    <3> HIDE DEF S1, S2, S3
    <3>1. QED
      BY <2>1, <2>2, <2>3, AfterScripts
  <2>6. QED
    BY <2>4, <2>5, Zenon
<1>3. After(Upgrade[3], 3, SchemaOf(2)) = SchemaOf(3)
  <2> DEFINE S1 == (SchemaOf(2) \ {}) \cup {"membershiprole"}
  <2> DEFINE S2 == (S1 \ {"role_varchar"}) \cup {"role_enum"}
  <2>1. Apply(Upgrade[3][1], SchemaOf(2)) = S1
    BY UpgradeDoes, Zenon DEF Does
  <2>2. Apply(Upgrade[3][2], S1) = S2
    BY UpgradeDoes, Zenon DEF Does
  <2>3. S2 = SchemaOf(3)
    BY Schemas
  <2>4. After(Upgrade[3], 3, SchemaOf(2)) = S2
    <3> HIDE DEF S1, S2
    <3>1. QED
      BY <2>1, <2>2, AfterScripts
  <2>5. QED
    BY <2>3, <2>4, Zenon
<1>4. After(Upgrade[4], 3, SchemaOf(3)) = SchemaOf(4)
  <2> DEFINE S1 == (SchemaOf(3) \ {}) \cup {"userrole"}
  <2> DEFINE S2 == (S1 \ {}) \cup {"is_active", "user_role"}
  <2>1. Apply(Upgrade[4][1], SchemaOf(3)) = S1
    BY UpgradeDoes, Zenon DEF Does
  <2>2. Apply(Upgrade[4][2], S1) = S2
    BY UpgradeDoes, Zenon DEF Does
  <2>3. S2 = SchemaOf(4)
    BY Schemas
  <2>4. After(Upgrade[4], 3, SchemaOf(3)) = S2
    <3> HIDE DEF S1, S2
    <3>1. QED
      BY <2>1, <2>2, AfterScripts
  <2>5. QED
    BY <2>3, <2>4, Zenon
<1>5. After(Upgrade[5], 2, SchemaOf(4)) = SchemaOf(5)
  <2> DEFINE S1 == (SchemaOf(4) \ {}) \cup {"first_name", "last_name"}
  <2>1. Apply(Upgrade[5][1], SchemaOf(4)) = S1
    BY UpgradeDoes, Zenon DEF Does
  <2>2. S1 = SchemaOf(5)
    BY Schemas
  <2>3. After(Upgrade[5], 2, SchemaOf(4)) = S1
    <3> HIDE DEF S1
    <3>1. QED
      BY <2>1, AfterScripts
  <2>4. QED
    BY <2>2, <2>3, Zenon
<1>6. ASSUME NEW v \in 1..5
      PROVE  After(Upgrade[v], Len(Upgrade[v]) + 1, SchemaOf(v - 1)) = SchemaOf(v)
  <2>1. CASE v = 1 BY <2>1, <1>1, Lengths
  <2>2. CASE v = 2 BY <2>2, <1>2, Lengths
  <2>3. CASE v = 3 BY <2>3, <1>3, Lengths
  <2>4. CASE v = 4 BY <2>4, <1>4, Lengths
  <2>5. CASE v = 5 BY <2>5, <1>5, Lengths
  <2>6. QED
    BY <2>1, <2>2, <2>3, <2>4, <2>5
<1>7. QED
  BY <1>6

\* ... and a downgrade to the one before, but for the type.
LEMMA DowngradeLeadsBack ==
  \A v \in {1, 3, 4, 5} :
    Close(After(Downgrade[v], Len(Downgrade[v]) + 1, SchemaOf(v)), SchemaOf(v - 1))
<1>1. Close(After(Downgrade[1], 4, SchemaOf(1)), SchemaOf(0))
  <2> DEFINE S1 == (SchemaOf(1) \ ({"contributions"} \cup {"member_id"})) \cup {}
  <2> DEFINE S2 == (S1 \ ({"users"} \cup {})) \cup {}
  <2> DEFINE S3 == (S2 \ ({"members"} \cup {})) \cup {}
  <2>1. Apply(Downgrade[1][1], SchemaOf(1)) = S1
    BY DowngradeDoes, Zenon DEF Does
  <2>2. Apply(Downgrade[1][2], S1) = S2
    BY DowngradeDoes, Zenon DEF Does
  <2>3. Apply(Downgrade[1][3], S2) = S3
    BY DowngradeDoes, Zenon DEF Does
  <2>4. Close(S3, SchemaOf(0))
    BY Schemas DEF Close
  <2>5. After(Downgrade[1], 4, SchemaOf(1)) = S3
    <3> HIDE DEF S1, S2, S3
    <3>1. QED
      BY <2>1, <2>2, <2>3, AfterScripts
  <2>6. QED
    BY <2>4, <2>5, Zenon
<1>2. Close(After(Downgrade[3], 3, SchemaOf(3)), SchemaOf(2))
  <2> DEFINE S1 == (SchemaOf(3) \ {"role_enum"}) \cup {"role_varchar"}
  <2> DEFINE S2 == (S1 \ {"membershiprole"}) \cup {}
  <2>1. Apply(Downgrade[3][1], SchemaOf(3)) = S1
    BY DowngradeDoes, Zenon DEF Does
  <2>2. Apply(Downgrade[3][2], S1) = S2
    BY DowngradeDoes, Zenon DEF Does
  <2>3. Close(S2, SchemaOf(2))
    BY Schemas DEF Close
  <2>4. After(Downgrade[3], 3, SchemaOf(3)) = S2
    <3> HIDE DEF S1, S2
    <3>1. QED
      BY <2>1, <2>2, AfterScripts
  <2>5. QED
    BY <2>3, <2>4, Zenon
<1>3. Close(After(Downgrade[4], 2, SchemaOf(4)), SchemaOf(3))
  <2> DEFINE S1 == (SchemaOf(4) \ {"is_active", "user_role"}) \cup {}
  <2>1. Apply(Downgrade[4][1], SchemaOf(4)) = S1
    BY DowngradeDoes, Zenon DEF Does
  <2>2. Close(S1, SchemaOf(3))
    BY Schemas DEF Close
  <2>3. After(Downgrade[4], 2, SchemaOf(4)) = S1
    <3> HIDE DEF S1
    <3>1. QED
      BY <2>1, AfterScripts
  <2>4. QED
    BY <2>2, <2>3, Zenon
<1>4. Close(After(Downgrade[5], 2, SchemaOf(5)), SchemaOf(4))
  <2> DEFINE S1 == (SchemaOf(5) \ {"first_name", "last_name"}) \cup {}
  <2>1. Apply(Downgrade[5][1], SchemaOf(5)) = S1
    BY DowngradeDoes, Zenon DEF Does
  <2>2. Close(S1, SchemaOf(4))
    BY Schemas DEF Close
  <2>3. After(Downgrade[5], 2, SchemaOf(5)) = S1
    <3> HIDE DEF S1
    <3>1. QED
      BY <2>1, AfterScripts
  <2>4. QED
    BY <2>2, <2>3, Zenon
<1>5. ASSUME NEW v \in {1, 3, 4, 5}
      PROVE  Close(After(Downgrade[v], Len(Downgrade[v]) + 1, SchemaOf(v)), SchemaOf(v - 1))
  <2>1. CASE v = 1 BY <2>1, <1>1, Lengths
  <2>2. CASE v = 3 BY <2>2, <1>2, Lengths
  <2>3. CASE v = 4 BY <2>3, <1>3, Lengths
  <2>4. CASE v = 5 BY <2>4, <1>4, Lengths
  <2>5. QED
    BY <2>1, <2>2, <2>3, <2>4
<1>6. QED
  BY <1>5

-----------------------------------------------------------------------------
(* Type correctness *)

LEMMA ScriptTypes ==
  \A v \in 1..5 : /\ Upgrade[v] \in Seq(Operations) /\ Len(Upgrade[v]) \in 1..3
                  /\ Downgrade[v] \in Seq(Operations) /\ Len(Downgrade[v]) \in 1..3
<1>1. ASSUME NEW v \in 1..5
      PROVE  Upgrade[v] \in Seq(Operations) /\ Downgrade[v] \in Seq(Operations)
  <2>1. v = 1 \/ v = 2 \/ v = 3 \/ v = 4 \/ v = 5
    OBVIOUS
  <2>2. QED
    BY <2>1, TheScripts, TheOperations, Zenon
<1>2. \A v \in 1..5 : Len(Upgrade[v]) \in 1..3 /\ Len(Downgrade[v]) \in 1..3
  BY Lengths
<1>3. QED
  BY <1>1, <1>2

\* While there is a way to go, there is a script for it.
LEMMA ScriptThere ==
  ASSUME NEW t \in Transactions, t.at # t.goal
  PROVE  /\ \E v \in 1..5 : Script(t) = Upgrade[v] \/ Script(t) = Downgrade[v]
         /\ Script(t) \in Seq(Operations) /\ Len(Script(t)) \in 1..3
<1>1. /\ t.at \in 0..5 /\ t.goal \in 0..5
  BY DEF Transactions, Latest
<1>2. CASE t.at < t.goal
  <2>1. Script(t) = Upgrade[t.at + 1] /\ t.at + 1 \in 1..5
    BY <1>1, <1>2 DEF Script, Upwards
  <2>2. QED
    BY <2>1, ScriptTypes
<1>3. CASE t.goal < t.at
  <2>1. Script(t) = Downgrade[t.at] /\ t.at \in 1..5
    BY <1>1, <1>3 DEF Script, Upwards
  <2>2. QED
    BY <2>1, ScriptTypes
<1>4. QED
  BY <1>1, <1>2, <1>3

LEMMA EditedTyped ==
  /\ \A t \in Transactions, o \in Nat \ {0}, A, G \in SUBSET Objects, L \in SUBSET Names :
       [t EXCEPT !.op = o, !.made = A, !.gone = G, !.locks = L] \in Transactions
  /\ \A t \in Transactions, v \in 0..Latest, L \in SUBSET Names :
       [t EXCEPT !.at = v, !.op = 1, !.locks = L] \in Transactions
<1>1. ASSUME NEW t \in Transactions, NEW o \in Nat \ {0}, NEW A \in SUBSET Objects,
             NEW G \in SUBSET Objects, NEW L \in SUBSET Names
      PROVE  [t EXCEPT !.op = o, !.made = A, !.gone = G, !.locks = L] \in Transactions
  BY DEF Transactions
<1>2. ASSUME NEW t \in Transactions, NEW o \in Nat \ {0}, NEW v \in 0..Latest,
             NEW L \in SUBSET Names
      PROVE  [t EXCEPT !.at = v, !.op = o, !.locks = L] \in Transactions
  BY DEF Transactions
<1>3. 1 \in Nat \ {0}
  OBVIOUS
<1>4. QED
  BY <1>1, <1>2, <1>3

\* One operation keeps a transaction a transaction ...
LEMMA OperateTyped ==
  ASSUME Typed, NEW m \in Migrators, Operate(m)
  PROVE  /\ tx' \in [Migrators -> Transactions]
         /\ tx[m].at # tx[m].goal /\ tx[m].op \in 1..Len(Script(tx[m]))
         /\ Script(tx[m])[tx[m].op] \in Operations
         /\ pc[m] = "migrating"
<1> DEFINE t == tx[m]
           op == Script(t)[t.op]
<1>1. t \in Transactions /\ schema \in SUBSET Objects
  BY DEF Typed
<1>2. /\ t.at # t.goal /\ t.op \in 1..Len(Script(t)) /\ pc[m] = "migrating"
      /\ Possible(t, op)
      /\ tx' = [tx EXCEPT ![m] =
           [t EXCEPT !.op = @ + 1, !.made = (@ \ Removed(op)) \cup Added(op),
                     !.gone = (@ \ Added(op)) \cup Removed(op),
                     !.locks = @ \cup op.locks]]
  BY DEF Operate, Scripted, Running
<1>3. op \in Operations
  BY <1>1, <1>2, ScriptThere
<1> HIDE DEF op, t
<1>4. /\ Added(op) \in SUBSET Objects /\ Removed(op) \in SUBSET Objects
      /\ op.locks \in SUBSET Names
  BY <1>1, <1>2, <1>3 DEF Added, Removed, Operations, Possible, View, Transactions
<1>5. [t EXCEPT !.op = @ + 1, !.made = (@ \ Removed(op)) \cup Added(op),
                !.gone = (@ \ Added(op)) \cup Removed(op),
                !.locks = @ \cup op.locks] \in Transactions
  <2>1. /\ t.op + 1 \in Nat \ {0} /\ (t.made \ Removed(op)) \cup Added(op) \in SUBSET Objects
        /\ (t.gone \ Added(op)) \cup Removed(op) \in SUBSET Objects
        /\ t.locks \cup op.locks \in SUBSET Names
    BY <1>1, <1>4 DEF Transactions
  <2>2. QED
    BY <1>1, <2>1, EditedTyped, Zenon
<1>6. tx' \in [Migrators -> Transactions]
  BY <1>2, <1>5 DEF Typed
<1>7. QED
  BY <1>2, <1>3, <1>6 DEF t, op

\* ... and so does the end of a revision.
LEMMA StampTyped ==
  ASSUME Typed, NEW m \in Migrators, Stamp(m)
  PROVE  /\ tx' \in [Migrators -> Transactions]
         /\ tx[m].at # tx[m].goal /\ pc[m] = "migrating"
<1>1. tx[m] \in Transactions
  BY DEF Typed
<1>2. tx[m].at # tx[m].goal /\ pc[m] = "migrating"
  BY DEF Stamp, Running
<1>3. (IF Upwards(tx[m]) THEN tx[m].at + 1 ELSE tx[m].at - 1) \in 0..Latest
  BY <1>1, <1>2 DEF Transactions, Latest, Upwards
<1>4. [tx[m] EXCEPT !.at = IF Upwards(tx[m]) THEN @ + 1 ELSE @ - 1, !.op = 1,
                    !.locks = @ \cup {"alembic_version"}] \in Transactions
  <2>1. tx[m].locks \cup {"alembic_version"} \in SUBSET Names
    BY <1>1 DEF Transactions, Names
  <2>2. QED
    BY <1>1, <1>3, <2>1, EditedTyped, Zenon
<1>5. tx' = [tx EXCEPT ![m] =
        [tx[m] EXCEPT !.at = IF Upwards(tx[m]) THEN @ + 1 ELSE @ - 1, !.op = 1,
                      !.locks = @ \cup {"alembic_version"}]]
  BY DEF Stamp, Typed
<1>6. QED
  BY <1>2, <1>4, <1>5 DEF Typed

LEMMA BegunTyped ==
  ASSUME NEW v \in 0..Latest, NEW g \in 0..Latest
  PROVE  Begun(v, g) \in Transactions
BY DEF Begun, Transactions

LEMMA NoTxTyped == NoTx \in Transactions
BY BegunTyped DEF NoTx, Latest

LEMMA TypedInit == Init => Typed
<1> SUFFICES ASSUME Init PROVE Typed
  OBVIOUS
<1>1. schema \in SUBSET Objects
  BY DEF Init, Objects
<1>2. QED
  BY <1>1, NoTxTyped, DeploymentAssumption DEF Init, Typed

\* The end of a transaction, well or not, is no transaction.
LEMMA TypedStep == Typed /\ [Next]_vars => Typed'
<1> SUFFICES ASSUME Typed, [Next]_vars PROVE Typed'
  OBVIOUS
<1> USE DeploymentAssumption
<1>1. ASSUME NEW m \in Migrators, NEW g \in 0..Latest, Begin(m, g) PROVE Typed'
  <2>1. Begun(version, g) \in Transactions
    BY BegunTyped DEF Typed
  <2>2. commands' \in 0..MaxCommands
    BY <1>1 DEF Begin, Typed
  <2>3. pc[m] = "stopped" /\ pc' = [pc EXCEPT ![m] = "migrating"]
        /\ tx' = [tx EXCEPT ![m] = Begun(version, g)] /\ behind' = behind \ {m}
        /\ UNCHANGED <<db, seeder, faults, raced>>
    BY <1>1 DEF Begin
  <2>4. QED
    BY <2>1, <2>2, <2>3 DEF Typed, db
<1>2. ASSUME NEW m \in Migrators, Operate(m) PROVE Typed'
  BY <1>2, OperateTyped DEF Operate, Typed, db, histories
<1>3. ASSUME NEW m \in Migrators, Stamp(m) PROVE Typed'
  BY <1>3, StampTyped DEF Stamp, Typed, db, histories
<1>4. ASSUME NEW m \in Migrators, Commit(m) PROVE Typed'
  <2>1. tx[m] \in Transactions
    BY DEF Typed
  <2>2. View(tx[m]) \in SUBSET Objects
    BY <2>1 DEF View, Transactions, Typed
  <2>3. version' \in 0..Latest
    BY <1>4, <2>1 DEF Commit, Transactions, Typed
  <2>4. behind' \in SUBSET Containers
    BY <1>4 DEF Commit, Typed
  <2>5. QED
    BY <1>4, <2>2, <2>3, <2>4, NoTxTyped DEF Commit, Typed
<1>5. ASSUME NEW m \in Migrators, RollBack(m), faults' \in 0..MaxFaults PROVE Typed'
  BY <1>5, NoTxTyped DEF RollBack, Typed, db
<1>6. ASSUME NEW m \in Migrators, Fail(m) \/ Victim(m) PROVE Typed'
  BY <1>5, <1>6 DEF Fail, Victim, Typed
<1>7. ASSUME NEW m \in Migrators, Crash(m) PROVE Typed'
  BY <1>5, <1>7 DEF Crash, Typed
<1>8. ASSUME NEW c \in Containers, CreateChama(c) PROVE Typed'
  BY <1>8 DEF CreateChama, Typed, histories
<1>9. ASSUME NEW s \in Seeders, SeedCheck(s) \/ SeedInterrupted(s) PROVE Typed'
  BY <1>9 DEF SeedCheck, SeedInterrupted, Typed, db, histories
<1>10. ASSUME NEW s \in Seeders, SeedInsert(s) PROVE Typed'
  BY <1>10 DEF SeedInsert, Typed
<1>11. CASE UNCHANGED vars
  BY <1>11 DEF vars, db, histories, Typed
<1>12. QED
  BY <1>1, <1>2, <1>3, <1>4, <1>6, <1>7, <1>8, <1>9, <1>10, <1>11 DEF Next, Proceed

\* Whether there are tables for the plans is yes or no.
Decided == billing \in BOOLEAN

LEMMA BillingStep == Decided /\ [Next]_vars => Decided'
<1> SUFFICES ASSUME billing \in BOOLEAN, [Next]_vars PROVE billing' \in BOOLEAN
  BY Zenon DEF Decided
<1>1. ASSUME NEW c \in Containers, CreateChama(c) PROVE billing' \in BOOLEAN
  BY <1>1, Zenon DEF CreateChama
<1>2. ASSUME Next PROVE billing' = billing \/ \E c \in Containers : CreateChama(c)
  BY <1>2 DEF Next, Begin, Proceed, Operate, Stamp, Commit, Fail, Victim, Crash, RollBack,
              SeedCheck, SeedInsert, SeedInterrupted, db
<1>3. QED
  BY <1>1, <1>2, Zenon DEF vars, db

\* Deployment is typed.
THEOREM TypeCorrect == Spec => []TypeOK
<1>1. Init => Typed /\ Decided
  BY TypedInit, Zenon DEF Init, Decided
<1>2. Typed /\ Decided => TypeOK
  <2>1. Typed => /\ schema \subseteq Objects /\ behind \subseteq Containers
                 /\ raced \subseteq Seeders
                 /\ \A m \in Migrators :
                      /\ tx[m].from \in 0..Latest /\ tx[m].at \in 0..Latest
                      /\ tx[m].goal \in 0..Latest
                      /\ tx[m].made \cup tx[m].gone \subseteq Objects
                      /\ pc[m] # "migrating" => tx[m] = NoTx
    BY DEF Typed, Transactions
  <2>2. QED
    BY <2>1, Zenon DEF Typed, TypeOK, Decided
<1>3. QED
  BY <1>1, <1>2, TypedStep, BillingStep, PTL DEF Spec

-----------------------------------------------------------------------------
(* Locks *)

\* Nothing is locked twice.
Exclusive ==
  \A m, n \in Migrators : m # n => tx[m].locks \cap tx[n].locks = {}

\* Who has stamped has locked the version, and it is the one that was read.
Stamped ==
  \A m \in Migrators :
    tx[m].at # tx[m].from => "alembic_version" \in tx[m].locks /\ version = tx[m].from

\* What each step does to the transactions.
LEMMA OperateStep ==
  ASSUME Typed, NEW m \in Migrators, Operate(m)
  PROVE  /\ \A n \in Migrators \ {m} : tx'[n] = tx[n]
         /\ tx'[m].from = tx[m].from /\ tx'[m].at = tx[m].at
         /\ tx'[m].goal = tx[m].goal /\ tx'[m].op = tx[m].op + 1
         /\ tx'[m].locks = tx[m].locks \cup Wanted(tx[m])
         /\ version' = version
<1>1. \A n \in Migrators : tx[n] \in Transactions
  BY DEF Typed
<1>2. QED
  BY <1>1 DEF Operate, Wanted, Transactions, Typed, db

LEMMA StampStep ==
  ASSUME Typed, NEW m \in Migrators, Stamp(m)
  PROVE  /\ \A n \in Migrators \ {m} : tx'[n] = tx[n]
         /\ tx'[m].from = tx[m].from /\ tx'[m].goal = tx[m].goal
         /\ tx'[m].at = (IF Upwards(tx[m]) THEN tx[m].at + 1 ELSE tx[m].at - 1)
         /\ tx'[m].op = 1
         /\ tx'[m].made = tx[m].made /\ tx'[m].gone = tx[m].gone
         /\ tx'[m].locks = tx[m].locks \cup Wanted(tx[m])
         /\ "alembic_version" \in Wanted(tx[m])
         /\ version = tx[m].from /\ version' = version
<1>1. \A n \in Migrators : tx[n] \in Transactions
  BY DEF Typed
<1>2. QED
  BY <1>1 DEF Stamp, Wanted, Transactions, Typed, db

LEMMA EndStep ==
  ASSUME NEW m \in Migrators, Commit(m) \/ Fail(m) \/ Victim(m) \/ Crash(m)
  PROVE  tx' = [tx EXCEPT ![m] = NoTx]
BY DEF Commit, Fail, Victim, Crash, RollBack

\* Every other step leaves the transactions and the version alone.
LEMMA OtherSteps ==
  ASSUME UNCHANGED vars \/ (\E c \in Containers : CreateChama(c))
           \/ (\E s \in Seeders : SeedCheck(s) \/ SeedInsert(s) \/ SeedInterrupted(s))
  PROVE  /\ tx' = tx /\ version' = version /\ schema' = schema /\ pc' = pc
         /\ behind' = behind
BY DEF vars, db, histories, CreateChama, SeedCheck, SeedInsert, SeedInterrupted

LEMMA LockSteps ==
  Typed /\ Exclusive /\ Stamped /\ [Next]_vars => Exclusive' /\ Stamped'
<1> SUFFICES ASSUME Typed, Exclusive, Stamped, [Next]_vars PROVE Exclusive' /\ Stamped'
  OBVIOUS
<1>1. ASSUME NEW m \in Migrators, NEW v \in 0..Latest, NEW g \in 0..Latest,
             tx' = [tx EXCEPT ![m] = Begun(v, g)],
             version' = version \/ "alembic_version" \in tx[m].locks
      PROVE  Exclusive' /\ Stamped'
  <2>1. /\ tx'[m].locks = {} /\ tx'[m].at = tx'[m].from
        /\ \A n \in Migrators \ {m} : tx'[n] = tx[n]
    BY <1>1 DEF Typed, Begun
  <2>2. Exclusive'
    BY <2>1 DEF Exclusive
  <2>3. Stamped'
    BY <1>1, <2>1 DEF Stamped, Exclusive
  <2>4. QED
    BY <2>2, <2>3
<1>2. ASSUME NEW m \in Migrators, NEW g \in 0..Latest, Begin(m, g)
      PROVE  Exclusive' /\ Stamped'
  BY <1>1, <1>2 DEF Begin, db, Typed
<1>3. ASSUME NEW m \in Migrators, Commit(m)
      PROVE  Exclusive' /\ Stamped'
  <2>1. version' = version \/ "alembic_version" \in tx[m].locks
    BY <1>3 DEF Commit, Stamped
  <2>2. QED
    BY <1>1, <1>3, <2>1, EndStep DEF NoTx, Latest
<1>4. ASSUME NEW m \in Migrators, Fail(m) \/ Victim(m) \/ Crash(m)
      PROVE  Exclusive' /\ Stamped'
  <2>1. version' = version
    BY <1>4 DEF Fail, Victim, Crash, RollBack, db
  <2>2. QED
    BY <1>1, <1>4, <2>1, EndStep DEF NoTx, Latest
<1>5. ASSUME NEW m \in Migrators, Operate(m)
      PROVE  Exclusive' /\ Stamped'
  <2>1. \A n \in Migrators \ {m} : Wanted(tx[m]) \cap tx[n].locks = {}
    BY <1>5 DEF Operate, Running, Holders
  <2>2. \A n \in Migrators \ {m} : tx'[n] = tx[n]
    BY <1>5, OperateStep
  <2>3. tx'[m].locks = tx[m].locks \cup Wanted(tx[m])
    BY <1>5, OperateStep
  <2>4. Exclusive'
    BY <2>1, <2>2, <2>3 DEF Exclusive
  <2>5. Stamped'
    BY <1>5, <2>2, <2>3, OperateStep DEF Stamped
  <2>6. QED
    BY <2>4, <2>5
<1>6. ASSUME NEW m \in Migrators, Stamp(m)
      PROVE  Exclusive' /\ Stamped'
  <2>1. \A n \in Migrators \ {m} : Wanted(tx[m]) \cap tx[n].locks = {}
    BY <1>6 DEF Stamp, Running, Holders
  <2>2. \A n \in Migrators \ {m} : tx'[n] = tx[n]
    BY <1>6, StampStep
  <2>3. tx'[m].locks = tx[m].locks \cup Wanted(tx[m])
    BY <1>6, StampStep
  <2>4. Exclusive'
    BY <2>1, <2>2, <2>3 DEF Exclusive
  <2>5. Stamped'
    BY <1>6, <2>2, <2>3, StampStep DEF Stamped
  <2>6. QED
    BY <2>4, <2>5
<1>7. CASE tx' = tx /\ version' = version
  BY <1>7 DEF Exclusive, Stamped
<1>8. QED
  BY <1>2, <1>3, <1>4, <1>5, <1>6, <1>7, OtherSteps DEF Next, Proceed

LEMMA LocksInit == Init => Exclusive /\ Stamped
BY DEF Init, Exclusive, Stamped, NoTx, Begun

\* Concurrent upgrades and downgrades do not overwrite each other: a version
\* follows the one its transaction read (alembic/env.py).
THEOREM VersionsFollow == Spec => CommitsFollowOn
<1>1. Typed /\ Stamped /\ [Next]_vars =>
        [\A m \in Migrators :
           version' # version /\ tx'[m] # tx[m] => version = tx[m].from]_vars
  <2> SUFFICES ASSUME Typed, Stamped, Next, NEW m \in Migrators,
                      version' # version, tx'[m] # tx[m]
               PROVE  version = tx[m].from
    BY Zenon
  <2>1. PICK n \in Migrators : Commit(n)
    BY OtherSteps DEF Next, Proceed, Begin, Operate, Stamp, Fail, Victim, Crash, RollBack, db
  <2>2. tx' = [tx EXCEPT ![n] = NoTx] /\ tx[n].at # tx[n].from
    BY <2>1 DEF Commit
  <2>3. n = m
    BY <2>2 DEF Typed
  <2>4. QED
    BY <2>2, <2>3 DEF Stamped
<1>2. QED
  BY <1>1, TypedInit, TypedStep, LocksInit, LockSteps, PTL DEF Spec, CommitsFollowOn

-----------------------------------------------------------------------------
(* The version describes the schema *)

\* What a transaction has done is what the scripts up to its place do, to the
\* schema of the version that it found.
Sound(t) ==
  /\ t.from = t.goal => t.at = t.goal /\ t.made = {} /\ t.gone = {}
  /\ t.at = t.goal => t.op = 1
  /\ t.at # t.goal => t.op <= Len(Script(t)) + 1
  /\ t.at = 2 /\ t.goal < 2 => t.op = 1
  /\ Close((SchemaOf(t.from) \ t.gone) \cup t.made,
           After(Script(t), t.op, SchemaOf(t.at)))

AllSound == \A m \in Migrators : Sound(tx[m])

LEMMA CloseFacts ==
  /\ \A X : Close(X, X)
  /\ \A X, Y, Z : Close(X, Y) /\ Close(Y, Z) => Close(X, Z)
  /\ \A X, Y, G, M : Close(X, Y) => Close((X \ G) \cup M, (Y \ G) \cup M)
BY DEF Close

LEMMA CloseApply ==
  ASSUME NEW op, NEW X, NEW Y, Close(X, Y)
  PROVE  Close(Apply(op, X), Apply(op, Y))
BY DEF Close, Apply

LEMMA AfterNext ==
  ASSUME NEW s, NEW S, NEW k \in 1..3
  PROVE  After(s, 1, S) = S /\ After(s, k + 1, S) = Apply(s[k], After(s, k, S))
BY DEF After

LEMMA BegunSound ==
  ASSUME NEW v \in 0..Latest, NEW g \in 0..Latest
  PROVE  Sound(Begun(v, g))
<1> DEFINE t == Begun(v, g)
<1>1. /\ t.from = v /\ t.at = v /\ t.goal = g /\ t.op = 1 /\ t.made = {} /\ t.gone = {}
      /\ t \in Transactions
  BY BegunTyped DEF Begun
<1> HIDE DEF t
<1>2. t.at # t.goal => t.op <= Len(Script(t)) + 1
  BY <1>1, ScriptThere
<1>3. After(Script(t), t.op, SchemaOf(t.at)) = SchemaOf(v)
  BY <1>1 DEF After
<1>4. (SchemaOf(v) \ t.gone) \cup t.made = SchemaOf(v)
  BY <1>1
<1>5. Sound(t)
  BY <1>1, <1>2, <1>3, <1>4, CloseFacts DEF Sound
<1>6. QED
  BY <1>5 DEF t

\* The downgrade of 3d353c840601 cannot be run: it drops a constraint without
\* a name.
LEMMA NamelessNever ==
  ASSUME Typed, NEW m \in Migrators, Operate(m)
  PROVE  ~(tx[m].at = 2 /\ tx[m].goal < 2 /\ tx[m].op = 1)
<1> SUFFICES ASSUME tx[m].at = 2, tx[m].goal < 2, tx[m].op = 1 PROVE FALSE
  OBVIOUS
<1>1. Script(tx[m])[tx[m].op] = Downgrade[2][1]
  BY DEF Script, Upwards, Typed, Transactions, Latest
<1>2. Downgrade[2][1] = Alter("contributions", {}, {"member_id"}, {Nameless})
  BY DEF Downgrade, DropChamas
<1>3. {Nameless} \subseteq View(tx[m])
  BY <1>1, <1>2 DEF Operate, Possible, Alter
<1>4. View(tx[m]) \subseteq Objects
  BY DEF View, Typed, Transactions
<1>5. Nameless \notin Objects
  BY ObjectsAre DEF Nameless
<1>6. QED
  BY <1>3, <1>4, <1>5

LEMMA OperateSound ==
  ASSUME Typed, NEW m \in Migrators, Operate(m), Sound(tx[m])
  PROVE  Sound(tx'[m])
<1> DEFINE t == tx[m]
           u == tx'[m]
           op == Script(t)[t.op]
<1>1. t \in Transactions /\ u \in Transactions /\ t.at # t.goal /\ t.op \in 1..Len(Script(t))
  BY OperateTyped DEF Typed
<1>2. u.from = t.from /\ u.at = t.at /\ u.goal = t.goal /\ u.op = t.op + 1
  BY OperateStep
<1>3. /\ u.made = (t.made \ Removed(op)) \cup Added(op)
      /\ u.gone = (t.gone \ Added(op)) \cup Removed(op)
  BY <1>1 DEF Operate, Typed, Transactions
<1>4. Script(u) = Script(t)
  BY <1>2 DEF Script, Upwards
<1>5. ~(t.at = 2 /\ t.goal < 2 /\ t.op = 1)
  BY NamelessNever
<1>6. Sound(t)
  OBVIOUS
<1>7. Len(Script(t)) \in 1..3
  BY <1>1, ScriptThere
<1> HIDE DEF t, u
<1>8. (SchemaOf(u.from) \ u.gone) \cup u.made =
        Apply(op, (SchemaOf(t.from) \ t.gone) \cup t.made)
  <2> HIDE DEF op
  <2>1. QED
    BY <1>2, <1>3 DEF Apply
<1>9. After(Script(u), u.op, SchemaOf(u.at)) =
        Apply(op, After(Script(t), t.op, SchemaOf(t.at)))
  <2>1. \A n \in 1..3 : \A k \in 1..n : k \in 1..3
    OBVIOUS
  <2>2. t.op \in 1..3
    BY <1>1, <1>7, <2>1, Zenon
  <2>3. QED
    BY <2>2, <1>2, <1>4, AfterNext
<1>10. Close(Apply(op, (SchemaOf(t.from) \ t.gone) \cup t.made),
             Apply(op, After(Script(t), t.op, SchemaOf(t.at))))
  <2>1. Close((SchemaOf(t.from) \ t.gone) \cup t.made, After(Script(t), t.op, SchemaOf(t.at)))
    BY <1>6 DEF Sound
  <2>2. QED
    BY <2>1, CloseApply, Zenon
<1>11. u.at # u.goal /\ u.op <= Len(Script(u)) + 1 /\ u.from # u.goal
  BY <1>1, <1>2, <1>4, <1>6, <1>7 DEF Sound
<1>12. ~(u.at = 2 /\ u.goal < 2)
  BY <1>2, <1>5, <1>6 DEF Sound
<1>13. Sound(u)
  BY <1>8, <1>9, <1>10, <1>11, <1>12 DEF Sound
<1>14. QED
  BY <1>13 DEF u

LEMMA StampSound ==
  ASSUME Typed, NEW m \in Migrators, Stamp(m), Sound(tx[m])
  PROVE  Sound(tx'[m])
<1> DEFINE t == tx[m]
           u == tx'[m]
           S == SchemaOf(t.at)
<1>1. t \in Transactions /\ u \in Transactions /\ t.at # t.goal /\ ~Scripted(t)
  BY StampTyped DEF Typed, Stamp
<1>2. /\ u.from = t.from /\ u.goal = t.goal /\ u.op = 1
      /\ u.at = (IF Upwards(t) THEN t.at + 1 ELSE t.at - 1)
      /\ u.made = t.made /\ u.gone = t.gone
  BY StampStep
<1>3. Sound(t)
  OBVIOUS
<1> HIDE DEF t, u
<1>4. Len(Script(t)) \in 1..3
  BY <1>1, ScriptThere
<1>5. t.op = Len(Script(t)) + 1
  BY <1>1, <1>3, <1>4 DEF Sound, Scripted, Transactions
<1>6. t.at \in 0..5 /\ t.goal \in 0..5
  BY <1>1 DEF Transactions, Latest
<1>7. Close(After(Script(t), Len(Script(t)) + 1, S), SchemaOf(u.at))
  <2>1. CASE t.at < t.goal
    <3>1. u.at \in 1..5 /\ Script(t) = Upgrade[u.at] /\ t.at = u.at - 1
      BY <2>1, <1>2, <1>6 DEF Script, Upwards
    <3>2. QED
      BY <3>1, UpgradeLeadsOn, CloseFacts
  <2>2. CASE t.goal < t.at
    <3>1. Script(t) = Downgrade[t.at] /\ u.at = t.at - 1
      BY <2>2, <1>2, <1>6 DEF Script, Upwards
    <3>2. ASSUME t.at = 2 PROVE FALSE
      <4>1. Len(Script(t)) = 1
        BY <3>1, <3>2, Lengths
      <4>2. t.op = 1
        BY <2>2, <3>2, <1>3 DEF Sound
      <4>3. QED
        BY <4>1, <4>2, <1>5
    <3>3. t.at \in {1, 3, 4, 5}
      BY <2>2, <3>2, <1>6
    <3>4. QED
      BY <3>1, <3>3, DowngradeLeadsBack
  <2>3. QED
    BY <1>1, <1>6, <2>1, <2>2
<1>8. Close((SchemaOf(u.from) \ u.gone) \cup u.made, SchemaOf(u.at))
  BY <1>2, <1>3, <1>5, <1>7, CloseFacts DEF Sound
<1>9. After(Script(u), u.op, SchemaOf(u.at)) = SchemaOf(u.at)
  BY <1>2 DEF After
<1>10. u.from # u.goal
  BY <1>1, <1>2, <1>3 DEF Sound
<1>11. u.at # u.goal => u.op <= Len(Script(u)) + 1
  BY <1>1, <1>2, ScriptThere
<1>12. Sound(u)
  BY <1>2, <1>8, <1>9, <1>10, <1>11 DEF Sound
<1>13. QED
  BY <1>12 DEF u

LEMMA CommitDescribes ==
  ASSUME Typed, Stamped, NEW m \in Migrators, Commit(m), Sound(tx[m]),
         VersionDescribesSchema
  PROVE  VersionDescribesSchema'
<1> DEFINE t == tx[m]
<1>1. /\ t.at = t.goal /\ schema' = (schema \ t.gone) \cup t.made
      /\ version' = IF t.from = t.goal THEN version ELSE t.goal
  BY DEF Commit, View
<1>2. t.at # t.from => version = t.from
  BY DEF Stamped
<1>3. Close(schema, SchemaOf(version))
  BY DEF VersionDescribesSchema, Close
<1>4. Sound(t)
  OBVIOUS
<1> HIDE DEF t
<1>5. CASE t.from = t.goal
  <2>1. schema' = schema /\ version' = version
    BY <1>1, <1>4, <1>5 DEF Sound
  <2>2. QED
    BY <2>1 DEF VersionDescribesSchema
<1>6. CASE t.from # t.goal
  <2>1. version = t.from /\ version' = t.goal
    BY <1>1, <1>2, <1>6
  <2>2. After(Script(t), t.op, SchemaOf(t.at)) = SchemaOf(t.goal)
    BY <1>1, <1>4 DEF Sound, After
  <2>3. Close((SchemaOf(version) \ t.gone) \cup t.made, SchemaOf(t.goal))
    BY <1>4, <2>1, <2>2 DEF Sound
  <2>4. Close((schema \ t.gone) \cup t.made, (SchemaOf(version) \ t.gone) \cup t.made)
    BY <1>3, CloseFacts
  <2>5. Close(schema', SchemaOf(version'))
    BY <1>1, <2>1, <2>3, <2>4, CloseFacts
  <2>6. QED
    BY <2>5 DEF VersionDescribesSchema, Close
<1>7. QED
  BY <1>5, <1>6

LEMMA SoundSteps ==
  Typed /\ Stamped /\ AllSound /\ VersionDescribesSchema /\ [Next]_vars
    => AllSound' /\ VersionDescribesSchema'
<1> SUFFICES ASSUME Typed, Stamped, AllSound, VersionDescribesSchema, [Next]_vars
             PROVE  AllSound' /\ VersionDescribesSchema'
  OBVIOUS
<1>1. ASSUME NEW m \in Migrators, NEW v \in 0..Latest, NEW g \in 0..Latest,
             tx' = [tx EXCEPT ![m] = Begun(v, g)]
      PROVE  AllSound'
  BY <1>1, BegunSound DEF AllSound, Typed
<1>2. ASSUME NEW m \in Migrators, NEW g \in 0..Latest, Begin(m, g)
      PROVE  AllSound' /\ VersionDescribesSchema'
  BY <1>1, <1>2 DEF Begin, db, Typed, VersionDescribesSchema
<1>3. ASSUME NEW m \in Migrators, Commit(m)
      PROVE  AllSound' /\ VersionDescribesSchema'
  <2>1. AllSound'
    BY <1>1, <1>3, EndStep DEF NoTx, Latest
  <2>2. QED
    BY <2>1, <1>3, CommitDescribes DEF AllSound
<1>4. ASSUME NEW m \in Migrators, Fail(m) \/ Victim(m) \/ Crash(m)
      PROVE  AllSound' /\ VersionDescribesSchema'
  <2>1. AllSound'
    BY <1>1, <1>4, EndStep DEF NoTx, Latest
  <2>2. QED
    BY <2>1, <1>4 DEF Fail, Victim, Crash, RollBack, db, VersionDescribesSchema
<1>5. ASSUME NEW m \in Migrators, Operate(m)
      PROVE  AllSound' /\ VersionDescribesSchema'
  <2>1. AllSound'
    BY <1>5, OperateStep, OperateSound DEF AllSound
  <2>2. QED
    BY <2>1, <1>5 DEF Operate, db, VersionDescribesSchema
<1>6. ASSUME NEW m \in Migrators, Stamp(m)
      PROVE  AllSound' /\ VersionDescribesSchema'
  <2>1. AllSound'
    BY <1>6, StampStep, StampSound DEF AllSound
  <2>2. QED
    BY <2>1, <1>6 DEF Stamp, db, VersionDescribesSchema
<1>7. CASE tx' = tx /\ version' = version /\ schema' = schema
  BY <1>7 DEF AllSound, VersionDescribesSchema
<1>8. QED
  BY <1>2, <1>3, <1>4, <1>5, <1>6, <1>7, OtherSteps DEF Next, Proceed

LEMMA SoundInit == Init => AllSound /\ VersionDescribesSchema
<1>1. Sound(NoTx)
  BY BegunSound DEF NoTx, Latest
<1>2. QED
  BY <1>1 DEF Init, AllSound, VersionDescribesSchema

\* However upgrades, downgrades and crashes interleave, alembic_version tells
\* the truth about the schema.
THEOREM VersionsTellTheTruth == Spec => []VersionDescribesSchema
BY TypedInit, TypedStep, LocksInit, LockSteps, SoundInit, SoundSteps, PTL DEF Spec

-----------------------------------------------------------------------------
(* What containers serve *)

\* Containers go to the head, and who does not goes back.  A container that
\* found the head and has not been overtaken is right.
OnCourse ==
  /\ \A m \in Migrators :
       pc[m] = "migrating" => tx[m].goal = Latest \/ tx[m].goal < tx[m].from
  /\ \A c \in Containers : pc[c] = "migrating" => tx[c].goal = Latest
  /\ \A c \in Containers \ behind :
       \/ pc[c] = "serving"
       \/ pc[c] = "migrating" /\ tx[c].from = Latest
       => version = Latest

LEMMA OnCourseStep == Typed /\ OnCourse /\ [Next]_vars => OnCourse'
<1> SUFFICES ASSUME Typed, OnCourse, [Next]_vars PROVE OnCourse'
  OBVIOUS
<1>1. ASSUME NEW m \in Migrators, NEW g \in 0..Latest, Begin(m, g)
      PROVE  OnCourse'
  <2>1. /\ pc' = [pc EXCEPT ![m] = "migrating"] /\ tx' = [tx EXCEPT ![m] = Begun(version, g)]
        /\ behind' = behind \ {m} /\ version' = version
    BY <1>1 DEF Begin, db
  <2>2. g = Latest \/ g < version
    BY <1>1 DEF Begin
  <2>3. m \in Containers => g = Latest
    BY <1>1 DEF Begin
  <2>4. /\ pc'[m] = "migrating" /\ tx'[m].goal = g /\ tx'[m].from = version
        /\ \A n \in Migrators \ {m} : pc'[n] = pc[n] /\ tx'[n] = tx[n]
    BY <2>1 DEF Typed, Begun
  <2>5. QED
    BY <2>1, <2>2, <2>3, <2>4 DEF OnCourse, Migrators
<1>2. ASSUME NEW m \in Migrators, Commit(m)
      PROVE  OnCourse'
  <2>1. /\ pc' = [pc EXCEPT ![m] = IF m \in Containers THEN "serving" ELSE "stopped"]
        /\ tx' = [tx EXCEPT ![m] = NoTx] /\ pc[m] = "migrating"
        /\ version' = IF tx[m].from = tx[m].goal THEN version ELSE tx[m].goal
        /\ behind' = IF tx[m].goal < tx[m].from
                     THEN {c \in Containers : pc[c] # "stopped"} ELSE behind
    BY <1>2 DEF Commit, Running
  <2>2. /\ pc'[m] # "migrating"
        /\ m \notin Containers => pc'[m] = "stopped"
        /\ \A n \in Migrators \ {m} : pc'[n] = pc[n] /\ tx'[n] = tx[n]
    BY <2>1 DEF Typed
  <2>3. /\ \A n \in Migrators :
             pc'[n] = "migrating" => tx'[n].goal = Latest \/ tx'[n].goal < tx'[n].from
        /\ \A c \in Containers : pc'[c] = "migrating" => tx'[c].goal = Latest
    BY <2>2 DEF OnCourse, Migrators
  <2>4. tx[m].from \in 0..Latest /\ tx[m].goal \in 0..Latest
    BY DEF Typed, Transactions
  <2>5. CASE tx[m].goal < tx[m].from
    <3>1. m \notin Containers
      BY <2>1, <2>4, <2>5 DEF OnCourse, Latest
    <3>2. \A c \in Containers \ behind' : pc'[c] = "stopped"
      BY <2>1, <2>2, <2>5, <3>1 DEF Migrators
    <3>3. QED
      BY <2>3, <3>2 DEF OnCourse
  <2>6. CASE ~(tx[m].goal < tx[m].from)
    <3>1. tx[m].goal = Latest /\ behind' = behind
      BY <2>1, <2>6 DEF OnCourse
    <3>2. CASE tx[m].from = Latest
      <4>1. version' = version
        BY <2>1, <3>1, <3>2
      <4>2. QED
        BY <2>1, <2>2, <2>3, <3>1, <3>2, <4>1 DEF OnCourse, Migrators
    <3>3. CASE tx[m].from # Latest
      <4>1. version' = Latest
        BY <2>1, <3>1, <3>3
      <4>2. QED
        BY <2>3, <4>1 DEF OnCourse
    <3>4. QED
      BY <3>2, <3>3
  <2>7. QED
    BY <2>5, <2>6
<1>3. ASSUME NEW m \in Migrators, Fail(m) \/ Victim(m) \/ Crash(m)
      PROVE  OnCourse'
  <2>1. /\ pc' = [pc EXCEPT ![m] = "stopped"] /\ tx' = [tx EXCEPT ![m] = NoTx]
        /\ behind' = behind /\ version' = version
    BY <1>3 DEF Fail, Victim, Crash, RollBack, db
  <2>2. /\ pc'[m] = "stopped"
        /\ \A n \in Migrators \ {m} : pc'[n] = pc[n] /\ tx'[n] = tx[n]
    BY <2>1 DEF Typed
  <2>3. QED
    BY <2>1, <2>2 DEF OnCourse, Migrators
<1>4. ASSUME NEW m \in Migrators, Operate(m) \/ Stamp(m)
      PROVE  OnCourse'
  <2>1. \A n \in Migrators : tx'[n].from = tx[n].from /\ tx'[n].goal = tx[n].goal
    <3>1. CASE Operate(m)
      BY <3>1, OperateStep
    <3>2. CASE Stamp(m)
      BY <3>2, StampStep
    <3>3. QED
      BY <1>4, <3>1, <3>2
  <2>2. pc' = pc /\ behind' = behind /\ version' = version
    BY <1>4 DEF Operate, Stamp, db, histories
  <2>3. QED
    BY <2>1, <2>2 DEF OnCourse, Migrators
<1>5. CASE tx' = tx /\ version' = version /\ pc' = pc /\ behind' = behind
  BY <1>5 DEF OnCourse
<1>6. QED
  BY <1>1, <1>2, <1>3, <1>4, <1>5, OtherSteps DEF Next, Proceed

\* A container serves the latest version, unless a downgrade has overtaken it
\* (docker-compose.prod.yml, "alembic upgrade head && uvicorn"), with all that
\* the models declare but what no revision makes.
THEOREM ServesAllButUnmigrated == Spec => []ServesTheHead
<1>1. Init => OnCourse
  BY DEF Init, OnCourse, Migrators
<1>2. OnCourse /\ VersionDescribesSchema => ServesTheHead
  <2>1. /\ Models \ Unmigrated \subseteq SchemaOf(Latest)
        /\ Unmigrated \cap (SchemaOf(Latest) \cup {"userrole"}) = {}
        /\ Unmigrated \subseteq Models
    BY Schemas DEF Models, UserModel, ChamaModel, MembershipModel, ContributionModel,
                   Unmigrated, Latest
  <2>2. ASSUME version = Latest, VersionDescribesSchema
        PROVE  Models \ schema = Unmigrated
    BY <2>1, <2>2 DEF VersionDescribesSchema
  <2>3. QED
    BY <2>2 DEF OnCourse, ServesTheHead
<1>3. QED
  BY <1>1, <1>2, TypedInit, TypedStep, OnCourseStep, VersionsTellTheTruth, PTL DEF Spec

-----------------------------------------------------------------------------
(* The plans *)

Waiting == {s \in Seeders : seeder[s] = "found_none"}

\* Once the plans are there, only seeders that have been overtaken add them
\* again, each at most once.
Counted ==
  /\ plans = 0 => raced = {}
  /\ plans > 0 => Waiting \subseteq raced /\ plans <= 1 + Cardinality(raced \ Waiting)

LEMMA CountedStep == Typed /\ Counted /\ [Next]_vars => Counted'
<1> SUFFICES ASSUME Typed, Counted, [Next]_vars PROVE Counted'
  OBVIOUS
<1>1. IsFiniteSet(raced) /\ raced \subseteq Seeders /\ plans \in Nat
  BY DeploymentAssumption, FS_Subset DEF Typed
<1>2. \A S : IsFiniteSet(raced \ S) /\ Cardinality(raced \ S) \in Nat
  BY <1>1, FS_Subset, FS_CardinalityType
<1>3. ASSUME NEW s \in Seeders, SeedCheck(s) PROVE Counted'
  <2>1. plans > 0 => Waiting' = Waiting
    BY <1>3 DEF SeedCheck, Waiting, Typed
  <2>2. plans' = plans /\ raced' = raced
    BY <1>3 DEF SeedCheck, db, histories
  <2>3. QED
    BY <2>1, <2>2 DEF Counted
<1>4. ASSUME NEW s \in Seeders, SeedInterrupted(s) PROVE Counted'
  <2>1. Waiting' \subseteq Waiting /\ plans' = plans /\ raced' = raced
    BY <1>4 DEF SeedInterrupted, Waiting, Typed, db, histories
  <2>2. Cardinality(raced \ Waiting) <= Cardinality(raced \ Waiting')
    BY <1>2, <2>1, FS_Subset
  <2>3. Cardinality(raced \ Waiting) \in Nat /\ Cardinality(raced \ Waiting') \in Nat
    BY <1>2
  <2>4. QED
    BY <2>1, <2>2, <2>3, <1>1 DEF Counted
<1>5. ASSUME NEW s \in Seeders, SeedInsert(s) PROVE Counted'
  <2>1. /\ s \in Waiting /\ Waiting' = Waiting \ {s} /\ plans' = plans + 1
        /\ raced' = raced \cup Waiting'
    BY <1>5 DEF SeedInsert, Waiting, Typed
  <2>2. CASE plans = 0
    <3>1. raced' = Waiting' /\ plans' = 1
      BY <2>1, <2>2 DEF Counted
    <3>2. raced' \ Waiting' = {}
      BY <3>1
    <3>3. QED
      BY <3>1, <3>2, FS_EmptySet DEF Counted
  <2>3. CASE plans > 0
    <3>1. raced' = raced /\ raced' \ Waiting' = (raced \ Waiting) \cup {s}
      BY <2>1, <2>3 DEF Counted
    <3>2. Cardinality((raced \ Waiting) \cup {s}) = Cardinality(raced \ Waiting) + 1
      BY <1>2, <2>1, FS_AddElement
    <3>3. plans <= 1 + Cardinality(raced \ Waiting) /\ Waiting \subseteq raced
      BY <2>3 DEF Counted
    <3>4. plans' <= 1 + Cardinality(raced' \ Waiting')
      BY <1>1, <1>2, <2>1, <3>1, <3>2, <3>3
    <3>5. QED
      BY <1>1, <2>1, <3>1, <3>3, <3>4 DEF Counted
  <2>4. QED
    BY <1>1, <2>2, <2>3
<1>6. CASE UNCHANGED <<plans, raced, seeder>>
  BY <1>6 DEF Counted, Waiting
<1>7. CASE UNCHANGED vars
  BY <1>6, <1>7 DEF vars, db, histories
<1>8. ASSUME NEW m \in Migrators, (\E g \in 0..Latest : Begin(m, g)) \/ Proceed(m)
                                    \/ Victim(m) \/ Crash(m)
      PROVE  UNCHANGED <<plans, raced, seeder>>
  BY <1>8 DEF Begin, Proceed, Operate, Stamp, Commit, Fail, Victim, Crash, RollBack, db, histories
<1>9. ASSUME NEW c \in Containers, CreateChama(c)
      PROVE  UNCHANGED <<plans, raced, seeder>>
  BY <1>9 DEF CreateChama, histories
<1>10. QED
  BY <1>3, <1>4, <1>5, <1>6, <1>7, <1>8, <1>9 DEF Next

\* The plans are doubled only by seeders that overlap (seed_billing_data.py:17).
THEOREM PlansOnce == Spec => []PlansDoubledOnlyByOverlap
<1>1. Init => Counted
  BY DEF Init, Counted
<1>2. Typed /\ Counted => PlansDoubledOnlyByOverlap
  <2> SUFFICES ASSUME Typed, Counted PROVE PlansDoubledOnlyByOverlap
    OBVIOUS
  <2>1. IsFiniteSet(raced) /\ plans \in Nat
    BY DeploymentAssumption, FS_Subset DEF Typed
  <2>2. /\ Cardinality(raced \ Waiting) <= Cardinality(raced)
        /\ Cardinality(raced) \in Nat /\ Cardinality(raced \ Waiting) \in Nat
    BY <2>1, FS_Subset, FS_CardinalityType
  <2>3. QED
    BY <2>1, <2>2 DEF Counted, PlansDoubledOnlyByOverlap
<1>3. QED
  BY <1>1, <1>2, TypedInit, TypedStep, CountedStep, PTL DEF Spec

-----------------------------------------------------------------------------
(* Nobody waits for ever on a lock that is never given up *)

\* The guards of Operate, Stamp, Commit and Fail, and that of Victim.
CanProceed(m) ==
  /\ Running(m)
  /\ \/ Scripted(tx[m]) /\ Possible(tx[m], Script(tx[m])[tx[m].op])
     \/ tx[m].at # tx[m].goal /\ ~Scripted(tx[m]) /\ version = tx[m].from
     \/ tx[m].at = tx[m].goal
     \/ /\ tx[m].at # tx[m].goal
        /\ IF Scripted(tx[m]) THEN ~Possible(tx[m], Script(tx[m])[tx[m].op])
                              ELSE version # tx[m].from

CanBeVictim(m) == \E M \in SUBSET Migrators : m \in M /\ Deadlocked(M)

\* As long as somebody is migrating, a transaction can go on, or the ones that
\* cannot all wait for each other, and each of them can be ended.
NoSilentWait ==
  LET migrating == {m \in Migrators : pc[m] = "migrating"} IN
  (\E m \in migrating : CanProceed(m)) \/ (\A m \in migrating : CanBeVictim(m))

\* However many containers and operators migrate at once, and at whichever
\* operations they have met, they are never stuck on locks: there is no lock
\* that is held by nobody who could still end.
THEOREM NeverStuckOnLocks == Spec => []NoSilentWait
<1>1. ASSUME Typed PROVE NoSilentWait
  <2> DEFINE M == {m \in Migrators : pc[m] = "migrating"}
  <2> SUFFICES ASSUME ~(\E m \in M : CanProceed(m)), NEW m \in M
               PROVE  CanBeVictim(m)
    BY DEF NoSilentWait
  <2>1. \A n \in M : ~Running(n)
    BY DEF CanProceed, Scripted
  <2>2. ASSUME NEW n \in M PROVE Holders(n) \cap M # {}
    <3>1. PICK h \in Holders(n) : TRUE
      BY <2>1 DEF Running
    <3>2. h \in Migrators /\ tx[h].locks # {}
      BY <3>1 DEF Holders
    <3>3. pc[h] = "migrating"
      BY <1>1, <3>2 DEF Typed, NoTx, Begun
    <3>4. QED
      BY <3>1, <3>2, <3>3
  <2>3. M \in SUBSET Migrators /\ Deadlocked(M)
    BY <2>2 DEF Deadlocked
  <2>4. QED
    BY <2>3 DEF CanBeVictim
<1>2. QED
  BY <1>1, TypedInit, TypedStep, PTL DEF Spec

-----------------------------------------------------------------------------
(* When an upgrade can fail *)

\* The operation is possible on Y, and also if the type that a downgrade
\* leaves behind is there.
Fits(op, Y) ==
  op.needs \cup op.drops \subseteq Y /\ op.makes \cap (Y \cup {"userrole"}) = {}

LEMMA FitsWhenClose ==
  ASSUME NEW op, NEW X, NEW Y, Close(X, Y), Fits(op, Y)
  PROVE  op.needs \cup op.drops \subseteq X /\ op.makes \cap X = {}
BY DEF Close, Fits

\* What an operation needs, drops and makes.
LEMMA Demands ==
  /\ \A o, A, L, Y : Fits(Create(o, A, L), Y) <=>
       L \subseteq Y /\ ({o} \cup A) \cap (Y \cup {"userrole"}) = {}
  /\ \A o, L, A, B, Y : Fits(Alter(o, L, A, B), Y) <=>
       {o} \cup B \subseteq Y /\ A \cap (Y \cup {"userrole"}) = {}
  /\ \A o, Y : Fits(Ensure(o), Y)
  /\ \A o, p, q, Y : Fits(Retype(o, p, q), Y) <=> o \in Y
BY DEF Fits, Create, Alter, Ensure, Retype

\* Each operation of an upgrade fits the schema that the ones before it leave.
LEMMA UpgradeFits ==
  \A v \in 1..5 : \A k \in 1..Len(Upgrade[v]) :
    Fits(Upgrade[v][k], After(Upgrade[v], k, SchemaOf(v - 1)))
<1>0. \A s, S : /\ After(s, 1, S) = S /\ After(s, 2, S) = Apply(s[1], S)
                /\ After(s, 3, S) = Apply(s[2], Apply(s[1], S))
  BY DEF After
<1>1. ASSUME NEW k \in 1..3
      PROVE  Fits(Upgrade[1][k], After(Upgrade[1], k, SchemaOf(0)))
  <2>1. /\ Upgrade[1][1] = Create("members", {}, {})
        /\ Upgrade[1][2] = Create("users", {}, {})
        /\ Upgrade[1][3] = Create("contributions", {"member_id"}, {"members"})
    BY DEF Upgrade, CreateInitialTables
  <2>2. /\ After(Upgrade[1], 1, SchemaOf(0)) = {}
        /\ After(Upgrade[1], 2, SchemaOf(0)) = {"members"}
        /\ After(Upgrade[1], 3, SchemaOf(0)) = {"members", "users"}
    BY <1>0, UpgradeDoes, Schemas DEF Does
  <2>3. QED
    BY <2>1, <2>2, Demands
<1>2. ASSUME NEW k \in 1..3
      PROVE  Fits(Upgrade[2][k], After(Upgrade[2], k, SchemaOf(1)))
  <2> DEFINE S1 == {"members", "users", "contributions", "member_id"}
  <2>1. /\ Upgrade[2][1] = Create("chamas", {}, {"users"})
        /\ Upgrade[2][2] = Create("memberships", {"role_varchar"}, {"chamas", "users"})
        /\ Upgrade[2][3] = Alter("contributions", {"members", "users", "chamas"},
                                 {"created_at", "user_id", "chama_id"}, {"member_id"})
    BY DEF Upgrade, ImplementChamas
  <2>2. /\ After(Upgrade[2], 1, SchemaOf(1)) = S1
        /\ After(Upgrade[2], 2, SchemaOf(1)) = S1 \cup {"chamas"}
        /\ After(Upgrade[2], 3, SchemaOf(1)) = S1 \cup {"chamas", "memberships", "role_varchar"}
    BY <1>0, UpgradeDoes, Schemas DEF Does
  <2>3. QED
    BY <2>1, <2>2, Demands
<1>3. ASSUME NEW k \in 1..2
      PROVE  Fits(Upgrade[3][k], After(Upgrade[3], k, SchemaOf(2)))
  <2>1. /\ Upgrade[3][1] = Ensure("membershiprole")
        /\ Upgrade[3][2] = Retype("memberships", "role_enum", "role_varchar")
    BY DEF Upgrade, AddRole
  <2>2. "memberships" \in After(Upgrade[3], 2, SchemaOf(2))
    BY <1>0, UpgradeDoes, Schemas DEF Does
  <2>3. QED
    BY <2>1, <2>2, Demands
<1>4. ASSUME NEW k \in 1..2
      PROVE  Fits(Upgrade[4][k], After(Upgrade[4], k, SchemaOf(3)))
  <2>1. /\ Upgrade[4][1] = Ensure("userrole")
        /\ Upgrade[4][2] = Alter("users", {}, {"is_active", "user_role"}, {})
    BY DEF Upgrade, AddUserColumns
  <2>2. /\ "users" \in After(Upgrade[4], 2, SchemaOf(3))
        /\ {"is_active", "user_role"} \cap (After(Upgrade[4], 2, SchemaOf(3)) \cup {"userrole"}) = {}
    BY <1>0, UpgradeDoes, Schemas DEF Does
  <2>3. QED
    BY <2>1, <2>2, Demands
<1>5. Fits(Upgrade[5][1], After(Upgrade[5], 1, SchemaOf(4)))
  <2>1. Upgrade[5][1] = Alter("users", {}, {"first_name", "last_name"}, {})
    BY DEF Upgrade, AddUserNames
  <2>2. /\ "users" \in SchemaOf(4)
        /\ {"first_name", "last_name"} \cap (SchemaOf(4) \cup {"userrole"}) = {}
    BY Schemas
  <2>3. QED
    BY <1>0, <2>1, <2>2, Demands
<1>6. ASSUME NEW v \in 1..5, NEW k \in 1..Len(Upgrade[v])
      PROVE  Fits(Upgrade[v][k], After(Upgrade[v], k, SchemaOf(v - 1)))
  <2>1. CASE v = 1 BY <2>1, <1>1, Lengths
  <2>2. CASE v = 2 BY <2>2, <1>2, Lengths
  <2>3. CASE v = 3 BY <2>3, <1>3, Lengths
  <2>4. CASE v = 4 BY <2>4, <1>4, Lengths
  <2>5. CASE v = 5 BY <2>5, <1>5, Lengths
  <2>6. QED
    BY <2>1, <2>2, <2>3, <2>4, <2>5
<1>7. QED
  BY <1>6

\* From whichever version: an upgrade fails only if another transaction has
\* changed the version since it began, and what downgrades leave behind is in
\* nobody's way.
THEOREM UpgradesFailOnlyIfOvertaken ==
  Spec => [][\A m \in Migrators :
               Fail(m) /\ Upwards(tx[m]) => version # tx[m].from]_vars
<1>1. ASSUME Typed, AllSound, VersionDescribesSchema, NEW m \in Migrators,
             Fail(m), Upwards(tx[m]), version = tx[m].from
      PROVE  FALSE
  <2> DEFINE t == tx[m]
             op == Script(t)[t.op]
             Y == After(Script(t), t.op, SchemaOf(t.at))
  <2>1. Scripted(t) /\ ~Possible(t, op)
    BY <1>1 DEF Fail
  <2>2. t \in Transactions /\ Sound(t)
    BY <1>1 DEF Typed, AllSound
  <2>3. View(t) = (schema \ t.gone) \cup t.made
    BY DEF View
  <2>4. Upwards(t) /\ version = t.from
    BY <1>1
  <2> HIDE DEF t
  <2>5. t.at + 1 \in 1..5 /\ Script(t) = Upgrade[t.at + 1] /\ t.op \in 1..Len(Script(t))
        /\ t.at = (t.at + 1) - 1
    BY <2>1, <2>2, <2>4 DEF Transactions, Latest, Upwards, Script, Scripted
  <2>6. Fits(op, Y)
    BY <2>5, UpgradeFits
  <2>7. Close(schema, SchemaOf(t.from))
    BY <1>1, <2>4 DEF VersionDescribesSchema, Close
  <2>8. Close((SchemaOf(t.from) \ t.gone) \cup t.made, Y)
    BY <2>2 DEF Sound
  <2> HIDE DEF op, Y
  <2>9. Close(View(t), Y)
    BY <2>3, <2>7, <2>8, CloseFacts
  <2>10. QED
    BY <2>1, <2>6, <2>9, FitsWhenClose DEF Possible
<1>2. Typed /\ AllSound /\ VersionDescribesSchema =>
        [\A m \in Migrators : Fail(m) /\ Upwards(tx[m]) => version # tx[m].from]_vars
  BY <1>1
<1>3. Spec => [](Typed /\ AllSound /\ VersionDescribesSchema)
  BY TypedInit, TypedStep, LocksInit, LockSteps, SoundInit, SoundSteps, PTL DEF Spec
<1>4. QED
  BY <1>2, <1>3, PTL
=============================================================================
