-------------------------- MODULE ProvisioningProofs --------------------------
(***************************************************************************)
(* What the migrations and the synchronisation of companies, users and     *)
(* campaigns promise, for any number of containers, files, callers,        *)
(* references, calls and faults.                                           *)
(***************************************************************************)
EXTENDS Provisioning, SequenceTheorems, TLAPS

------------------------------------------------------------------------------
(* Migrations: each takes effect once and in order, and only a migrated    *)
(* database is served.  The locks of the database are not needed for it: a *)
(* container that holds the row of a file in its open transaction works on *)
(* the first file not recorded, and by the primary key it is the only one. *)

\* The files that took effect are the first ones, and these are recorded.
InOrder ==
  /\ Len(history) <= LastMigration
  /\ \A i \in 1..Len(history) : history[i] = i
  /\ recorded = 1..Len(history)

\* Where a container is in the files, and that only one is about to commit.
BootInOrder ==
  \A p \in Containers :
    /\ boot[p].at <= Len(history) + 1
    /\ boot[p].pc \in {"execute", "record", "commit"} => boot[p].at <= LastMigration
    /\ boot[p].pc = "commit" =>
         /\ boot[p].at = Len(history) + 1
         /\ \A q \in Containers : boot[q].pc = "commit" => q = p
    /\ boot[p].pc \in {"bootstrap", "up"} => Len(history) = LastMigration

SchemaInv == MigrationsTypeOK /\ InOrder /\ BootInOrder

\* What a step that changes no file leaves of BootInOrder to show: container p.
LEMMA BootMoves ==
  ASSUME SchemaInv, UNCHANGED schemaVars, faults' \in 0..MaxFaults,
         NEW p \in Containers, NEW b \in [pc: BootPC, at: 1..(LastMigration + 1)],
         boot' = [boot EXCEPT ![p] = b],
         b.at <= Len(history) + 1,
         b.pc \in {"execute", "record", "commit"} => b.at <= LastMigration,
         b.pc = "commit" => b.at = Len(history) + 1
                            /\ \A q \in Containers \ {p} : boot[q].pc # "commit",
         b.pc \in {"bootstrap", "up"} => Len(history) = LastMigration
  PROVE  SchemaInv'
<1>1. boot' \in [Containers -> [pc: BootPC, at: 1..(LastMigration + 1)]]
  BY DEF SchemaInv, MigrationsTypeOK
<1>2. MigrationsTypeOK' /\ InOrder'
  BY <1>1 DEF SchemaInv, MigrationsTypeOK, InOrder, schemaVars
<1>3. boot'[p] = b /\ \A q \in Containers \ {p} : boot'[q] = boot[q]
  BY DEF SchemaInv, MigrationsTypeOK
<1>4. history' = history
  BY DEF schemaVars
<1>5. BootInOrder'
  BY <1>3, <1>4 DEF SchemaInv, BootInOrder
<1>6. QED BY <1>2, <1>5 DEF SchemaInv

\* A container that ends.
LEMMA BootEndsStep ==
  ASSUME SchemaInv, UNCHANGED schemaVars, faults' \in 0..MaxFaults,
         NEW p \in Containers, BootEnds(p)
  PROVE  SchemaInv'
<1>1. Down \in [pc: BootPC, at: 1..(LastMigration + 1)]
  BY MigrationAssumption DEF Down, BootPC
<1>2. Down.at <= Len(history) + 1
  BY DEF Down, SchemaInv, MigrationsTypeOK
<1>3. Down.pc = "down"
  BY DEF Down
<1>4. QED BY <1>1, <1>2, <1>3, BootMoves DEF BootEnds

\* A container that goes on with the same file.
LEMMA BootToStep ==
  ASSUME SchemaInv, UNCHANGED <<schemaVars, faults>>,
         NEW p \in Containers, NEW pc \in BootPC, BootTo(p, pc),
         pc \in {"execute", "record", "commit"} => boot[p].at <= LastMigration,
         pc = "commit" => boot[p].at = Len(history) + 1
                          /\ \A q \in Containers \ {p} : boot[q].pc # "commit",
         pc \in {"bootstrap", "up"} => Len(history) = LastMigration
  PROVE  SchemaInv'
<1> DEFINE b == [boot[p] EXCEPT !.pc = pc]
<1>1. boot[p] \in [pc: BootPC, at: 1..(LastMigration + 1)]
  BY DEF SchemaInv, MigrationsTypeOK
<1>2. /\ b \in [pc: BootPC, at: 1..(LastMigration + 1)]
      /\ b.pc = pc /\ b.at = boot[p].at
  BY <1>1
<1>3. boot' = [boot EXCEPT ![p] = b]
  BY DEF BootTo
<1>4. boot[p].at <= Len(history) + 1
  BY DEF SchemaInv, BootInOrder
<1>5. faults' \in 0..MaxFaults
  BY DEF SchemaInv, MigrationsTypeOK
<1> HIDE DEF b
<1>6. QED BY <1>2, <1>3, <1>4, <1>5, BootMoves

LEMMA FaultBounded == MigrationsTypeOK /\ Fault => faults' \in 0..MaxFaults
  BY MigrationAssumption DEF MigrationsTypeOK, Fault

------------------------------------------------------------------------------
(* The steps of the runner *)

\* The file a container commits is the next one, and then no container commits.
LEMMA CommitsNext ==
  ASSUME SchemaInv, NEW p \in Containers, CommitMigration(p)
  PROVE  /\ Len(history) < LastMigration
         /\ boot[p].at = Len(history) + 1
         /\ history' = Append(history, Len(history) + 1)
         /\ recorded' = recorded \union {Len(history) + 1}
<1>1. boot[p].at = Len(history) + 1 /\ boot[p].at <= LastMigration
  BY DEF SchemaInv, BootInOrder, CommitMigration, BootAt
<1>2. Len(history) \in Nat /\ LastMigration \in Nat
  BY MigrationAssumption DEF SchemaInv, MigrationsTypeOK
<1>3. Len(history) < LastMigration
  BY <1>1, <1>2
<1>4. QED BY <1>1, <1>3 DEF CommitMigration

LEMMA CommitStep ==
  ASSUME SchemaInv, NEW p \in Containers, CommitMigration(p)
  PROVE  SchemaInv'
<1> DEFINE n == Len(history)
<1>a. /\ n < LastMigration /\ boot[p].at = n + 1
      /\ history' = Append(history, n + 1) /\ recorded' = recorded \union {n + 1}
  BY CommitsNext
<1>b. history \in Seq(Files) /\ InOrder /\ LastMigration \in Nat
  BY MigrationAssumption DEF SchemaInv, MigrationsTypeOK
<1>0. n \in Nat
  BY <1>b
<1>c. n + 1 \in Files
  BY <1>0, <1>a, <1>b DEF Files
<1>1. /\ history' \in Seq(Files) /\ Len(history') = n + 1 /\ history'[n + 1] = n + 1
      /\ \A i \in 1..n : history'[i] = history[i]
  BY <1>a, <1>b, <1>c
<1>2. InOrder'
  <2>1. Len(history') <= LastMigration
    BY <1>0, <1>1, <1>a, <1>b
  <2>2. \A i \in 1..Len(history') : history'[i] = i
    BY <1>0, <1>1, <1>b DEF InOrder
  <2>3. recorded' = 1..Len(history')
    BY <1>0, <1>1, <1>a, <1>b DEF InOrder
  <2>4. QED BY <2>1, <2>2, <2>3 DEF InOrder
<1>3. faults' \in 0..MaxFaults
  BY FaultBounded DEF CommitMigration, SchemaInv, MigrationsTypeOK
<1>4. PICK b \in [pc: BootPC, at: 1..(LastMigration + 1)] :
        /\ boot' = [boot EXCEPT ![p] = b]
        /\ b.pc \in {"check", "down"} /\ b.at <= n + 2
  <2> DEFINE next == [pc |-> "check", at |-> boot[p].at + 1]
  <2>1. /\ next \in [pc: BootPC, at: 1..(LastMigration + 1)]
        /\ next.pc \in {"check", "down"} /\ next.at <= n + 2
    BY <1>0, <1>a, <1>b DEF BootPC, MigratePC
  <2>2. /\ Down \in [pc: BootPC, at: 1..(LastMigration + 1)]
        /\ Down.pc \in {"check", "down"} /\ Down.at <= n + 2
    BY <1>0, <1>b DEF Down, BootPC
  <2>3. boot' = [boot EXCEPT ![p] = next] \/ boot' = [boot EXCEPT ![p] = Down]
    BY DEF CommitMigration, BootEnds
  <2> HIDE DEF next
  <2>4. QED BY <2>1, <2>2, <2>3
<1>5. boot' \in [Containers -> [pc: BootPC, at: 1..(LastMigration + 1)]]
  BY <1>4 DEF SchemaInv, MigrationsTypeOK
<1>6. MigrationsTypeOK'
  BY <1>1, <1>2, <1>3, <1>5, <1>b DEF MigrationsTypeOK, InOrder, Files
<1>7. ASSUME NEW q \in Containers
      PROVE  /\ boot'[q].at <= n + 2 /\ boot'[q].pc # "commit"
             /\ boot'[q].pc \in {"execute", "record"} => boot'[q].at <= LastMigration
             /\ boot'[q].pc \notin {"bootstrap", "up"}
  <2>1. CASE q = p
    BY <1>4, <2>1 DEF SchemaInv, MigrationsTypeOK
  <2>2. CASE q # p
    <3>1. boot'[q] = boot[q] /\ boot[q] \in [pc: BootPC, at: 1..(LastMigration + 1)]
      BY <1>4, <2>2 DEF SchemaInv, MigrationsTypeOK
    <3>2. boot[p].pc = "commit"
      BY DEF CommitMigration, BootAt
    <3>3. QED BY <1>0, <2>2, <3>1, <3>2 DEF SchemaInv, BootInOrder
  <2>3. QED BY <2>1, <2>2
<1>8. BootInOrder'
  BY <1>1, <1>7 DEF BootInOrder
<1>9. QED BY <1>2, <1>6, <1>8 DEF SchemaInv

LEMMA AlreadyAppliedStep ==
  ASSUME SchemaInv, NEW p \in Containers, AlreadyApplied(p)
  PROVE  SchemaInv'
<1>0. /\ Len(history) \in Nat /\ LastMigration \in Nat
      /\ boot[p] \in [pc: BootPC, at: 1..(LastMigration + 1)]
      /\ boot[p].at <= Len(history) + 1 /\ Len(history) <= LastMigration
  BY MigrationAssumption DEF SchemaInv, MigrationsTypeOK, BootInOrder, InOrder
<1>1. CASE boot[p].at > LastMigration
  <2>1. BootTo(p, "bootstrap") /\ Len(history) = LastMigration
    BY <1>0, <1>1 DEF AlreadyApplied
  <2>2. QED BY <2>1, BootToStep DEF AlreadyApplied, BootPC
<1>2. CASE boot[p].at <= LastMigration /\ boot[p].at \in recorded
  <2> DEFINE b == [boot[p] EXCEPT !.at = boot[p].at + 1]
  <2>1. boot' = [boot EXCEPT ![p] = b]
    BY <1>0, <1>2 DEF AlreadyApplied
  <2>2. /\ b \in [pc: BootPC, at: 1..(LastMigration + 1)]
        /\ b.pc = "check" /\ b.at <= Len(history) + 1
    BY <1>0, <1>2 DEF SchemaInv, InOrder, AlreadyApplied, BootAt
  <2>3. UNCHANGED schemaVars /\ faults' \in 0..MaxFaults
    BY DEF AlreadyApplied, SchemaInv, MigrationsTypeOK
  <2> HIDE DEF b
  <2>4. QED BY <2>1, <2>2, <2>3, BootMoves
<1>3. CASE boot[p].at <= LastMigration /\ boot[p].at \notin recorded
  <2>1. BootTo(p, "execute")
    BY <1>0, <1>3 DEF AlreadyApplied
  <2>2. QED BY <1>3, <2>1, BootToStep DEF AlreadyApplied, BootPC, MigratePC
<1>4. QED BY <1>0, <1>1, <1>2, <1>3

LEMMA RecordStep ==
  ASSUME SchemaInv, NEW p \in Containers, RecordMigration(p)
  PROVE  SchemaInv'
<1>0. /\ Len(history) \in Nat /\ LastMigration \in Nat
      /\ boot[p] \in [pc: BootPC, at: 1..(LastMigration + 1)]
      /\ boot[p].at <= Len(history) + 1 /\ boot[p].at <= LastMigration
      /\ UNCHANGED <<schemaVars, faults>>
  BY MigrationAssumption
     DEF SchemaInv, MigrationsTypeOK, BootInOrder, RecordMigration, BootAt
<1>1. CASE boot[p].at \in recorded
  <2>1. BootEnds(p) /\ faults' \in 0..MaxFaults
    BY <1>1 DEF RecordMigration, SchemaInv, MigrationsTypeOK
  <2>2. QED BY <1>0, <2>1, BootEndsStep
<1>2. CASE boot[p].at \notin recorded
  <2>1. BootTo(p, "commit")
    BY <1>2 DEF RecordMigration
  <2>2. boot[p].at = Len(history) + 1
    BY <1>0, <1>2 DEF SchemaInv, InOrder
  <2>3. \A q \in Containers \ {p} : boot[q].pc # "commit"
    BY <2>2 DEF RecordMigration, BootAt, SchemaInv, BootInOrder
  <2>4. QED BY <1>0, <2>1, <2>2, <2>3, BootToStep DEF BootPC, MigratePC
<1>3. QED BY <1>1, <1>2

LEMMA MigrationStepKeeps ==
  ASSUME SchemaInv, NEW p \in Containers, MigrationStep(p)
  PROVE  SchemaInv'
<1>0. faults \in 0..MaxFaults
  BY DEF SchemaInv, MigrationsTypeOK
<1>1. CASE StartContainer(p)
  BY <1>1, BootToStep DEF StartContainer, BootPC, MigratePC
<1>2. CASE EnsureTable(p)
  BY <1>2, BootToStep DEF EnsureTable, BootPC, MigratePC
<1>3. CASE ExecuteMigration(p)
  <2>1. boot[p].at <= LastMigration
    BY <1>3 DEF ExecuteMigration, BootAt, SchemaInv, BootInOrder
  <2>2. CASE BootTo(p, "record")
    BY <1>3, <2>1, <2>2, BootToStep DEF ExecuteMigration, BootPC, MigratePC
  <2>3. CASE BootEnds(p)
    BY <1>0, <1>3, <2>3, BootEndsStep DEF ExecuteMigration
  <2>4. QED BY <1>3, <2>2, <2>3 DEF ExecuteMigration
<1>4. CASE MigrationFails(p)
  BY <1>4, BootEndsStep, FaultBounded DEF MigrationFails, SchemaInv
<1>5. QED BY <1>1, <1>2, <1>3, <1>4, AlreadyAppliedStep, RecordStep, CommitStep
          DEF MigrationStep

------------------------------------------------------------------------------
(* The steps of the whole *)

\* A statement changes none of the runner's variables but the number of faults.
LEMMA StatementFaults ==
  ASSUME MigrationsTypeOK, NEW k, Statement(k)
  PROVE  faults' \in 0..MaxFaults
<1>1. UNCHANGED faults \/ Fault
  BY DEF Statement, UpdateCompany, InsertCompany, UpdateUser, InsertUser, FindCampaign,
         UpdateScheduled, InsertCampaign, PublishCampaign, CallFails, GoesOn, Accept, AnswerLost
<1>2. QED BY <1>1, FaultBounded DEF MigrationsTypeOK

LEMMA SchemaFrame ==
  ASSUME SchemaInv, UNCHANGED migrationVars, faults' \in 0..MaxFaults
  PROVE  SchemaInv'
  BY DEF SchemaInv, MigrationsTypeOK, InOrder, BootInOrder, migrationVars

LEMMA SchemaStep == SchemaInv /\ [Next]_vars => SchemaInv'
<1> SUFFICES ASSUME SchemaInv, [Next]_vars PROVE SchemaInv'
  OBVIOUS
<1>0. MigrationsTypeOK /\ faults \in 0..MaxFaults
  BY DEF SchemaInv, MigrationsTypeOK
<1>1. ASSUME NEW p \in Containers, Migrate(p) PROVE SchemaInv'
  BY <1>1, MigrationStepKeeps DEF Migrate
<1>2. ASSUME NEW p \in Containers, BootstrapReturns(p) PROVE SchemaInv'
  <2>1. Len(history) = LastMigration
    BY <1>2 DEF BootstrapReturns, BootAt, SchemaInv, BootInOrder
  <2>2. UNCHANGED <<schemaVars, faults>> /\ (BootTo(p, "up") \/ BootEnds(p))
    BY <1>2 DEF BootstrapReturns
  <2>3. CASE BootTo(p, "up")
    BY <2>1, <2>2, <2>3, BootToStep DEF BootPC
  <2>4. CASE BootEnds(p)
    BY <1>0, <2>2, <2>4, BootEndsStep
  <2>5. QED BY <2>2, <2>3, <2>4
<1>3. ASSUME NEW p \in Containers, ServiceEnds(p) PROVE SchemaInv'
  BY <1>0, <1>3, BootEndsStep, FaultBounded DEF ServiceEnds
<1>4. ASSUME NEW k, Statement(k), UNCHANGED migrationVars PROVE SchemaInv'
  BY <1>0, <1>4, StatementFaults, SchemaFrame
<1>5. ASSUME NEW k \in SyncClients, Request(k), UNCHANGED migrationVars PROVE SchemaInv'
  BY <1>0, <1>5, SchemaFrame DEF Request
<1>6. ASSUME NEW e \in CampaignRefs, Release(e), UNCHANGED migrationVars PROVE SchemaInv'
  BY <1>0, <1>6, SchemaFrame DEF Release
<1>7. CASE UNCHANGED vars
  BY <1>0, <1>7, SchemaFrame DEF vars
<1>8. QED BY <1>1, <1>2, <1>3, <1>4, <1>5, <1>6, <1>7 DEF Next, Boot, Client

LEMMA SchemaInvariant == Spec => []SchemaInv
<1>1. Init => SchemaInv
  BY MigrationAssumption DEF Init, MigrationsInit, SchemaInv, MigrationsTypeOK, InOrder,
     BootInOrder, Down, BootPC
<1>2. QED BY <1>1, SchemaStep, PTL DEF Spec

\* Only a commit of the runner changes a file or its row.
LEMMA SchemaSteps ==
  ASSUME SchemaInv, [Next]_vars
  PROVE  \/ UNCHANGED schemaVars
         \/ \E p \in Containers : Migrate(p) /\ CommitMigration(p)
  BY DEF Next, vars, Boot, Migrate, MigrationStep, StartContainer, EnsureTable,
         AlreadyApplied, ExecuteMigration, RecordMigration, MigrationFails,
         BootstrapReturns, ServiceEnds, Client, migrationVars, schemaVars

\* The runner implements the history it promises.
THEOREM SchemaHistoryImplemented == Spec => ImplementsSchemaHistory
<1>1. Init => SchemaHistory!SchemaInit
  BY DEF Init, MigrationsInit, SchemaHistory!SchemaInit
<1>2. SchemaInv /\ [Next]_vars => [SchemaHistory!TakeEffect]_<<history, recorded>>
  BY SchemaSteps, CommitsNext DEF SchemaHistory!TakeEffect, schemaVars
<1>3. QED BY <1>1, <1>2, SchemaInvariant, PTL
          DEF Spec, ImplementsSchemaHistory, SchemaHistory!SchemaSpec

------------------------------------------------------------------------------
(* Synchronisation: the rows a call found stay what they were for the rest *)
(* of it, whoever runs in between: no row is deleted, a company never      *)
(* changes, a campaign keeps its company.  What others may have added the  *)
(* unique indexes find.                                                    *)

CompanyPCs == {"updateCompany", "insertCompany"}
UserPCs == {"updateUser", "insertUser"}
CampaignPCs == {"findCampaign", "updateScheduled", "insertCampaign", "publish"}

\* What holds of the call c of k with the companies cs and the campaigns sy.
Sound(k, c, cs, sy) ==
  /\ c \in Call
  /\ c.kind = "bootstrap" <=> k \in Containers
  /\ c.kind = "bootstrap" =>
       /\ c.pc \in {"updateCompany", "insertUser"}
       /\ c.companyRef = BootstrapRef /\ c.userRef = NoRef
       /\ c.username \in {Operator, Superadmin}
       /\ c.company = 0 \/ c.company \in DOMAIN cs
  /\ c.kind = "company" => c.pc \in CompanyPCs
  /\ c.kind = "user" => c.pc \in UserPCs
  /\ c.kind = "campaign" =>
       /\ c.campaign \in CampaignRefs
       /\ c.pc \notin CompanyPCs =>
            c.company \in DOMAIN cs /\ cs[c.company].ref = c.companyRef
  /\ c.pc \in CampaignPCs => c.kind = "campaign"
  /\ c.pc \in UserPCs => c.username \in Usernames
  /\ c.pc \in {"updateScheduled", "publish"} =>
       sy[c.campaign] # NoCampaign /\ sy[c.campaign].company = c.company

CallsSound ==
  \A k \in Callers : call[k] \in {Idle, Failed} \/ Sound(k, call[k], companies, synced)

\* The bootstrap company is there from the moment the last file took effect.
Seeded ==
  /\ Len(history) = LastMigration => Referenced(companies, BootstrapRef) # {}
  /\ Len(history) < LastMigration => companies = << >>

\* The unique index on username.
NamesUnique ==
  \A i, j \in DOMAIN users : users[i].username = users[j].username => i = j

\* AcceptedIsKept, and the row of the company is there.
AcceptedSound ==
  \A a \in accepted :
    LET row == synced[a.campaign]
    IN  /\ row # NoCampaign
        /\ row.company \in DOMAIN companies
        /\ companies[row.company].ref = a.companyRef
        /\ row.queued \/ row.send_mode = "scheduled"

DirectoryInv ==
  /\ SchemaInv
  /\ DirectoryTypeOK
  /\ Seeded
  /\ CallsSound
  /\ NamesUnique
  /\ AcceptedSound

------------------------------------------------------------------------------
(* What a step leaves as it was *)

Grows ==
  \A id \in DOMAIN companies : id \in DOMAIN companies' /\ companies'[id] = companies[id]

StaysSynced ==
  \A e \in CampaignRefs : synced[e] # NoCampaign =>
    /\ synced'[e] # NoCampaign /\ synced'[e].company = synced[e].company
    /\ synced[e].queued => synced'[e].queued
    /\ synced[e].send_mode = "scheduled" => synced'[e].send_mode = "scheduled"

LEMMA SoundStays ==
  ASSUME Grows, StaysSynced, NEW k, NEW c, Sound(k, c, companies, synced)
  PROVE  Sound(k, c, companies', synced')
  BY DEF Sound, Grows, StaysSynced, CampaignPCs

\* After a step of k: the calls, if its own is sound.
LEMMA CallMoves ==
  ASSUME DirectoryTypeOK, CallsSound, Grows, StaysSynced, NEW k \in Callers, NEW c,
         call' = [call EXCEPT ![k] = c],
         c \in {Idle, Failed} \/ Sound(k, c, companies', synced')
  PROVE  /\ call' \in [Callers -> {Idle, Failed} \union Call]
         /\ CallsSound'
<1>1. c \in {Idle, Failed} \union Call
  BY DEF Sound
<1>2. call' \in [Callers -> {Idle, Failed} \union Call]
  BY <1>1 DEF DirectoryTypeOK
<1>3. ASSUME NEW j \in Callers
      PROVE  call'[j] \in {Idle, Failed} \/ Sound(j, call'[j], companies', synced')
  <2>1. CASE j = k
    BY <2>1 DEF DirectoryTypeOK
  <2>2. CASE j # k
    <3>1. call'[j] = call[j]
      BY <2>2 DEF DirectoryTypeOK
    <3>2. QED BY <3>1, SoundStays DEF CallsSound
  <2>3. QED BY <2>1, <2>2
<1>4. CallsSound'
  BY <1>3 DEF CallsSound
<1>5. QED BY <1>2, <1>4

LEMMA RefusedIsRest ==
  ASSUME NEW k
  PROVE  Refused(k) \in {Idle, Failed}
  BY DEF Refused

\* A statement that goes on with a sound call, or ends it.
LEMMA GoesOnMoves ==
  ASSUME DirectoryTypeOK, CallsSound, Grows, StaysSynced, NEW k \in Callers, NEW c,
         GoesOn(k, c),
         c \in {Idle, Failed} \/ Sound(k, c, companies', synced')
  PROVE  /\ call' \in [Callers -> {Idle, Failed} \union Call]
         /\ CallsSound'
<1>1. CASE call' = [call EXCEPT ![k] = c]
  BY <1>1, CallMoves
<1>2. CASE call' = [call EXCEPT ![k] = Refused(k)]
  BY <1>2, CallMoves, RefusedIsRest
<1>3. QED BY <1>1, <1>2 DEF GoesOn

LEMMA AcceptedStays ==
  ASSUME DirectoryTypeOK, AcceptedSound, Grows, StaysSynced, UNCHANGED accepted
  PROVE  AcceptedSound'
<1> SUFFICES ASSUME NEW a \in accepted
             PROVE  /\ synced'[a.campaign] # NoCampaign
                    /\ synced'[a.campaign].company \in DOMAIN companies'
                    /\ companies'[synced'[a.campaign].company].ref = a.companyRef
                    /\ synced'[a.campaign].queued \/ synced'[a.campaign].send_mode = "scheduled"
  BY DEF AcceptedSound
<1>1. a.campaign \in CampaignRefs
  BY DEF DirectoryTypeOK, Accepted
<1>2. QED BY <1>1 DEF AcceptedSound, Grows, StaysSynced

LEMMA NothingChanges ==
  /\ UNCHANGED companies => Grows
  /\ UNCHANGED synced => StaysSynced
  BY DEF Grows, StaysSynced

\* A container starts, or one of its callers is served, on a migrated database.
LEMMA ServedMigrated ==
  ASSUME SchemaInv, Seeded, NEW k \in Callers, Serving(k)
  PROVE  Len(history) = LastMigration /\ Referenced(companies, BootstrapRef) # {}
<1>1. \E p \in Containers : boot[p].pc \in {"bootstrap", "up"}
  BY DirectoryAssumption DEF Serving, BootAt, Callers
<1>2. QED BY <1>1 DEF SchemaInv, BootInOrder, Seeded

\* A call that executes statement pc.
LEMMA DoingIsSound ==
  ASSUME CallsSound, NEW k \in Callers, NEW pc \in CallPC, Doing(k, pc)
  PROVE  Sound(k, call[k], companies, synced) /\ call[k].pc = pc /\ call[k] \in Call
<1>1. call[k].pc \notin {"idle", "failed"} /\ call[k].pc = pc
  BY DEF Doing, CallPC
<1>2. call[k] \notin {Idle, Failed}
  BY <1>1 DEF Idle, Failed
<1>3. QED BY <1>1, <1>2 DEF CallsSound, Sound

------------------------------------------------------------------------------
(* UpsertCompany *)

LEMMA CompanyAppended ==
  ASSUME companies \in Seq(CompanyRow), NEW r \in References,
         companies' = Append(companies, [ref |-> r])
  PROVE  /\ companies' \in Seq(CompanyRow) /\ Len(companies') = Len(companies) + 1
         /\ Grows
         /\ Len(companies) + 1 \in DOMAIN companies'
         /\ companies'[Len(companies) + 1].ref = r
<1>1. [ref |-> r] \in CompanyRow
  BY DEF CompanyRow
<1>2. /\ companies' \in Seq(CompanyRow) /\ Len(companies') = Len(companies) + 1
      /\ \A i \in 1..Len(companies) : companies'[i] = companies[i]
      /\ companies'[Len(companies) + 1] = [ref |-> r]
  BY <1>1, AppendProperties
<1>3. Len(companies) \in Nat /\ DOMAIN companies = 1..Len(companies)
      /\ DOMAIN companies' = 1..Len(companies')
  BY <1>2
<1>4. QED BY <1>2, <1>3 DEF Grows

\* The row a call for a company ends up with is the one it asked for.
LEMMA AfterCompanySound ==
  ASSUME NEW k \in Callers, NEW c, Sound(k, c, companies, synced), c.pc \in CompanyPCs,
         Grows, StaysSynced,
         NEW id \in CompanyIds, id \in DOMAIN companies', companies'[id].ref = c.companyRef
  PROVE  LET next == AfterCompany(k, c, id)
         IN  next \in {Idle, Failed} \/ Sound(k, next, companies', synced')
<1> DEFINE next == AfterCompany(k, c, id)
<1>0. Sound(k, c, companies', synced')
  BY SoundStays
<1>1. CASE c.kind = "company"
  BY <1>1 DEF AfterCompany
<1>2. CASE c.kind # "company" /\ c.username # NoName
  <2>1. next = [c EXCEPT !.company = id, !.pc = UserPC(c.userRef)]
    BY <1>2 DEF AfterCompany
  <2>2. c \in Call /\ UserPC(c.userRef) \in UserPCs
    BY <1>0 DEF Sound, UserPC, UserPCs
  <2>3. /\ next \in Call
        /\ next.pc = UserPC(c.userRef) /\ next.company = id
        /\ next.kind = c.kind /\ next.companyRef = c.companyRef /\ next.userRef = c.userRef
        /\ next.username = c.username /\ next.campaign = c.campaign
    BY <2>1, <2>2 DEF Call, CallPC, UserPCs
  <2>4. c.username \in Usernames
    BY <1>2, <2>2 DEF Call
  <2>5. c.kind # "user"
    BY <1>0 DEF Sound, CompanyPCs, UserPCs
  <2>6. next.pc \notin CampaignPCs /\ next.pc \notin CompanyPCs
    BY <2>2, <2>3 DEF UserPCs, CampaignPCs, CompanyPCs
  <2>7. c.kind = "bootstrap" => next.pc = "insertUser"
    BY <1>0, <2>3 DEF Sound, UserPC
  <2> HIDE DEF next
  <2>8. Sound(k, next, companies', synced')
    BY <1>0, <1>2, <2>2, <2>3, <2>4, <2>5, <2>6, <2>7 DEF Sound, CampaignPCs
  <2>9. QED BY <2>8 DEF next
<1>3. CASE c.kind # "company" /\ c.username = NoName /\ c.userRef # NoRef
  BY <1>3, RefusedIsRest DEF AfterCompany
<1>4. CASE c.kind # "company" /\ c.username = NoName /\ c.userRef = NoRef
  <2>1. next = [c EXCEPT !.company = id, !.pc = "findCampaign"]
    BY <1>4 DEF AfterCompany
  <2>2. c \in Call
    BY <1>0 DEF Sound
  <2>3. /\ next \in Call
        /\ next.pc = "findCampaign" /\ next.company = id
        /\ next.kind = c.kind /\ next.companyRef = c.companyRef
        /\ next.campaign = c.campaign
    BY <2>1, <2>2 DEF Call, CallPC
  <2>4. c.kind = "campaign"
    BY <1>0, <1>4, <2>2 DEF Sound, Call, CompanyPCs, UserPCs, NoName, Operator, Superadmin
  <2> HIDE DEF next
  <2>5. Sound(k, next, companies', synced')
    BY <1>0, <2>3, <2>4 DEF Sound, CampaignPCs, CompanyPCs, UserPCs
  <2>6. QED BY <2>5 DEF next
<1>5. QED BY <1>1, <1>2, <1>3, <1>4

\* What the steps of calls have in common.
StepSound ==
  /\ DirectoryTypeOK' /\ CallsSound' /\ NamesUnique' /\ AcceptedSound' /\ Grows

LEMMA UpdateCompanyStep ==
  ASSUME DirectoryInv, NEW k \in Callers, UpdateCompany(k)
  PROVE  StepSound
<1> DEFINE c == call[k]
<1>1. UNCHANGED <<companies, users, synced, accepted>>
  BY DEF UpdateCompany, tableVars
<1>2. Grows /\ StaysSynced
  BY <1>1, NothingChanges
<1>3. Sound(k, c, companies, synced) /\ c.pc = "updateCompany" /\ c \in Call
  BY DoingIsSound DEF UpdateCompany, DirectoryInv, CallPC
<1>4. Referenced(companies, BootstrapRef) # {}
  BY ServedMigrated DEF UpdateCompany, Doing, DirectoryInv
<1>5. /\ call' \in [Callers -> {Idle, Failed} \union Call] /\ CallsSound'
  <2>1. CASE Referenced(companies, c.companyRef) = {}
                /\ GoesOn(k, [c EXCEPT !.pc = "insertCompany"])
    <3> DEFINE next == [c EXCEPT !.pc = "insertCompany"]
    <3>1. /\ next \in Call /\ next.pc = "insertCompany"
          /\ next.kind = c.kind /\ next.campaign = c.campaign
      BY <1>3 DEF Call, CallPC
    <3>2. c.kind # "bootstrap" /\ c.kind # "user"
      BY <1>3, <1>4, <2>1 DEF Sound, UserPCs
    <3> HIDE DEF next
    <3>3. Sound(k, next, companies, synced)
      BY <1>3, <3>1, <3>2 DEF Sound, CompanyPCs, CampaignPCs, UserPCs
    <3>4. GoesOn(k, next)
      BY <2>1 DEF next
    <3>5. QED BY <1>1, <1>2, <3>3, <3>4, GoesOnMoves DEF DirectoryInv
  <2>2. ASSUME NEW id \in Referenced(companies, c.companyRef), GoesOn(k, AfterCompany(k, c, id))
        PROVE  /\ call' \in [Callers -> {Idle, Failed} \union Call] /\ CallsSound'
    <3>1. id \in DOMAIN companies /\ companies[id].ref = c.companyRef
      BY DEF Referenced
    <3>2. id \in CompanyIds
      BY <3>1, DirectoryAssumption DEF DirectoryInv, DirectoryTypeOK, CompanyIds
    <3>3. LET next == AfterCompany(k, c, id)
          IN  next \in {Idle, Failed} \/ Sound(k, next, companies', synced')
      BY <1>1, <1>2, <1>3, <3>1, <3>2, AfterCompanySound DEF CompanyPCs
    <3>4. QED BY <1>2, <2>2, <3>3, GoesOnMoves DEF DirectoryInv
  <2>3. QED BY <2>1, <2>2 DEF UpdateCompany
<1>6. QED BY <1>1, <1>2, <1>5, AcceptedStays
          DEF StepSound, DirectoryInv, DirectoryTypeOK, NamesUnique

LEMMA InsertCompanyStep ==
  ASSUME DirectoryInv, NEW k \in Callers, InsertCompany(k)
  PROVE  StepSound
<1> DEFINE c == call[k]
<1>1. UNCHANGED <<users, synced, accepted>>
  BY DEF InsertCompany
<1>2. StaysSynced
  BY <1>1, NothingChanges
<1>3. Sound(k, c, companies, synced) /\ c.pc = "insertCompany" /\ c \in Call
  BY DoingIsSound DEF InsertCompany, DirectoryInv, CallPC
<1>4. CASE GoesOn(k, Refused(k)) /\ UNCHANGED companies
  <2>1. Grows
    BY <1>4, NothingChanges
  <2>2. /\ call' \in [Callers -> {Idle, Failed} \union Call] /\ CallsSound'
    BY <1>2, <1>4, <2>1, GoesOnMoves, RefusedIsRest DEF DirectoryInv
  <2>3. QED BY <1>1, <1>2, <1>4, <2>1, <2>2, AcceptedStays
            DEF StepSound, DirectoryInv, DirectoryTypeOK, NamesUnique
<1>5. CASE /\ Len(companies) < MaxCompanies
           /\ companies' = Append(companies, [ref |-> c.companyRef])
           /\ GoesOn(k, AfterCompany(k, c, Len(companies) + 1))
  <2>1. c.companyRef \in References /\ companies \in Seq(CompanyRow)
    BY <1>3 DEF Call, DirectoryInv, DirectoryTypeOK
  <2>2. /\ companies' \in Seq(CompanyRow) /\ Len(companies') = Len(companies) + 1 /\ Grows
        /\ Len(companies) + 1 \in DOMAIN companies'
        /\ companies'[Len(companies) + 1].ref = c.companyRef
    BY <1>5, <2>1, CompanyAppended
  <2>3. Len(companies) + 1 \in CompanyIds /\ Len(companies') <= MaxCompanies
    BY <1>5, <2>1, <2>2, DirectoryAssumption DEF CompanyIds
  <2>4. LET next == AfterCompany(k, c, Len(companies) + 1)
        IN  next \in {Idle, Failed} \/ Sound(k, next, companies', synced')
    BY <1>2, <1>3, <2>2, <2>3, AfterCompanySound DEF CompanyPCs
  <2>5. /\ call' \in [Callers -> {Idle, Failed} \union Call] /\ CallsSound'
    BY <1>2, <1>5, <2>2, <2>4, GoesOnMoves DEF DirectoryInv
  <2>6. QED BY <1>1, <1>2, <2>2, <2>3, <2>5, AcceptedStays
            DEF StepSound, DirectoryInv, DirectoryTypeOK, NamesUnique
<1>6. QED BY <1>4, <1>5 DEF InsertCompany

------------------------------------------------------------------------------
(* UpsertUser *)

LEMMA AfterUserSound ==
  ASSUME NEW k \in Callers, NEW c, Sound(k, c, companies, synced), c.pc \in UserPCs
  PROVE  AfterUser(c) \in {Idle, Failed} \/ Sound(k, AfterUser(c), companies, synced)
<1> DEFINE next == AfterUser(c)
<1>0. c \in Call
  BY DEF Sound
<1>1. CASE c.kind = "campaign"
  <2>1. next = [c EXCEPT !.pc = "findCampaign"]
    BY <1>1 DEF AfterUser
  <2>2. /\ next \in Call /\ next.pc = "findCampaign" /\ next.kind = "campaign"
        /\ next.company = c.company /\ next.companyRef = c.companyRef
        /\ next.campaign = c.campaign
    BY <1>0, <1>1, <2>1 DEF Call, CallPC
  <2> HIDE DEF next
  <2>3. Sound(k, next, companies, synced)
    BY <1>1, <2>2 DEF Sound, UserPCs, CompanyPCs
  <2>4. QED BY <2>3 DEF next
<1>2. CASE c.kind = "bootstrap" /\ c.company # 0
  <2>1. next = [c EXCEPT !.pc = "insertUser", !.company = 0, !.username = Superadmin]
    BY <1>2 DEF AfterUser
  <2>2. /\ next \in Call /\ next.pc = "insertUser" /\ next.kind = "bootstrap"
        /\ next.company = 0 /\ next.username = Superadmin
        /\ next.companyRef = c.companyRef /\ next.userRef = c.userRef
    <3>1. 0 \in CompanyIds /\ Superadmin \in Usernames /\ "insertUser" \in CallPC
      BY DirectoryAssumption DEF CompanyIds, Usernames, CallPC
    <3>2. QED BY <1>0, <1>2, <2>1, <3>1 DEF Call
  <2> HIDE DEF next
  <2>3. Sound(k, next, companies, synced)
    BY <1>2, <2>2 DEF Sound, CampaignPCs, Usernames
  <2>4. QED BY <2>3 DEF next
<1>3. CASE c.kind # "campaign" /\ ~(c.kind = "bootstrap" /\ c.company # 0)
  BY <1>3 DEF AfterUser
<1>4. QED BY <1>1, <1>2, <1>3

\* The row a call for a user writes.
Row(c, ref) == [company |-> c.company, username |-> c.username, ref |-> ref]

\* Its row is written over row id, which nobody else's name is in the way of.
LEMMA UserWritten ==
  ASSUME users \in Seq(UserRow), NamesUnique, NEW id \in DOMAIN users, NEW row \in UserRow,
         Named(row.username) \subseteq {id},
         users' = [users EXCEPT ![id] = row]
  PROVE  users' \in Seq(UserRow) /\ NamesUnique' /\ DOMAIN users' = DOMAIN users
<1>1. id \in 1..Len(users) /\ DOMAIN users = 1..Len(users)
  OBVIOUS
<1>2. /\ users' \in Seq(UserRow) /\ Len(users') = Len(users)
      /\ \A j \in 1..Len(users) : users'[j] = IF j = id THEN row ELSE users[j]
  BY <1>1, ExceptSeq
<1>3. DOMAIN users' = 1..Len(users)
  BY <1>2
<1>4. \A j \in DOMAIN users : j # id => users[j].username # row.username
  BY DEF Named
<1>5. ASSUME NEW i \in DOMAIN users', NEW j \in DOMAIN users',
             users'[i].username = users'[j].username
      PROVE  i = j
  BY <1>1, <1>2, <1>3, <1>4, <1>5 DEF NamesUnique
<1>6. QED BY <1>1, <1>2, <1>3, <1>5 DEF NamesUnique

LEMMA UserAppended ==
  ASSUME users \in Seq(UserRow), NamesUnique, NEW row \in UserRow, Named(row.username) = {},
         users' = Append(users, row)
  PROVE  users' \in Seq(UserRow) /\ NamesUnique'
<1>1. /\ users' \in Seq(UserRow) /\ Len(users') = Len(users) + 1
      /\ \A j \in 1..Len(users) : users'[j] = users[j]
      /\ users'[Len(users) + 1] = row
  BY AppendProperties
<1>2. /\ DOMAIN users = 1..Len(users) /\ DOMAIN users' = 1..(Len(users) + 1)
      /\ Len(users) \in Nat
  BY <1>1
<1>3. \A j \in DOMAIN users : users[j].username # row.username
  BY DEF Named
<1>4. ASSUME NEW i \in DOMAIN users', NEW j \in DOMAIN users',
             users'[i].username = users'[j].username
      PROVE  i = j
  BY <1>1, <1>2, <1>3, <1>4 DEF NamesUnique
<1>5. QED BY <1>1, <1>4 DEF NamesUnique

\* What the statements of UpsertUser have in common.
LEMMA UserStatement ==
  ASSUME DirectoryInv, NEW k \in Callers, UNCHANGED <<companies, synced, accepted>>,
         Sound(k, call[k], companies, synced), call[k].pc \in UserPCs,
         users' \in Seq(UserRow), NamesUnique', NEW c,
         GoesOn(k, c), c \in {Idle, Failed} \/ Sound(k, c, companies, synced)
  PROVE  StepSound
<1>1. Grows /\ StaysSynced
  BY NothingChanges
<1>2. call' \in [Callers -> {Idle, Failed} \union Call] /\ CallsSound'
  BY <1>1, GoesOnMoves DEF DirectoryInv
<1>3. QED BY <1>1, <1>2, AcceptedStays DEF StepSound, DirectoryInv, DirectoryTypeOK

LEMMA RowTyped ==
  ASSUME NEW k, NEW c, Sound(k, c, companies, synced), c.pc \in UserPCs, NEW ref \in References
  PROVE  Row(c, ref) \in UserRow /\ Row(c, ref).username = c.username
  BY DEF Sound, Row, UserRow, Call

LEMMA UpdateUserStep ==
  ASSUME DirectoryInv, NEW k \in Callers, UpdateUser(k)
  PROVE  StepSound
<1> DEFINE c == call[k]
<1>1. Sound(k, c, companies, synced) /\ c.pc = "updateUser" /\ c \in Call
  BY DoingIsSound DEF UpdateUser, DirectoryInv, CallPC
<1>2. /\ UNCHANGED <<companies, synced, accepted>> /\ c.pc \in UserPCs
      /\ users \in Seq(UserRow) /\ NamesUnique
  BY <1>1 DEF UpdateUser, UserPCs, DirectoryInv, DirectoryTypeOK
<1>3. UNCHANGED users => users' \in Seq(UserRow) /\ NamesUnique'
  BY <1>2 DEF NamesUnique
<1>4. CASE GoesOn(k, [c EXCEPT !.pc = "insertUser"]) /\ UNCHANGED users
  <2> DEFINE next == [c EXCEPT !.pc = "insertUser"]
  <2>1. /\ next \in Call /\ next.pc = "insertUser" /\ next.kind = c.kind
        /\ next.company = c.company /\ next.companyRef = c.companyRef
        /\ next.username = c.username /\ next.userRef = c.userRef
        /\ next.campaign = c.campaign
    BY <1>1 DEF Call, CallPC
  <2>2. GoesOn(k, next)
    BY <1>4
  <2> HIDE DEF next
  <2>3. Sound(k, next, companies, synced)
    BY <1>1, <2>1 DEF Sound, UserPCs, CompanyPCs, CampaignPCs
  <2>4. QED BY <1>1, <1>2, <1>3, <1>4, <2>2, <2>3, UserStatement
<1>5. CASE GoesOn(k, Refused(k)) /\ UNCHANGED users
  BY <1>1, <1>2, <1>3, <1>5, UserStatement, RefusedIsRest
<1>6. ASSUME NEW id \in Referenced(users, c.userRef), Named(c.username) \subseteq {id},
             users' = [users EXCEPT ![id] = Row(c, c.userRef)], GoesOn(k, AfterUser(c))
      PROVE  StepSound
  <2>1. Row(c, c.userRef) \in UserRow /\ Row(c, c.userRef).username = c.username
    BY <1>1, <1>2, RowTyped DEF Call
  <2>2. id \in DOMAIN users
    BY DEF Referenced
  <2>3. users' \in Seq(UserRow) /\ NamesUnique'
    BY <1>2, <1>6, <2>1, <2>2, UserWritten
  <2>4. QED BY <1>1, <1>2, <1>6, <2>3, AfterUserSound, UserStatement
<1>7. QED BY <1>4, <1>5, <1>6 DEF UpdateUser, Row

LEMMA InsertUserStep ==
  ASSUME DirectoryInv, NEW k \in Callers, InsertUser(k)
  PROVE  StepSound
<1> DEFINE c == call[k]
<1>1. Sound(k, c, companies, synced) /\ c.pc = "insertUser" /\ c \in Call
  BY DoingIsSound DEF InsertUser, DirectoryInv, CallPC
<1>2. /\ UNCHANGED <<companies, synced, accepted>> /\ c.pc \in UserPCs
      /\ users \in Seq(UserRow) /\ NamesUnique
  BY <1>1 DEF InsertUser, UserPCs, DirectoryInv, DirectoryTypeOK
<1>3. CASE GoesOn(k, Refused(k)) /\ UNCHANGED users
  BY <1>1, <1>2, <1>3, UserStatement, RefusedIsRest DEF NamesUnique
<1>4. CASE /\ GoesOn(k, AfterUser(c)) /\ Named(c.username) = {}
           /\ users' = Append(users, Row(c, c.userRef))
  <2>1. Row(c, c.userRef) \in UserRow /\ Row(c, c.userRef).username = c.username
    BY <1>1, <1>2, RowTyped DEF Call
  <2>2. users' \in Seq(UserRow) /\ NamesUnique'
    BY <1>2, <1>4, <2>1, UserAppended
  <2>3. QED BY <1>1, <1>2, <1>4, <2>2, AfterUserSound, UserStatement
<1>5. ASSUME GoesOn(k, AfterUser(c)), NEW id \in Named(c.username),
             NEW ref, ref = IF c.userRef = NoRef THEN users[id].ref ELSE c.userRef,
             users' = [users EXCEPT ![id] = Row(c, ref)]
      PROVE  StepSound
  <2>1. id \in DOMAIN users /\ Named(c.username) \subseteq {id}
    BY <1>2 DEF Named, NamesUnique
  <2>2. ref \in References
    <3>1. users[id] \in UserRow
      BY <1>2, <2>1
    <3>2. users[id].ref \in References /\ c.userRef \in References
      BY <1>1, <3>1 DEF UserRow, Call
    <3>3. QED BY <1>5, <3>2
  <2>3. Row(c, ref) \in UserRow /\ Row(c, ref).username = c.username
    BY <1>1, <1>2, <2>2, RowTyped
  <2>4. users' \in Seq(UserRow) /\ NamesUnique'
    BY <1>2, <1>5, <2>1, <2>3, UserWritten
  <2>5. QED BY <1>1, <1>2, <1>5, <2>4, AfterUserSound, UserStatement
<1>6. QED BY <1>3, <1>4, <1>5 DEF InsertUser, Row

------------------------------------------------------------------------------
(* CampaignService.Create *)

\* What the statements of Create have in common, when they end the call or go on.
LEMMA CampaignStatement ==
  ASSUME DirectoryInv, NEW k \in Callers, UNCHANGED <<companies, users>>,
         StaysSynced, synced' \in [CampaignRefs -> {NoCampaign} \union CampaignRow],
         AcceptedSound', accepted' \subseteq Accepted, NEW c,
         call' = [call EXCEPT ![k] = c],
         c \in {Idle, Failed} \/ Sound(k, c, companies, synced')
  PROVE  StepSound
<1>1. Grows
  BY NothingChanges
<1>2. call' \in [Callers -> {Idle, Failed} \union Call] /\ CallsSound'
  BY <1>1, CallMoves DEF DirectoryInv
<1>3. QED BY <1>1, <1>2 DEF StepSound, DirectoryInv, DirectoryTypeOK, NamesUnique

\* The request that is accepted now.
Answer(c) == [campaign |-> c.campaign, companyRef |-> c.companyRef, mode |-> c.mode]

\* Accepting is sound when the row is there, for the company of the call, and queued
\* or scheduled.
LEMMA AcceptSound ==
  ASSUME DirectoryInv, NEW k \in Callers, UNCHANGED <<companies, users>>,
         StaysSynced, synced' \in [CampaignRefs -> {NoCampaign} \union CampaignRow],
         Sound(k, call[k], companies, synced), call[k].pc \in CampaignPCs,
         synced'[call[k].campaign] # NoCampaign,
         synced'[call[k].campaign].company = call[k].company,
         \/ synced'[call[k].campaign].queued
         \/ synced'[call[k].campaign].send_mode = "scheduled",
         Accept(k) \/ AnswerLost(k)
  PROVE  StepSound
<1> DEFINE c == call[k]
<1>1. Grows
  BY NothingChanges
<1>2. /\ c \in Call /\ c.kind = "campaign" /\ c.campaign \in CampaignRefs
      /\ c.company \in DOMAIN companies /\ companies[c.company].ref = c.companyRef
  BY DEF Sound, CampaignPCs, CompanyPCs
<1>3. CASE AnswerLost(k)
  <2>1. call' = [call EXCEPT ![k] = Refused(k)] /\ UNCHANGED accepted
    BY <1>3 DEF AnswerLost
  <2>2. AcceptedSound' /\ accepted' \subseteq Accepted
    BY <1>1, <2>1, AcceptedStays DEF DirectoryInv, DirectoryTypeOK
  <2>3. QED BY <2>1, <2>2, CampaignStatement, RefusedIsRest
<1>4. CASE Accept(k)
  <2>1. call' = [call EXCEPT ![k] = Idle] /\ accepted' = accepted \union {Answer(c)}
    BY <1>4 DEF Accept, Answer
  <2>2. Answer(c) \in Accepted
    BY <1>2 DEF Answer, Accepted, Call
  <2>3. ASSUME NEW a \in accepted'
        PROVE  /\ synced'[a.campaign] # NoCampaign
               /\ synced'[a.campaign].company \in DOMAIN companies'
               /\ companies'[synced'[a.campaign].company].ref = a.companyRef
               /\ synced'[a.campaign].queued \/ synced'[a.campaign].send_mode = "scheduled"
    <3>1. CASE a \in accepted
      <4>1. a.campaign \in CampaignRefs
        BY <3>1 DEF DirectoryInv, DirectoryTypeOK, Accepted
      <4>2. QED BY <3>1, <4>1 DEF DirectoryInv, AcceptedSound, StaysSynced
    <3>2. CASE a = Answer(c)
      BY <1>2, <3>2 DEF Answer
    <3>3. QED BY <2>1, <3>1, <3>2
  <2>4. AcceptedSound'
    BY <2>3 DEF AcceptedSound
  <2>5. accepted' \subseteq Accepted
    BY <2>1, <2>2 DEF DirectoryInv, DirectoryTypeOK
  <2>6. QED BY <2>1, <2>4, <2>5, CampaignStatement
<1>5. QED BY <1>3, <1>4

LEMMA FindCampaignStep ==
  ASSUME DirectoryInv, NEW k \in Callers, FindCampaign(k)
  PROVE  StepSound
<1> DEFINE c == call[k]
           row == synced[c.campaign]
<1>1. Sound(k, c, companies, synced) /\ c.pc = "findCampaign" /\ c \in Call
  BY DoingIsSound DEF FindCampaign, DirectoryInv, CallPC
<1>2. UNCHANGED <<companies, users, synced, accepted>>
  BY DEF FindCampaign, tableVars
<1>3. Grows /\ StaysSynced
  BY <1>2, NothingChanges
<1>4. ASSUME NEW next, GoesOn(k, next),
             next \in {Idle, Failed} \/ Sound(k, next, companies, synced)
      PROVE  StepSound
  <2>1. call' \in [Callers -> {Idle, Failed} \union Call] /\ CallsSound'
    BY <1>2, <1>3, <1>4, GoesOnMoves DEF DirectoryInv
  <2>2. QED BY <1>2, <1>3, <2>1, AcceptedStays
            DEF StepSound, DirectoryInv, DirectoryTypeOK, NamesUnique
<1>5. ASSUME NEW pc \in {"insertCampaign", "updateScheduled"},
             pc = "updateScheduled" => row # NoCampaign /\ row.company = c.company
      PROVE  Sound(k, [c EXCEPT !.pc = pc], companies, synced)
  <2> DEFINE next == [c EXCEPT !.pc = pc]
  <2>1. /\ next \in Call /\ next.pc = pc /\ next.kind = c.kind
        /\ next.company = c.company /\ next.companyRef = c.companyRef
        /\ next.campaign = c.campaign
    BY <1>1 DEF Call, CallPC
  <2> HIDE DEF next
  <2>2. Sound(k, next, companies, synced)
    BY <1>1, <1>5, <2>1 DEF Sound, CampaignPCs, CompanyPCs, UserPCs
  <2>3. QED BY <2>2 DEF next
<1>6. CASE row = NoCampaign \/ (row.company = c.company /\ c.mode # "scheduled")
  <2>1. GoesOn(k, [c EXCEPT !.pc = "insertCampaign"])
    BY <1>6 DEF FindCampaign
  <2>2. QED BY <1>4, <1>5, <2>1
<1>7. CASE row # NoCampaign /\ row.company # c.company
  BY <1>4, <1>7, RefusedIsRest DEF FindCampaign
<1>8. CASE row # NoCampaign /\ row.company = c.company /\ c.mode = "scheduled"
  <2>1. GoesOn(k, [c EXCEPT !.pc = "updateScheduled"])
    BY <1>8 DEF FindCampaign
  <2>2. QED BY <1>4, <1>5, <1>8, <2>1
<1>9. QED BY <1>6, <1>7, <1>8

\* One campaign is written over: what the others and itself keep.
LEMMA SyncedWritten ==
  ASSUME DirectoryTypeOK, NEW e \in CampaignRefs, NEW row \in CampaignRow,
         row.company # 0,
         synced[e] # NoCampaign => /\ row.company = synced[e].company
                                   /\ synced[e].queued => row.queued
                                   /\ synced[e].send_mode = "scheduled"
                                        => row.send_mode = "scheduled",
         UpdateSynced(e, row)
  PROVE  /\ synced' \in [CampaignRefs -> {NoCampaign} \union CampaignRow]
         /\ StaysSynced /\ synced'[e] = row /\ row # NoCampaign
<1>1. row # NoCampaign
  BY DEF NoCampaign
<1>2. /\ synced' \in [CampaignRefs -> {NoCampaign} \union CampaignRow]
      /\ synced'[e] = row /\ \A f \in CampaignRefs : f # e => synced'[f] = synced[f]
  BY DEF UpdateSynced, DirectoryTypeOK
<1>3. QED BY <1>1, <1>2 DEF StaysSynced

\* A call at a statement of Create knows its company and its campaign.
LEMMA CampaignCallKnows ==
  ASSUME DirectoryInv, NEW k \in Callers, Sound(k, call[k], companies, synced),
         call[k].pc \in CampaignPCs
  PROVE  /\ call[k].campaign \in CampaignRefs /\ call[k].company \in DOMAIN companies
         /\ call[k].company \in CompanyIds /\ call[k].company # 0
         /\ call[k].mode \in {"now", "scheduled"}
         /\ synced[call[k].campaign] # NoCampaign => synced[call[k].campaign] \in CampaignRow
<1>1. /\ call[k] \in Call /\ call[k].campaign \in CampaignRefs
      /\ call[k].company \in DOMAIN companies
  BY DEF Sound, CampaignPCs, CompanyPCs
<1>2. DOMAIN companies = 1..Len(companies)
  BY DEF DirectoryInv, DirectoryTypeOK
<1>3. QED BY <1>1, <1>2 DEF Call, DirectoryInv, DirectoryTypeOK

\* Nothing was written, the call ends.
LEMMA RefusedStep ==
  ASSUME DirectoryInv, NEW k \in Callers, GoesOn(k, Refused(k)),
         UNCHANGED <<companies, users, synced, accepted>>
  PROVE  StepSound
<1>1. Grows /\ StaysSynced
  BY NothingChanges
<1>2. call' \in [Callers -> {Idle, Failed} \union Call] /\ CallsSound'
  BY <1>1, GoesOnMoves, RefusedIsRest DEF DirectoryInv
<1>3. QED BY <1>1, <1>2, AcceptedStays
          DEF StepSound, DirectoryInv, DirectoryTypeOK, NamesUnique

LEMMA UpdateScheduledStep ==
  ASSUME DirectoryInv, NEW k \in Callers, UpdateScheduled(k)
  PROVE  StepSound
<1> DEFINE c == call[k]
           e == c.campaign
<1>1. Sound(k, c, companies, synced) /\ c.pc = "updateScheduled" /\ c.pc \in CampaignPCs
  BY DoingIsSound DEF UpdateScheduled, DirectoryInv, CallPC, CampaignPCs
<1>2. UNCHANGED <<companies, users>>
  BY DEF UpdateScheduled
<1>3. CASE GoesOn(k, Refused(k)) /\ UNCHANGED <<synced, accepted>>
  BY <1>2, <1>3, RefusedStep
<1>4. CASE /\ UpdateSynced(e, [synced[e] EXCEPT !.send_mode = "scheduled"])
           /\ Accept(k) \/ AnswerLost(k)
  <2> DEFINE row == [synced[e] EXCEPT !.send_mode = "scheduled"]
  <2>1. /\ synced[e] # NoCampaign /\ synced[e].company = c.company
        /\ e \in CampaignRefs /\ c.company # 0 /\ synced[e] \in CampaignRow
    BY <1>1, CampaignCallKnows DEF Sound
  <2>2. /\ row \in CampaignRow /\ row.send_mode = "scheduled"
        /\ row.company = synced[e].company /\ row.queued = synced[e].queued
    BY <2>1 DEF CampaignRow
  <2>3. UpdateSynced(e, row)
    BY <1>4
  <2> HIDE DEF row
  <2>4. /\ synced' \in [CampaignRefs -> {NoCampaign} \union CampaignRow]
        /\ StaysSynced /\ synced'[e] = row /\ row # NoCampaign
    BY <2>1, <2>2, <2>3, SyncedWritten DEF DirectoryInv
  <2>5. QED BY <1>1, <1>2, <1>4, <2>1, <2>2, <2>4, AcceptSound
<1>5. QED BY <1>3, <1>4 DEF UpdateScheduled

LEMMA InsertCampaignStep ==
  ASSUME DirectoryInv, NEW k \in Callers, InsertCampaign(k)
  PROVE  StepSound
<1> DEFINE c == call[k]
           e == c.campaign
           row == [company |-> c.company, send_mode |-> c.mode,
                   released_at |-> FALSE, queued |-> FALSE]
<1>1. /\ Sound(k, c, companies, synced) /\ c.pc = "insertCampaign" /\ c.pc \in CampaignPCs
      /\ c \in Call
  BY DoingIsSound DEF InsertCampaign, DirectoryInv, CallPC, CampaignPCs
<1>2. UNCHANGED <<companies, users>>
  BY DEF InsertCampaign
<1>3. /\ e \in CampaignRefs /\ c.company \in CompanyIds /\ c.company # 0
      /\ c.mode \in {"now", "scheduled"}
  BY <1>1, CampaignCallKnows
<1>4. CASE GoesOn(k, Refused(k)) /\ UNCHANGED <<synced, accepted>>
  BY <1>2, <1>4, RefusedStep
<1>5. CASE synced[e] = NoCampaign /\ UpdateSynced(e, row)
  <2>1. row \in CampaignRow /\ row.company = c.company /\ row.send_mode = c.mode
    BY <1>3 DEF CampaignRow
  <2> HIDE DEF row
  <2>2. /\ synced' \in [CampaignRefs -> {NoCampaign} \union CampaignRow]
        /\ StaysSynced /\ synced'[e] = row /\ row # NoCampaign
    BY <1>3, <1>5, <2>1, SyncedWritten DEF DirectoryInv
  <2>3. CASE GoesOn(k, [c EXCEPT !.pc = "publish"]) /\ UNCHANGED accepted
    <3> DEFINE next == [c EXCEPT !.pc = "publish"]
    <3>1. /\ next \in Call /\ next.pc = "publish" /\ next.kind = c.kind
          /\ next.company = c.company /\ next.companyRef = c.companyRef
          /\ next.campaign = c.campaign
      BY <1>1 DEF Call, CallPC
    <3>2. GoesOn(k, next)
      BY <2>3
    <3> HIDE DEF next
    <3>3. Sound(k, next, companies, synced')
      BY <1>1, <2>1, <2>2, <3>1 DEF Sound, CampaignPCs, CompanyPCs, UserPCs
    <3>4. AcceptedSound' /\ accepted' \subseteq Accepted
      BY <1>2, <2>2, <2>3, NothingChanges, AcceptedStays DEF DirectoryInv, DirectoryTypeOK
    <3>5. \E v : /\ call' = [call EXCEPT ![k] = v]
                 /\ v \in {Idle, Failed} \/ Sound(k, v, companies, synced')
      BY <3>2, <3>3, RefusedIsRest DEF GoesOn
    <3>6. QED BY <1>2, <2>2, <3>4, <3>5, CampaignStatement
  <2>4. CASE c.mode # "now" /\ (Accept(k) \/ AnswerLost(k))
    <3>1. row.send_mode = "scheduled"
      BY <1>3, <2>1, <2>4
    <3>2. QED BY <1>1, <1>2, <2>1, <2>2, <2>4, <3>1, AcceptSound
  <2>5. QED BY <1>5, <2>3, <2>4 DEF InsertCampaign, NoCampaign
<1>6. QED BY <1>4, <1>5 DEF InsertCampaign

LEMMA PublishStep ==
  ASSUME DirectoryInv, NEW k \in Callers, PublishCampaign(k)
  PROVE  StepSound
<1> DEFINE c == call[k]
           e == c.campaign
           row == [synced[e] EXCEPT !.queued = TRUE]
<1>1. Sound(k, c, companies, synced) /\ c.pc = "publish" /\ c.pc \in CampaignPCs
  BY DoingIsSound DEF PublishCampaign, DirectoryInv, CallPC, CampaignPCs
<1>2. /\ UNCHANGED <<companies, users>> /\ UpdateSynced(e, row)
      /\ Accept(k) \/ AnswerLost(k)
  BY DEF PublishCampaign
<1>3. /\ synced[e] # NoCampaign /\ synced[e].company = c.company
      /\ e \in CampaignRefs /\ c.company # 0 /\ synced[e] \in CampaignRow
  BY <1>1, CampaignCallKnows DEF Sound
<1>4. /\ row \in CampaignRow /\ row.queued /\ row.send_mode = synced[e].send_mode
      /\ row.company = synced[e].company
  BY <1>3 DEF CampaignRow
<1> HIDE DEF row
<1>5. /\ synced' \in [CampaignRefs -> {NoCampaign} \union CampaignRow]
      /\ StaysSynced /\ synced'[e] = row /\ row # NoCampaign
  BY <1>2, <1>3, <1>4, SyncedWritten DEF DirectoryInv
<1>6. QED BY <1>1, <1>2, <1>3, <1>4, <1>5, AcceptSound

LEMMA StatementStep ==
  ASSUME DirectoryInv, NEW k \in Callers, Statement(k)
  PROVE  StepSound
<1>1. CASE CallFails(k)
  <2>1. GoesOn(k, Refused(k)) /\ UNCHANGED <<companies, users, synced, accepted>>
    BY <1>1 DEF CallFails, GoesOn, tableVars
  <2>2. QED BY <2>1, RefusedStep
<1>2. QED BY <1>1, UpdateCompanyStep, InsertCompanyStep, UpdateUserStep, InsertUserStep,
             FindCampaignStep, UpdateScheduledStep, InsertCampaignStep, PublishStep
          DEF Statement

------------------------------------------------------------------------------
(* The other steps *)

\* Whatever leaves the tables and the answers alone, or adds a company.
LEMMA OtherStep ==
  ASSUME DirectoryInv, UNCHANGED <<users, accepted>>, Grows, StaysSynced,
         companies' \in Seq(CompanyRow), Len(companies') <= MaxCompanies,
         synced' \in [CampaignRefs -> {NoCampaign} \union CampaignRow],
         call' \in [Callers -> {Idle, Failed} \union Call], CallsSound'
  PROVE  StepSound
  BY AcceptedStays DEF StepSound, DirectoryInv, DirectoryTypeOK, NamesUnique

LEMMA TablesTyped ==
  ASSUME DirectoryInv
  PROVE  /\ companies \in Seq(CompanyRow) /\ Len(companies) <= MaxCompanies
         /\ synced \in [CampaignRefs -> {NoCampaign} \union CampaignRow]
         /\ call \in [Callers -> {Idle, Failed} \union Call]
  BY DEF DirectoryInv, DirectoryTypeOK

\* Every call a caller may make is sound.
LEMMA CallIsSound ==
  ASSUME NEW k \in SyncClients, NEW c \in Calls
  PROVE  Sound(k, c, companies, synced)
<1>0. k \notin Containers /\ 0 \in CompanyIds
  BY DirectoryAssumption DEF CompanyIds
<1>1. ASSUME NEW ref \in CompanyRefs \union {NoRef}
      PROVE  Sound(k, CompanyCall(ref), companies, synced)
  <2>1. CompanyCall(ref) =
          [pc |-> CompanyPC(ref), kind |-> "company", companyRef |-> ref, company |-> 0,
           username |-> NoName, userRef |-> NoRef, campaign |-> NoRef, mode |-> "now"]
    BY DEF CompanyCall
  <2>2. CompanyPC(ref) \in CompanyPCs /\ ref \in References /\ NoRef \in References
    BY DEF CompanyPC, CompanyPCs, References
  <2>3. CompanyCall(ref) \in Call
    BY <1>0, <2>1, <2>2 DEF Call, CallPC, CompanyPCs
  <2>4. QED BY <1>0, <2>1, <2>2, <2>3 DEF Sound, CompanyPCs, CampaignPCs, UserPCs
<1>2. ASSUME NEW id \in CompanyIds, NEW username \in SyncedNames,
             NEW ref \in UserRefs \union {NoRef}
      PROVE  Sound(k, UserCall(id, username, ref), companies, synced)
  <2>1. UserCall(id, username, ref) =
          [pc |-> UserPC(ref), kind |-> "user", companyRef |-> NoRef, company |-> id,
           username |-> username, userRef |-> ref, campaign |-> NoRef, mode |-> "now"]
    BY DEF UserCall
  <2>2. /\ UserPC(ref) \in UserPCs /\ ref \in References /\ NoRef \in References
        /\ username \in Usernames
    BY DEF UserPC, UserPCs, References, Usernames
  <2>3. UserCall(id, username, ref) \in Call
    BY <2>1, <2>2 DEF Call, CallPC, UserPCs
  <2>4. QED BY <1>0, <2>1, <2>2, <2>3 DEF Sound, CompanyPCs, CampaignPCs, UserPCs
<1>3. ASSUME NEW ref \in CompanyRefs \union {NoRef}, NEW username \in SyncedNames \union {NoName},
             NEW userRef \in UserRefs \union {NoRef}, NEW e \in CampaignRefs,
             NEW mode \in {"now", "scheduled"}
      PROVE  Sound(k, CampaignCall(ref, username, userRef, e, mode), companies, synced)
  <2>1. CampaignCall(ref, username, userRef, e, mode) =
          [pc |-> CompanyPC(ref), kind |-> "campaign", companyRef |-> ref, company |-> 0,
           username |-> username, userRef |-> userRef, campaign |-> e, mode |-> mode]
    BY DEF CampaignCall
  <2>2. /\ CompanyPC(ref) \in CompanyPCs /\ ref \in References /\ userRef \in References
        /\ username \in Usernames \union {NoName}
    BY DEF CompanyPC, CompanyPCs, References, Usernames
  <2>3. CampaignCall(ref, username, userRef, e, mode) \in Call
    BY <1>0, <2>1, <2>2 DEF Call, CallPC, CompanyPCs
  <2>4. QED BY <1>0, <2>1, <2>2, <2>3 DEF Sound, CompanyPCs, CampaignPCs, UserPCs
<1>4. QED BY <1>1, <1>2, <1>3, CallsAssumption

LEMMA RequestStep ==
  ASSUME DirectoryInv, NEW k \in SyncClients, Request(k)
  PROVE  StepSound
<1>1. UNCHANGED <<companies, users, synced, accepted>>
  BY DEF Request, tableVars
<1>2. Grows /\ StaysSynced
  BY <1>1, NothingChanges
<1>3. PICK c \in Calls : call' = [call EXCEPT ![k] = c]
  BY DEF Request
<1>4. Sound(k, c, companies', synced')
  BY <1>2, CallIsSound, SoundStays
<1>5. call' \in [Callers -> {Idle, Failed} \union Call] /\ CallsSound'
  BY <1>2, <1>3, <1>4, CallMoves DEF DirectoryInv, Callers
<1>6. QED BY <1>1, <1>2, <1>5, OtherStep, TablesTyped

LEMMA RowIsThere == ASSUME NEW row \in CampaignRow PROVE row # NoCampaign
<1>1. DOMAIN row = {"company", "send_mode", "released_at", "queued"}
  BY DEF CampaignRow
<1>2. DOMAIN NoCampaign = {"company"}
  BY DEF NoCampaign
<1>3. QED BY <1>1, <1>2

LEMMA CallsStay ==
  ASSUME DirectoryInv, Grows, StaysSynced,
         \A k \in Callers : call'[k] \in {Idle, Failed} \/ call'[k] = call[k]
  PROVE  CallsSound'
<1> SUFFICES ASSUME NEW k \in Callers
             PROVE  call'[k] \in {Idle, Failed} \/ Sound(k, call'[k], companies', synced')
  BY DEF CallsSound
<1>1. CASE call'[k] \in {Idle, Failed}
  BY <1>1
<1>2. CASE call'[k] = call[k]
  BY <1>2, SoundStays DEF DirectoryInv, CallsSound
<1>3. QED BY <1>1, <1>2

LEMMA ReleaseStep ==
  ASSUME DirectoryInv, NEW e \in CampaignRefs, Release(e)
  PROVE  StepSound
<1> DEFINE row == [synced[e] EXCEPT !.released_at = TRUE, !.queued = TRUE]
<1>1. UNCHANGED <<companies, users, call, accepted>> /\ Grows
  BY NothingChanges DEF Release
<1>2. synced[e] \in CampaignRow
  BY DEF Release, DirectoryInv, DirectoryTypeOK
<1>3. /\ row \in CampaignRow /\ row.company = synced[e].company /\ row.queued
      /\ row.send_mode = synced[e].send_mode
  BY <1>2 DEF CampaignRow
<1>4. synced' = [synced EXCEPT ![e] = row]
  BY DEF Release, UpdateSynced
<1> HIDE DEF row
<1>5. synced' \in [CampaignRefs -> {NoCampaign} \union CampaignRow] /\ synced'[e] = row
      /\ \A f \in CampaignRefs : f # e => synced'[f] = synced[f]
  BY <1>3, <1>4, TablesTyped
<1>6. row # NoCampaign
  BY <1>3, RowIsThere
<1>7. StaysSynced
  BY <1>3, <1>5, <1>6 DEF StaysSynced
<1>8. CallsSound'
  BY <1>1, <1>7, CallsStay
<1>9. QED BY <1>1, <1>5, <1>7, <1>8, OtherStep, TablesTyped

\* A container ends, or its service starts: tables and answers stay.
LEMMA ContainerStep ==
  ASSUME DirectoryInv, NEW p \in Containers, BootstrapReturns(p) \/ ServiceEnds(p)
  PROVE  StepSound
<1>1. UNCHANGED <<companies, users, synced, accepted>>
  BY DEF BootstrapReturns, ServiceEnds, tableVars
<1>2. Grows /\ StaysSynced
  BY <1>1, NothingChanges
<1>3. /\ call' \in [Callers -> {Idle, Failed} \union Call]
      /\ \A k \in Callers : call'[k] \in {Idle, Failed} \/ call'[k] = call[k]
  BY TablesTyped DEF BootstrapReturns, ServiceEnds
<1>4. QED BY <1>1, <1>2, <1>3, CallsStay, OtherStep, TablesTyped

\* A migration step commits the next file or none.
LEMMA MigrateSteps ==
  ASSUME SchemaInv, NEW p \in Containers, MigrationStep(p)
  PROVE  UNCHANGED schemaVars \/ CommitMigration(p)
  BY DEF MigrationStep, StartContainer, EnsureTable, AlreadyApplied, ExecuteMigration,
         RecordMigration, MigrationFails

\* The company of the bootstrap is seeded with the last file, into an empty table.
LEMMA SeedingStep ==
  ASSUME DirectoryInv, NEW p \in Containers, Migrate(p)
  PROVE  /\ companies' \in Seq(CompanyRow) /\ Len(companies') <= MaxCompanies
         /\ Grows /\ Seeded'
<1>0. SchemaInv /\ Seeded /\ Len(history) \in Nat /\ LastMigration \in Nat
  BY MigrationAssumption DEF DirectoryInv, SchemaInv, MigrationsTypeOK
<1>1. CASE UNCHANGED schemaVars
  <2>1. history' = history /\ companies' = companies
    BY <1>1 DEF Migrate, schemaVars
  <2>2. QED BY <1>0, <2>1, NothingChanges, TablesTyped DEF Seeded, Referenced
<1>2. CASE CommitMigration(p)
  <2>1. /\ Len(history) < LastMigration /\ boot[p].at = Len(history) + 1
        /\ history' = Append(history, Len(history) + 1)
    BY <1>0, <1>2, CommitsNext
  <2>2. Len(history') = Len(history) + 1 /\ history' # history
    BY <1>0, <2>1 DEF SchemaInv, MigrationsTypeOK
  <2>3. companies = << >> /\ companies \in Seq(CompanyRow) /\ Len(companies) = 0
    BY <1>0, <2>1, TablesTyped DEF Seeded
  <2>4. CASE boot[p].at = LastMigration
    <3>1. Referenced(companies, BootstrapRef) = {}
      BY <2>3 DEF Referenced
    <3>2. companies' = Append(companies, [ref |-> BootstrapRef])
      BY <2>2, <2>4, <3>1 DEF Migrate, SeedCompany
    <3>3. /\ companies' \in Seq(CompanyRow) /\ Len(companies') = 1 /\ Grows
          /\ 1 \in DOMAIN companies' /\ companies'[1].ref = BootstrapRef
      BY <2>3, <3>2, CompanyAppended DEF References
    <3>4. Referenced(companies', BootstrapRef) # {}
      BY <3>3 DEF Referenced, BootstrapRef, NoRef
    <3>5. Len(history') = LastMigration /\ 1 <= MaxCompanies
      BY <2>1, <2>2, <2>4, DirectoryAssumption
    <3>6. QED BY <1>0, <3>3, <3>4, <3>5 DEF Seeded
  <2>5. CASE boot[p].at # LastMigration
    <3>1. companies' = companies
      BY <2>5 DEF Migrate
    <3>2. Len(history') # LastMigration
      BY <2>1, <2>2, <2>5
    <3>3. QED BY <2>3, <3>1, <3>2, NothingChanges, TablesTyped DEF Seeded
  <2>6. QED BY <2>4, <2>5
<1>3. QED BY <1>0, <1>1, <1>2, MigrateSteps DEF Migrate

LEMMA MigrateStep ==
  ASSUME DirectoryInv, NEW p \in Containers, Migrate(p)
  PROVE  StepSound
<1>1. UNCHANGED <<users, synced, accepted>> /\ StaysSynced
  BY NothingChanges DEF Migrate
<1>2. /\ companies' \in Seq(CompanyRow) /\ Len(companies') <= MaxCompanies /\ Grows
  BY SeedingStep
<1>3. CASE call' = call
  <2>1. CallsSound'
    BY <1>1, <1>2, <1>3, CallsStay
  <2>2. QED BY <1>1, <1>2, <1>3, <2>1, OtherStep, TablesTyped
<1>4. CASE call' = [call EXCEPT ![p] = BootstrapCall]
  <2>1. BootstrapCall \in Call
    BY DirectoryAssumption
       DEF BootstrapCall, Call, CallPC, CompanyIds, References, Usernames
  <2>2. Sound(p, BootstrapCall, companies', synced')
    BY <2>1 DEF BootstrapCall, Sound, CampaignPCs, UserPCs
  <2>3. call' \in [Callers -> {Idle, Failed} \union Call] /\ CallsSound'
    BY <1>1, <1>2, <1>4, <2>2, CallMoves DEF DirectoryInv, Callers
  <2>4. QED BY <1>1, <1>2, <2>3, OtherStep, TablesTyped
<1>5. QED BY <1>3, <1>4 DEF Migrate

\* No file takes effect and the companies only become more.
LEMMA SeededStays ==
  ASSUME Seeded, Grows, UNCHANGED history,
         Len(history) = LastMigration \/ UNCHANGED companies
  PROVE  Seeded'
<1>1. ASSUME Referenced(companies, BootstrapRef) # {}
      PROVE  Referenced(companies', BootstrapRef) # {}
  <2>1. PICK id \in DOMAIN companies : BootstrapRef # NoRef /\ companies[id].ref = BootstrapRef
    BY <1>1 DEF Referenced
  <2>2. id \in Referenced(companies', BootstrapRef)
    BY <2>1 DEF Grows, Referenced
  <2>3. QED BY <2>2
<1>2. QED BY <1>1, MigrationAssumption DEF Seeded

LEMMA DirectoryStep == DirectoryInv /\ [Next]_vars => DirectoryInv'
<1> SUFFICES ASSUME DirectoryInv, [Next]_vars PROVE DirectoryInv'
  OBVIOUS
<1>0. SchemaInv' /\ SchemaInv /\ Seeded
  BY SchemaStep DEF DirectoryInv
<1>1. ASSUME NEW p \in Containers, Migrate(p) PROVE DirectoryInv'
  BY <1>0, <1>1, MigrateStep, SeedingStep DEF StepSound, DirectoryInv
<1>2. ASSUME NEW p \in Containers, BootstrapReturns(p) \/ ServiceEnds(p) PROVE DirectoryInv'
  <2>1. UNCHANGED <<history, companies>>
    BY <1>2 DEF BootstrapReturns, ServiceEnds, schemaVars, tableVars
  <2>2. QED BY <1>0, <1>2, <2>1, ContainerStep, SeededStays DEF StepSound, DirectoryInv
<1>3. ASSUME NEW k \in Callers, Statement(k), UNCHANGED migrationVars PROVE DirectoryInv'
  <2>1. Serving(k)
    BY <1>3 DEF Statement, UpdateCompany, InsertCompany, UpdateUser, InsertUser, FindCampaign,
       UpdateScheduled, InsertCampaign, PublishCampaign, CallFails, Doing
  <2>2. Len(history) = LastMigration /\ UNCHANGED history
    BY <1>0, <1>3, <2>1, ServedMigrated DEF migrationVars
  <2>3. QED BY <1>0, <1>3, <2>2, StatementStep, SeededStays DEF StepSound, DirectoryInv
<1>4. ASSUME NEW k \in SyncClients, Request(k), UNCHANGED migrationVars PROVE DirectoryInv'
  <2>1. UNCHANGED <<history, companies>>
    BY <1>4 DEF Request, migrationVars, tableVars
  <2>2. QED BY <1>0, <1>4, <2>1, RequestStep, SeededStays DEF StepSound, DirectoryInv
<1>5. ASSUME NEW e \in CampaignRefs, Release(e), UNCHANGED migrationVars PROVE DirectoryInv'
  <2>1. UNCHANGED <<history, companies>>
    BY <1>5 DEF Release, migrationVars
  <2>2. QED BY <1>0, <1>5, <2>1, ReleaseStep, SeededStays DEF StepSound, DirectoryInv
<1>6. CASE UNCHANGED vars
  <2>1. UNCHANGED <<history, companies, users, synced, call, accepted>>
    BY <1>6 DEF vars, migrationVars, directoryVars, tableVars
  <2>2. Grows /\ StaysSynced
    BY <2>1, NothingChanges
  <2>3. StepSound
    BY <2>1, <2>2, CallsStay, OtherStep, TablesTyped
  <2>4. QED BY <1>0, <2>1, <2>3, SeededStays DEF StepSound, DirectoryInv
<1>7. QED BY <1>1, <1>2, <1>3, <1>4, <1>5, <1>6 DEF Next, Boot, Client, Callers

LEMMA DirectoryInvariant == Spec => []DirectoryInv
<1>1. Init => DirectoryInv
  <2> SUFFICES ASSUME Init PROVE DirectoryInv
    OBVIOUS
  <2>1. SchemaInv
    BY MigrationAssumption DEF Init, MigrationsInit, SchemaInv, MigrationsTypeOK, InOrder,
       BootInOrder, Down, BootPC
  <2>2. /\ DirectoryTypeOK
    BY DirectoryAssumption DEF Init, DirectoryInit, DirectoryTypeOK
  <2>3. Seeded
    BY MigrationAssumption DEF Init, DirectoryInit, MigrationsInit, Seeded
  <2>4. CallsSound /\ NamesUnique /\ AcceptedSound
    BY DEF Init, DirectoryInit, CallsSound, NamesUnique, AcceptedSound
  <2>5. QED BY <2>1, <2>2, <2>3, <2>4 DEF DirectoryInv
<1>2. QED BY <1>1, DirectoryStep, PTL DEF Spec

------------------------------------------------------------------------------
(* The theorems *)

\* Schema, tables, calls and answers always have their types.
THEOREM ProvisioningTypes == Spec => []ProvisioningTypeOK
<1>1. DirectoryInv => ProvisioningTypeOK
  BY DEF DirectoryInv, SchemaInv, ProvisioningTypeOK
<1>2. QED BY <1>1, DirectoryInvariant, PTL

\* Only a migrated and seeded database is served.
THEOREM ServedIsProvisioned == Spec => []ServesProvisioned
<1>1. DirectoryInv => ServesProvisioned
  BY DEF DirectoryInv, SchemaInv, InOrder, BootInOrder, Seeded, ServesProvisioned, Files
<1>2. QED BY <1>1, DirectoryInvariant, PTL

\* What a caller was told is accepted is kept.
THEOREM AcceptedStaysKept == Spec => []AcceptedIsKept
<1>1. DirectoryInv => AcceptedIsKept
  BY DEF DirectoryInv, AcceptedSound, AcceptedIsKept
<1>2. QED BY <1>1, DirectoryInvariant, PTL

------------------------------------------------------------------------------
(* The bootstrap is not refused *)

LEMMA OperatorNotRefused ==
  ASSUME DirectoryInv, NEW p \in Containers, Statement(p), call'[p] = Failed
  PROVE  faults' # faults
<1> DEFINE c == call[p]
<1>0. /\ p \in Callers /\ call \in [Callers -> {Idle, Failed} \union Call]
      /\ faults \in Nat
  BY TablesTyped DEF Callers, DirectoryInv, SchemaInv, MigrationsTypeOK
<1>1. ASSUME NEW v, GoesOn(p, v), v # Failed PROVE faults' # faults
  <2>1. ~(call' = [call EXCEPT ![p] = v])
    BY <1>0, <1>1
  <2>2. QED BY <1>0, <1>1, <2>1 DEF GoesOn, Fault
<1>2. CASE UpdateCompany(p)
  <2>1. Sound(p, c, companies, synced) /\ c.kind = "bootstrap"
    BY <1>0, <1>2, DoingIsSound DEF UpdateCompany, CallPC, DirectoryInv, Sound
  <2>2. Referenced(companies, c.companyRef) # {}
    BY <1>0, <1>2, <2>1, ServedMigrated DEF UpdateCompany, Doing, DirectoryInv, Sound
  <2>3. PICK id : GoesOn(p, AfterCompany(p, c, id))
    BY <1>2, <2>2 DEF UpdateCompany
  <2>4. AfterCompany(p, c, id) = [c EXCEPT !.company = id, !.pc = UserPC(c.userRef)]
    BY <2>1 DEF AfterCompany, Sound, Operator, Superadmin, NoName
  <2>5. AfterCompany(p, c, id).pc = UserPC(c.userRef)
    BY <2>1, <2>4 DEF Sound, Call
  <2>6. AfterCompany(p, c, id) # Failed
    BY <2>5 DEF UserPC, Failed
  <2>7. QED BY <1>1, <2>3, <2>6
<1>3. CASE InsertUser(p)
  <2>1. /\ Sound(p, c, companies, synced) /\ c.kind = "bootstrap" /\ c \in Call
        /\ c.pc = "insertUser"
    BY <1>0, <1>3, DoingIsSound DEF InsertUser, CallPC, DirectoryInv, Sound
  <2>2. CompanyExists(c.company) /\ Referenced(users, c.userRef) = {}
    BY <2>1 DEF Sound, CompanyExists, Referenced
  <2>3. GoesOn(p, AfterUser(c))
    BY <1>3, <2>2 DEF InsertUser
  <2>4. AfterUser(c) # Failed
    <3> DEFINE next == [c EXCEPT !.pc = "insertUser", !.company = 0, !.username = Superadmin]
    <3>1. next.pc = "insertUser"
      BY <2>1 DEF Call
    <3>2. AfterUser(c) = next \/ AfterUser(c) = Idle
      BY <2>1 DEF AfterUser
    <3>3. Idle.pc = "idle" /\ Failed.pc = "failed"
      BY DEF Idle, Failed
    <3> HIDE DEF next
    <3>4. QED BY <3>1, <3>2, <3>3
  <2>5. QED BY <1>1, <2>3, <2>4
<1>4. CASE CallFails(p)
  BY <1>0, <1>4 DEF CallFails, Fault
<1>5. ASSUME NEW pc \in CallPC \ {"updateCompany", "insertUser"}, Doing(p, pc) PROVE FALSE
  BY <1>0, <1>5, DoingIsSound DEF DirectoryInv, Sound
<1>6. QED BY <1>2, <1>3, <1>4, <1>5
          DEF Statement, InsertCompany, UpdateUser, FindCampaign, UpdateScheduled,
              InsertCampaign, PublishCampaign, CallPC

\* Containers that start side by side do not refuse each other the bootstrap.
THEOREM StartIsNeverRefused == Spec => StartNeverRefused
<1>1. DirectoryInv /\ [Next]_vars =>
        [\A p \in Containers : call[p] # Failed /\ call'[p] = Failed => faults' # faults]_vars
  <2> SUFFICES ASSUME DirectoryInv, [Next]_vars, NEW p \in Containers,
                      call[p] # Failed, call'[p] = Failed
               PROVE  faults' # faults
    OBVIOUS
  <2>0. p \in Callers /\ call \in [Callers -> {Idle, Failed} \union Call] /\ Idle # Failed
        /\ BootstrapCall # Failed
    BY TablesTyped DEF Callers, Idle, Failed, BootstrapCall
  <2>1. ASSUME NEW q \in Containers,
               Migrate(q) \/ BootstrapReturns(q) \/ ServiceEnds(q)
        PROVE  FALSE
    BY <2>0, <2>1 DEF Migrate, BootstrapReturns, ServiceEnds
  <2>2. ASSUME NEW k \in SyncClients, Request(k) PROVE FALSE
    BY <2>0, <2>2, DirectoryAssumption DEF Request
  <2>3. ASSUME NEW k \in Callers, k # p, Statement(k) PROVE FALSE
    <3>1. call'[p] = call[p]
      BY <2>0, <2>3 DEF Statement, UpdateCompany, InsertCompany, UpdateUser, InsertUser,
         FindCampaign, UpdateScheduled, InsertCampaign, PublishCampaign, CallFails, GoesOn,
         Accept, AnswerLost
    <3>2. QED BY <3>1
  <2>4. ~UNCHANGED call
    BY <2>0
  <2>5. Statement(p)
    BY <2>1, <2>2, <2>3, <2>4, DirectoryAssumption
       DEF Next, Boot, Client, Release, vars, directoryVars, Callers
  <2>6. QED BY <2>5, OperatorNotRefused
<1>2. QED BY <1>1, DirectoryInvariant, PTL DEF Spec, StartNeverRefused

------------------------------------------------------------------------------
(* The registry *)

\* Only these statements write the two tables.
LEMMA TableSteps ==
  ASSUME DirectoryInv, [Next]_vars
  PROVE  \/ UNCHANGED <<companies, users>>
         \/ \E k \in Callers : InsertCompany(k) \/ UpdateUser(k) \/ InsertUser(k)
         \/ \E p \in Containers : Migrate(p) /\ SeedCompany
  BY DEF Next, vars, Boot, Client, Migrate, BootstrapReturns, ServiceEnds, Statement, Request,
         UpdateCompany, FindCampaign, UpdateScheduled, InsertCampaign, PublishCampaign,
         CallFails, Release, directoryVars, tableVars, Callers

\* A company is added whose reference was in no row.
LEMMA CompanyRegistered ==
  ASSUME companies \in Seq(CompanyRow), UNCHANGED users, NEW r \in References,
         Referenced(companies, r) = {}, companies' = Append(companies, [ref |-> r])
  PROVE  Registry!RegistryNext
<1>1. /\ Len(companies) + 1 \in DOMAIN companies'
      /\ companies'[Len(companies) + 1].ref = r
  BY CompanyAppended
<1>2. Registry!UpsertCompany(r)
  BY DEF Registry!UpsertCompany, Registry!Referenced, Referenced
<1>3. QED BY <1>1, <1>2 DEF Registry!RegistryNext

\* A user is written over the row of its reference or of its name.
LEMMA UserRegistered ==
  ASSUME users \in Seq(UserRow), UNCHANGED companies, NEW c, NEW id \in DOMAIN users,
         NEW ref, ref = IF c.userRef = NoRef THEN users[id].ref ELSE c.userRef,
         Row(c, ref) \in UserRow, Named(c.username) \subseteq {id},
         id \in IF Referenced(users, c.userRef) # {} THEN Referenced(users, c.userRef)
                ELSE Named(c.username),
         users' = [users EXCEPT ![id] = Row(c, ref)]
  PROVE  Registry!RegistryNext
<1>1. Registry!UpsertUser(c.company, c.username, c.userRef)
  BY DEF Registry!UpsertUser, Registry!Referenced, Registry!Named, Referenced, Named, Row
<1>2. id \in DOMAIN users' /\ users'[id] = Row(c, ref)
  OBVIOUS
<1>3. /\ users'[id].company = c.company /\ users'[id].username = c.username
      /\ c.userRef \in {users'[id].ref, NoRef}
  BY <1>2 DEF Row
<1>4. QED BY <1>1, <1>2, <1>3 DEF Registry!RegistryNext

LEMMA UserAdded ==
  ASSUME users \in Seq(UserRow), UNCHANGED companies, NEW c, Row(c, c.userRef) \in UserRow,
         Referenced(users, c.userRef) = {}, Named(c.username) = {},
         users' = Append(users, Row(c, c.userRef))
  PROVE  Registry!RegistryNext
<1>1. Registry!UpsertUser(c.company, c.username, c.userRef)
  BY DEF Registry!UpsertUser, Registry!Referenced, Registry!Named, Referenced, Named, Row
<1>2. /\ Len(users) + 1 \in DOMAIN users'
      /\ users'[Len(users) + 1] = Row(c, c.userRef)
  OBVIOUS
<1>3. QED BY <1>1, <1>2 DEF Registry!RegistryNext, Row

\* A synchronisation is one atomic upsert, or changes nothing.
THEOREM RegistryImplemented == Spec => ImplementsRegistry
<1>1. Init => Registry!RegistryInit
  BY DEF Init, DirectoryInit, Registry!RegistryInit
<1>2. DirectoryInv /\ [Next]_vars => [Registry!RegistryNext]_<<companies, users>>
  <2> SUFFICES ASSUME DirectoryInv, [Next]_vars, ~UNCHANGED <<companies, users>>
               PROVE  Registry!RegistryNext
    OBVIOUS
  <2>0. companies \in Seq(CompanyRow) /\ users \in Seq(UserRow) /\ NamesUnique
    BY DEF DirectoryInv, DirectoryTypeOK
  <2>1. ASSUME NEW p \in Containers, Migrate(p), SeedCompany PROVE Registry!RegistryNext
    BY <2>0, <2>1, CompanyRegistered DEF Migrate, SeedCompany, References
  <2>2. ASSUME NEW k \in Callers, InsertCompany(k) PROVE Registry!RegistryNext
    <3>1. call[k].companyRef \in References
      BY <2>2, DoingIsSound DEF InsertCompany, DirectoryInv, CallPC, Call
    <3>2. /\ Referenced(companies, call[k].companyRef) = {} /\ UNCHANGED users
          /\ companies' = Append(companies, [ref |-> call[k].companyRef])
      BY <2>2 DEF InsertCompany
    <3>3. QED BY <2>0, <3>1, <3>2, CompanyRegistered
  <2>3. ASSUME NEW k \in Callers, UpdateUser(k) PROVE Registry!RegistryNext
    <3> DEFINE c == call[k]
    <3>1. Sound(k, c, companies, synced) /\ c.pc \in UserPCs /\ c \in Call
      BY <2>3, DoingIsSound DEF UpdateUser, DirectoryInv, CallPC, UserPCs
    <3>2. PICK id \in Referenced(users, c.userRef) :
            /\ Named(c.username) \subseteq {id}
            /\ users' = [users EXCEPT ![id] = Row(c, c.userRef)]
      BY <2>3 DEF UpdateUser, Row
    <3>3. UNCHANGED companies /\ id \in DOMAIN users /\ c.userRef # NoRef
      BY <2>3 DEF UpdateUser, Referenced
    <3>4. Row(c, c.userRef) \in UserRow
      BY <3>1, RowTyped DEF Call
    <3>5. QED BY <2>0, <3>2, <3>3, <3>4, UserRegistered
  <2>4. ASSUME NEW k \in Callers, InsertUser(k) PROVE Registry!RegistryNext
    <3> DEFINE c == call[k]
    <3>1. Sound(k, c, companies, synced) /\ c.pc \in UserPCs /\ c \in Call
      BY <2>4, DoingIsSound DEF InsertUser, DirectoryInv, CallPC, UserPCs
    <3>2. UNCHANGED companies /\ Referenced(users, c.userRef) \subseteq Named(c.username)
      BY <2>4 DEF InsertUser
    <3>3. CASE Named(c.username) = {} /\ users' = Append(users, Row(c, c.userRef))
      <4>1. Row(c, c.userRef) \in UserRow
        BY <3>1, RowTyped DEF Call
      <4>2. QED BY <2>0, <3>2, <3>3, <4>1, UserAdded
    <3>4. ASSUME NEW id \in Named(c.username), NEW ref,
                 ref = IF c.userRef = NoRef THEN users[id].ref ELSE c.userRef,
                 users' = [users EXCEPT ![id] = Row(c, ref)]
          PROVE  Registry!RegistryNext
      <4>1. id \in DOMAIN users /\ Named(c.username) \subseteq {id}
        BY <2>0 DEF Named, NamesUnique
      <4>2. users[id].ref \in References /\ c.userRef \in References
        <5>1. users[id] \in UserRow
          BY <2>0, <4>1
        <5>2. QED BY <3>1, <5>1 DEF Call, UserRow
      <4>3. Row(c, ref) \in UserRow
        BY <3>1, <3>4, <4>2, RowTyped
      <4>4. id \in IF Referenced(users, c.userRef) # {} THEN Referenced(users, c.userRef)
                   ELSE Named(c.username)
        BY <3>2, <4>1
      <4>5. QED BY <2>0, <3>2, <3>4, <4>1, <4>3, <4>4, UserRegistered
    <3>5. QED BY <2>4, <3>3, <3>4 DEF InsertUser, Row
  <2>5. QED BY <2>1, <2>2, <2>3, <2>4, TableSteps
<1>3. QED BY <1>1, <1>2, DirectoryInvariant, PTL
          DEF Spec, ImplementsRegistry, Registry!RegistrySpec
==============================================================================
