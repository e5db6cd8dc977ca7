---------------------------- MODULE Provisioning ----------------------------
(***************************************************************************)
(* From an empty database to a service that takes synchronised campaigns:  *)
(* the containers migrate the schema, ensure the company and the users of  *)
(* the bootstrap (internal/app/app.go, New) and serve the integration      *)
(* endpoints, side by side, failing and starting again at any moment.      *)
(***************************************************************************)
EXTENDS Directory

vars == <<migrationVars, faults, directoryVars>>

ProvisioningTypeOK == MigrationsTypeOK /\ DirectoryTypeOK

Init == MigrationsInit /\ DirectoryInit

SchemaHistory == INSTANCE SchemaHistory

Registry == INSTANCE Registry

\* The last file makes the tables of the directory and seeds them; the service
\* starts with EnsureBootstrap when Run has returned.
Migrate(p) ==
  /\ MigrationStep(p)
  /\ IF history' # history /\ boot[p].at = LastMigration
     THEN SeedCompany
     ELSE UNCHANGED companies
  /\ call' = IF boot'[p].pc = "bootstrap" THEN [call EXCEPT ![p] = BootstrapCall] ELSE call
  /\ UNCHANGED <<users, synced, accepted>>

BootstrapReturns(p) ==
  /\ BootAt(p, "bootstrap")
  /\ \/ call[p] = Idle /\ BootTo(p, "up")
     \/ call[p] = Failed /\ BootEnds(p)
  /\ call' = [call EXCEPT ![p] = Idle]
  /\ UNCHANGED <<schemaVars, faults, tableVars, accepted>>

\* The service ends, and with it the requests it serves.
ServiceEnds(p) ==
  /\ boot[p].pc \in {"bootstrap", "up"}
  /\ BootEnds(p)
  /\ Fault
  /\ call' = [k \in Callers |->
       IF k = p \/ (k \in SyncClients /\ ServedBy[k] = p) THEN Idle ELSE call[k]]
  /\ UNCHANGED <<schemaVars, tableVars, accepted>>

Boot(p) == Migrate(p) \/ BootstrapReturns(p) \/ (Statement(p) /\ UNCHANGED migrationVars)

Client(k) == (Request(k) \/ Statement(k)) /\ UNCHANGED migrationVars

Next ==
  \/ \E p \in Containers : Boot(p) \/ ServiceEnds(p)
  \/ \E k \in SyncClients : Client(k)
  \/ \E e \in CampaignRefs : Release(e) /\ UNCHANGED migrationVars

Spec == Init /\ [][Next]_vars

------------------------------------------------------------------------------
(* Safety *)

\* However many containers migrate at once, and wherever they are interrupted, each
\* file takes effect once, in order, and is recorded exactly when it does.
ImplementsSchemaHistory == SchemaHistory!SchemaSpec

\* The UPDATE and the INSERT of a synchronisation are two statements without a
\* transaction; with others between them they still make one atomic upsert or fail.
ImplementsRegistry == Registry!RegistrySpec

\* Containers that start side by side never refuse each other the bootstrap: its
\* company was seeded by the last migration, so none has to insert it.
StartNeverRefused ==
  [][\A p \in Containers : call[p] # Failed /\ call'[p] = Failed => faults' # faults]_vars

\* A service that starts or serves has the whole schema and the bootstrap company,
\* although another container may have run the migrations.
ServesProvisioned ==
  \A p \in Containers :
    boot[p].pc \in {"bootstrap", "up"} =>
      recorded = Files /\ Len(history) = LastMigration
        /\ Referenced(companies, BootstrapRef) # {}

\* A campaign the caller was told is accepted is stored for the company the caller
\* named, and its jobs were queued or wait for their release: no answer promises
\* more than a repeated, interrupted or half failed creation left behind.
AcceptedIsKept ==
  \A a \in accepted :
    LET row == synced[a.campaign]
    IN  /\ row # NoCampaign
        /\ companies[row.company].ref = a.companyRef
        /\ row.queued \/ row.send_mode = "scheduled"

------------------------------------------------------------------------------
(* Fairness: a container goes on with its start, and is started again when *)
(* it ended (docker-compose.yml, restart: unless-stopped).                 *)

FairSpec == Spec /\ \A p \in Containers : WF_vars(Boot(p))

\* In the end every container serves, whatever failed while they started.
EventuallyServing == \A p \in Containers : <>[](boot[p].pc = "up")
=============================================================================
