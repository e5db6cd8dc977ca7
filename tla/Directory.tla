------------------------------ MODULE Directory ------------------------------
(***************************************************************************)
(* The tables auth_companies and auth_users, and who writes them: the      *)
(* start of a container (EnsureBootstrap, internal/service/auth_service.go)*)
(* and the integration endpoints                                           *)
(* (internal/httpserver/handlers/integration_handler.go), which go on to   *)
(* create or reschedule a campaign for what they synchronised.  A step is  *)
(* a statement of internal/repository/auth_repository.go or of the         *)
(* campaign repository, or the publication of the jobs.                    *)
(*                                                                         *)
(* An id is the place of a row in its table; no row is ever deleted.  Kept *)
(* of a company row: its external reference; of a user row: company_id (0  *)
(* is NULL), username and external reference; of a campaign row: company,  *)
(* send_mode, whether released_at is set, and whether its jobs were        *)
(* published.  Names, roles and password hashes are data nobody branches   *)
(* on.  The sources "bootstrap" and "servidoron" are part of a reference.  *)
(***************************************************************************)
EXTENDS Migrations

CONSTANTS
  SyncClients,    \* callers of the integration endpoints, one call at a time each
  ServedBy,       \* the container that serves each of them
  CompanyRefs,    \* external references of companies, of users, of campaigns
  UserRefs,
  CampaignRefs,
  SyncedNames,    \* user names the callers send
  Calls,          \* the calls they make
  MaxCompanies    \* bound on the rows of auth_companies

ASSUME DirectoryAssumption ==
  /\ MaxCompanies \in Nat \ {0}
  /\ ServedBy \in [SyncClients -> Containers]
  /\ SyncClients \intersect Containers = {}

VARIABLES
  companies, users,   \* the two tables
  synced,             \* table campaigns: the row of each external reference
  call,               \* of each caller: the call in progress
  accepted            \* history: what callers were told is accepted

tableVars == <<companies, users, synced>>
directoryVars == <<tableVars, call, accepted>>

Callers == SyncClients \union Containers

\* No external reference, no user name, no row.
NoRef == "no reference"
NoName == "no name"
NoCampaign == [company |-> 0]

BootstrapRef == "bootstrap/default"
Operator == "operator"
Superadmin == "superadmin"

References == CompanyRefs \union UserRefs \union {NoRef, BootstrapRef}
Usernames == SyncedNames \union {Operator, Superadmin}
CompanyIds == 0..MaxCompanies

CompanyRow == [ref: References]
UserRow == [company: CompanyIds, username: Usernames, ref: References]
CampaignRow ==
  [company: CompanyIds, send_mode: {"now", "scheduled"}, released_at: BOOLEAN, queued: BOOLEAN]

Idle == [pc |-> "idle"]
Failed == [pc |-> "failed"]

\* How the call of k ends with an error: main looks at it, a client may do anything.
Refused(k) == IF k \in Containers THEN Failed ELSE Idle

CallPC ==
  {"updateCompany", "insertCompany", "updateUser", "insertUser", "findCampaign",
   "updateScheduled", "insertCampaign", "publish"}

Call ==
  [pc: CallPC, kind: {"bootstrap", "company", "user", "campaign"},
   companyRef: References, company: CompanyIds,
   username: Usernames \union {NoName}, userRef: References,
   campaign: CampaignRefs \union {NoRef}, mode: {"now", "scheduled"}]

Accepted ==
  [campaign: CampaignRefs, companyRef: References, mode: {"now", "scheduled"}]

DirectoryTypeOK ==
  /\ companies \in Seq(CompanyRow) /\ Len(companies) <= MaxCompanies
  /\ users \in Seq(UserRow)
  /\ synced \in [CampaignRefs -> {NoCampaign} \union CampaignRow]
  /\ call \in [Callers -> {Idle, Failed} \union Call]
  /\ accepted \subseteq Accepted

DirectoryInit ==
  /\ companies = << >>
  /\ users = << >>
  /\ synced = [e \in CampaignRefs |-> NoCampaign]
  /\ call = [k \in Callers |-> Idle]
  /\ accepted = {}

------------------------------------------------------------------------------
Serving(k) == IF k \in Containers THEN BootAt(k, "bootstrap") ELSE BootAt(ServedBy[k], "up")

Doing(k, pc) == Serving(k) /\ call[k].pc = pc

\* The call of k goes on as next, or ends because the answer was lost.
GoesOn(k, next) ==
  \/ call' = [call EXCEPT ![k] = next] /\ UNCHANGED faults
  \/ call' = [call EXCEPT ![k] = Refused(k)] /\ Fault

Referenced(t, ref) == {id \in DOMAIN t : ref # NoRef /\ t[id].ref = ref}
Named(username) == {id \in DOMAIN users : users[id].username = username}

\* Without a reference the UPDATE is skipped.
CompanyPC(ref) == IF ref = NoRef THEN "insertCompany" ELSE "updateCompany"
UserPC(ref) == IF ref = NoRef THEN "insertUser" ELSE "updateUser"

------------------------------------------------------------------------------
(* UpsertCompany *)

\* What the handler does with company id: a call for a user without a name is
\* refused by the service before any statement.
AfterCompany(k, c, id) ==
  IF c.kind = "company" THEN Idle
  ELSE IF c.username # NoName
  THEN [c EXCEPT !.company = id, !.pc = UserPC(c.userRef)]
  ELSE IF c.userRef # NoRef THEN Refused(k)
  ELSE [c EXCEPT !.company = id, !.pc = "findCampaign"]

\* Mutant: every row is found missing.
UpdateCompanyBlind(k) ==
  /\ Doing(k, "updateCompany")
  /\ GoesOn(k, [call[k] EXCEPT !.pc = "insertCompany"])
  /\ UNCHANGED <<tableVars, accepted>>

UpdateCompany(k) ==
  /\ Doing(k, "updateCompany")
  /\ LET c == call[k]
         found == Referenced(companies, c.companyRef)
     IN  \/ found = {} /\ GoesOn(k, [c EXCEPT !.pc = "insertCompany"])
         \/ \E id \in found : GoesOn(k, AfterCompany(k, c, id))
  /\ UNCHANGED <<tableVars, accepted>>

\* A unique index refuses a second row with the reference.
InsertCompany(k) ==
  /\ Doing(k, "insertCompany")
  /\ LET c == call[k]
     IN  IF Referenced(companies, c.companyRef) # {}
         THEN GoesOn(k, Refused(k)) /\ UNCHANGED companies
         ELSE /\ Len(companies) < MaxCompanies
              /\ companies' = Append(companies, [ref |-> c.companyRef])
              /\ GoesOn(k, AfterCompany(k, c, Len(companies) + 1))
  /\ UNCHANGED <<users, synced, accepted>>

\* The last migration inserts the company of the bootstrap unless it is there.
SeedCompany ==
  IF Referenced(companies, BootstrapRef) # {} THEN UNCHANGED companies
  ELSE companies' = Append(companies, [ref |-> BootstrapRef])

------------------------------------------------------------------------------
(* UpsertUser *)

\* EnsureBootstrap goes on from the operator to the superadmin, who has no company.
AfterUser(c) ==
  IF c.kind = "campaign" THEN [c EXCEPT !.pc = "findCampaign"]
  ELSE IF c.kind = "bootstrap" /\ c.company # 0
  THEN [c EXCEPT !.pc = "insertUser", !.company = 0, !.username = Superadmin]
  ELSE Idle

\* The foreign key on company_id.
CompanyExists(id) == id = 0 \/ id \in DOMAIN companies

UpdateUser(k) ==
  /\ Doing(k, "updateUser")
  /\ LET c == call[k]
         found == Referenced(users, c.userRef)
     IN  \/ found = {} /\ GoesOn(k, [c EXCEPT !.pc = "insertUser"]) /\ UNCHANGED users
         \/ \E id \in found :
              IF CompanyExists(c.company) /\ Named(c.username) \subseteq {id}
              THEN /\ users' = [users EXCEPT ![id] =
                        [company |-> c.company, username |-> c.username, ref |-> c.userRef]]
                   /\ GoesOn(k, AfterUser(c))
              ELSE GoesOn(k, Refused(k)) /\ UNCHANGED users
  /\ UNCHANGED <<companies, synced, accepted>>

\* Mutant: no unique index on the external reference.
InsertUserUnindexed(k) ==
  /\ Doing(k, "insertUser")
  /\ LET c == call[k]
     IN  /\ GoesOn(k, AfterUser(c))
         /\ IF Named(c.username) = {}
            THEN users' = Append(users,
                   [company |-> c.company, username |-> c.username, ref |-> c.userRef])
            ELSE \E id \in Named(c.username) :
                   users' = [users EXCEPT ![id].company = c.company, ![id].ref = c.userRef]
  /\ UNCHANGED <<companies, synced, accepted>>

\* INSERT ... ON CONFLICT (username) DO UPDATE: the row of the name takes over the
\* reference of the call, if it has one, unless the index finds it in another row.
InsertUser(k) ==
  /\ Doing(k, "insertUser")
  /\ LET c == call[k]
         conflict == Named(c.username)
     IN  IF ~CompanyExists(c.company) \/ ~(Referenced(users, c.userRef) \subseteq conflict)
         THEN GoesOn(k, Refused(k)) /\ UNCHANGED users
         ELSE /\ GoesOn(k, AfterUser(c))
              /\ \/ /\ conflict = {}
                    /\ users' = Append(users,
                         [company |-> c.company, username |-> c.username, ref |-> c.userRef])
                 \/ \E id \in conflict :
                      users' = [users EXCEPT ![id] =
                        [company |-> c.company, username |-> c.username,
                         ref |-> IF c.userRef = NoRef THEN users[id].ref ELSE c.userRef]]
  /\ UNCHANGED <<companies, synced, accepted>>

------------------------------------------------------------------------------
(* CampaignService.Create, for a campaign with an external reference *)

\* The caller is answered with 202.
Accept(k) ==
  /\ call' = [call EXCEPT ![k] = Idle]
  /\ accepted' = accepted \union
       {[campaign |-> call[k].campaign, companyRef |-> call[k].companyRef,
         mode |-> call[k].mode]}
  /\ UNCHANGED faults

\* The statement or command took effect, and its answer was lost.
AnswerLost(k) ==
  /\ call' = [call EXCEPT ![k] = Refused(k)]
  /\ Fault
  /\ UNCHANGED accepted

UpdateSynced(e, row) == synced' = [synced EXCEPT ![e] = row]

\* Mutant: an immediate campaign that is there is taken for a finished request.
FindCampaignAccepts(k) ==
  /\ Doing(k, "findCampaign")
  /\ IF synced[call[k].campaign] # NoCampaign /\ call[k].mode = "now"
     THEN Accept(k)
     ELSE /\ GoesOn(k, [call[k] EXCEPT !.pc =
               IF synced[call[k].campaign] = NoCampaign THEN "insertCampaign"
               ELSE "updateScheduled"])
          /\ UNCHANGED accepted
  /\ UNCHANGED tableVars

\* FindByExternalRef.  Only a scheduled campaign that exists already is updated; an
\* immediate one goes on to the INSERT.
FindCampaign(k) ==
  /\ Doing(k, "findCampaign")
  /\ LET c == call[k]
         row == synced[c.campaign]
     IN  GoesOn(k, IF row = NoCampaign THEN [c EXCEPT !.pc = "insertCampaign"]
                   ELSE IF row.company # c.company THEN Refused(k)
                   ELSE IF c.mode = "scheduled" THEN [c EXCEPT !.pc = "updateScheduled"]
                   ELSE [c EXCEPT !.pc = "insertCampaign"])
  /\ UNCHANGED <<tableVars, accepted>>

\* UpdateScheduledCampaign finds no row once the campaign was released.
UpdateScheduled(k) ==
  /\ Doing(k, "updateScheduled")
  /\ LET e == call[k].campaign
     IN  IF synced[e].released_at
         THEN GoesOn(k, Refused(k)) /\ UNCHANGED <<synced, accepted>>
         ELSE /\ UpdateSynced(e, [synced[e] EXCEPT !.send_mode = "scheduled"])
              /\ Accept(k) \/ AnswerLost(k)
  /\ UNCHANGED <<companies, users>>

InsertCampaign(k) ==
  /\ Doing(k, "insertCampaign")
  /\ LET c == call[k]
     IN  IF synced[c.campaign] # NoCampaign
         THEN GoesOn(k, Refused(k)) /\ UNCHANGED <<synced, accepted>>
         ELSE /\ UpdateSynced(c.campaign,
                   [company |-> c.company, send_mode |-> c.mode,
                    released_at |-> FALSE, queued |-> FALSE])
              /\ IF c.mode = "now"
                 THEN GoesOn(k, [c EXCEPT !.pc = "publish"]) /\ UNCHANGED accepted
                 ELSE Accept(k) \/ AnswerLost(k)
  /\ UNCHANGED <<companies, users>>

PublishCampaign(k) ==
  /\ Doing(k, "publish")
  /\ LET e == call[k].campaign
     IN  UpdateSynced(e, [synced[e] EXCEPT !.queued = TRUE])
  /\ Accept(k) \/ AnswerLost(k)
  /\ UNCHANGED <<companies, users>>

------------------------------------------------------------------------------
(* The calls *)

\* EnsureBootstrap
BootstrapCall ==
  [pc |-> "updateCompany", kind |-> "bootstrap", companyRef |-> BootstrapRef,
   company |-> 0, username |-> Operator, userRef |-> NoRef,
   campaign |-> NoRef, mode |-> "now"]

\* UpsertCompany of the integration handler
CompanyCall(ref) ==
  [pc |-> CompanyPC(ref), kind |-> "company", companyRef |-> ref, company |-> 0,
   username |-> NoName, userRef |-> NoRef, campaign |-> NoRef, mode |-> "now"]

\* UpsertUser; the company is whatever number the caller gives.
UserCall(id, username, ref) ==
  [pc |-> UserPC(ref), kind |-> "user", companyRef |-> NoRef, company |-> id,
   username |-> username, userRef |-> ref, campaign |-> NoRef, mode |-> "now"]

\* CreateOrUpdateCampaign
CampaignCall(ref, username, userRef, e, mode) ==
  [pc |-> CompanyPC(ref), kind |-> "campaign", companyRef |-> ref, company |-> 0,
   username |-> username, userRef |-> userRef, campaign |-> e, mode |-> mode]

ASSUME CallsAssumption == Calls \subseteq
  {CompanyCall(ref) : ref \in CompanyRefs \union {NoRef}}
  \union {UserCall(id, username, ref) :
            id \in CompanyIds, username \in SyncedNames, ref \in UserRefs \union {NoRef}}
  \union {CampaignCall(ref, username, userRef, e, mode) :
            ref \in CompanyRefs \union {NoRef}, username \in SyncedNames \union {NoName},
            userRef \in UserRefs \union {NoRef}, e \in CampaignRefs,
            mode \in {"now", "scheduled"}}

\* A statement or command fails without effect.
CallFails(k) ==
  /\ Serving(k)
  /\ call[k].pc \in CallPC
  /\ call' = [call EXCEPT ![k] = Refused(k)]
  /\ Fault
  /\ UNCHANGED <<tableVars, accepted>>

Statement(k) ==
  \/ UpdateCompany(k) \/ InsertCompany(k) \/ UpdateUser(k) \/ InsertUser(k)
  \/ FindCampaign(k) \/ UpdateScheduled(k) \/ InsertCampaign(k) \/ PublishCampaign(k)
  \/ CallFails(k)

Request(k) ==
  /\ Serving(k)
  /\ call[k] = Idle
  /\ \E c \in Calls : call' = [call EXCEPT ![k] = c]
  /\ UNCHANGED <<tableVars, accepted, faults>>

\* ReleaseDueScheduled, without its failures (CampaignService has them).
Release(e) ==
  /\ synced[e] # NoCampaign
  /\ synced[e].send_mode = "scheduled" /\ ~synced[e].released_at
  /\ UpdateSynced(e, [synced[e] EXCEPT !.released_at = TRUE, !.queued = TRUE])
  /\ UNCHANGED <<companies, users, call, accepted, faults>>
=============================================================================
