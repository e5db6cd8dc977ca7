------------------------------ MODULE Registry ------------------------------
(***************************************************************************)
(* What a synchronisation of a company or of a user promises: although it  *)
(* is an UPDATE and an INSERT without a transaction around them, it is one *)
(* atomic upsert, or it is refused and changes nothing.  A row is found by *)
(* its external reference; a user's also by its user name.  A row's id is  *)
(* its place in the sequence.                                              *)
(***************************************************************************)
EXTENDS Naturals, Sequences

CONSTANT NoRef    \* no external reference

VARIABLES companies, users

RegistryInit == companies = << >> /\ users = << >>

\* The rows of table t with reference ref; a missing reference names no row.
Referenced(t, ref) == {id \in DOMAIN t : ref # NoRef /\ t[id].ref = ref}
Named(username) == {id \in DOMAIN users : users[id].username = username}

\* A company that is known stays as it is (its name is left out).
UpsertCompany(ref) ==
  /\ Referenced(companies, ref) = {}
  /\ companies' = Append(companies, [ref |-> ref])
  /\ UNCHANGED users

\* The row of the reference comes first, then the row of the name, then a new one.
UpsertUser(company, username, ref) ==
  LET known == IF Referenced(users, ref) # {} THEN Referenced(users, ref)
               ELSE Named(username)
  IN  /\ IF known = {}
         THEN users' = Append(users, [company |-> company, username |-> username, ref |-> ref])
         ELSE \E id \in known :
                /\ Named(username) \subseteq {id}
                /\ users' = [users EXCEPT ![id] =
                     [company |-> company, username |-> username,
                      ref |-> IF ref = NoRef THEN users[id].ref ELSE ref]]
      /\ UNCHANGED companies

\* What was asked for is read off the row it leaves; it may have had no reference.
RegistryNext ==
  \/ \E id \in DOMAIN companies' : UpsertCompany(companies'[id].ref)
  \/ \E id \in DOMAIN users' : \E ref \in {users'[id].ref, NoRef} :
       UpsertUser(users'[id].company, users'[id].username, ref)

RegistrySpec == RegistryInit /\ [][RegistryNext]_<<companies, users>>
=============================================================================
