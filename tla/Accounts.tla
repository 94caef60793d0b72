-------------------------------- MODULE Accounts --------------------------------
(***************************************************************************)
(* The users' rows and the endpoints and commands that write them.  The    *)
(* endpoints under /users run outside any transaction: a request is let    *)
(* in, loads the row (get_object), and saves it in a statement of its own, *)
(* after whatever other requests did meanwhile.  All but one of them save  *)
(* the one column they are about; a profile update saves them all.         *)
(***************************************************************************)
EXTENDS Integers, FiniteSets

CONSTANTS
  Users,     \* the e-mail addresses, unique in the table
  Root,      \* the administrator the deployment starts with
  Requests,  \* requests to /users/{id} that may run at once
  Profiles,  \* names and addresses of a user
  Passwords,
  MaxAdmitted, \* bound on such requests
  None

ASSUME AccountsAssumption ==
  /\ Root \in Users
  /\ Profiles # {} /\ Passwords # {}
  /\ MaxAdmitted \in Nat

VARIABLES
  user,    \* the rows, None where there is none
  request, \* the user each request is about, and the instance it has loaded
  admitted, \* how many there have been
  asked,   \* what the endpoints were asked to make of each row, column by column
  overlaid \* users whose row changed between the load and the save of an update

accountVars == <<user, request, admitted, asked, overlaid>>

RoleName == {"admin", "manager", "employee"}
Row      == [role : RoleName, is_active : BOOLEAN, password : Passwords, profile : Profiles]
Request  == [user : Users, instance : Row]

ASSUME NoneAssumption == None \notin Row \cup Request \cup Users

Exists(u)   == user[u] # None
IsActive(u) == Exists(u) /\ user[u].is_active
IsAdmin(u)  == IsActive(u) /\ user[u].role = "admin"

AccountsInit ==
  \E p \in Passwords, f \in Profiles :
    /\ user = [u \in Users |-> IF u = Root
                 THEN [role |-> "admin", is_active |-> TRUE, password |-> p, profile |-> f]
                 ELSE None]
    /\ request = [q \in Requests |-> None]
    /\ admitted = 0 /\ asked = user /\ overlaid = {}

-----------------------------------------------------------------------------
(* UserManager.create_user, one INSERT; the e-mail is unique.              *)
CreateUser(u, role) ==
  /\ ~Exists(u)
  /\ \E p \in Passwords, f \in Profiles :
       user' = [user EXCEPT ![u] = [role |-> role, is_active |-> TRUE,
                                    password |-> p, profile |-> f]]
  /\ asked' = [asked EXCEPT ![u] = user'[u]]
  /\ UNCHANGED <<request, admitted, overlaid>>

Register(u)        == CreateUser(u, "employee")
Create(u, role)    == (\E a \in Users : IsAdmin(a)) /\ CreateUser(u, role)
CreateSuperuser(u) == CreateUser(u, "admin")

(* generate_loadtest_tokens: an address that is taken is used as it is.    *)
Provision(u, role) == role # "admin" /\ CreateUser(u, role)

-----------------------------------------------------------------------------
(* A request to /users/{id}: the token's owner is an admin now.  Which of  *)
(* the endpoints it is makes no difference before its save.                *)
GetObject(q, u) ==
  /\ request[q] = None
  /\ admitted < MaxAdmitted
  /\ \E a \in Users : IsAdmin(a)
  /\ Exists(u)
  /\ request' = [request EXCEPT ![q] = [user |-> u, instance |-> user[u]]]
  /\ admitted' = admitted + 1
  /\ UNCHANGED <<user, asked, overlaid>>

Finish(q) ==
  /\ request' = [request EXCEPT ![q] = None]
  /\ UNCHANGED admitted

(* save(update_fields=[column])                                            *)
SaveColumn(q, column, value) ==
  LET u == request[q].user IN
  /\ request[q] # None
  /\ user'  = [user EXCEPT ![u][column] = value]
  /\ asked' = [asked EXCEPT ![u][column] = value]
  /\ Finish(q)
  /\ UNCHANGED overlaid

(* serializer.save(): every column, as it was loaded.                      *)
Update(q) ==
  LET u == request[q].user IN
  /\ request[q] # None
  /\ \E f \in Profiles :
       /\ user'  = [user EXCEPT ![u] = [request[q].instance EXCEPT !.profile = f]]
       /\ asked' = [asked EXCEPT ![u].profile = f]
  /\ overlaid' = IF user[u] = request[q].instance THEN overlaid ELSE overlaid \cup {u}
  /\ Finish(q)

AssignRole(q)    == \E r \in RoleName : SaveColumn(q, "role", r)
ResetPassword(q) == \E p \in Passwords : SaveColumn(q, "password", p)
Destroy(q)       == SaveColumn(q, "is_active", FALSE)

(* An operator named ...Fault is the one after it with a slip in it, such  *)
(* as a later change might bring; nothing uses it.                         *)

(* user.save() without update_fields.                                      *)
EnableFault(q) ==
  LET u == request[q].user IN
  /\ request[q] # None
  /\ user'  = [user EXCEPT ![u] = [request[q].instance EXCEPT !.is_active = TRUE]]
  /\ asked' = [asked EXCEPT ![u].is_active = TRUE]
  /\ Finish(q)
  /\ UNCHANGED overlaid

Enable(q) == SaveColumn(q, "is_active", TRUE)

AccountsNext ==
  \/ \E u \in Users : \/ Register(u) \/ CreateSuperuser(u)
                      \/ \E role \in RoleName : Create(u, role) \/ Provision(u, role)
  \/ \E q \in Requests :
       \/ \E u \in Users : GetObject(q, u)
       \/ Update(q) \/ AssignRole(q) \/ ResetPassword(q) \/ Enable(q) \/ Destroy(q)

-----------------------------------------------------------------------------
AccountsTypeOK ==
  /\ user \in [Users -> Row \cup {None}]
  /\ request \in [Requests -> Request \cup {None}]
  /\ admitted \in 0..MaxAdmitted
  /\ asked \in [Users -> Row \cup {None}]
  /\ overlaid \subseteq Users

(* No request undoes what another one did: every row has, in each column,  *)
(* what was asked for last, however the requests interleave.  Only a       *)
(* profile update that was overtaken can break it.                         *)
NothingUndone == \A u \in Users : user[u] = asked[u] \/ u \in overlaid
=============================================================================
