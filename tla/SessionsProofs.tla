---------------------------- MODULE SessionsProofs ----------------------------
(***************************************************************************)
(* Types of Accounts and Sessions; no account change undone by another;    *)
(* and the tokens: whatever is out of order, something has excused it.     *)
(***************************************************************************)
EXTENDS Sessions, TLAPS

-----------------------------------------------------------------------------
(* The accounts.                                                           *)

(* A row that was asked for is there, and so is every row that is loaded.  *)
Loaded ==
  /\ \A u \in Users : user[u] = None <=> asked[u] = None
  /\ \A q \in Requests : request[q] # None => user[request[q].user] # None

LEMMA RowTypes ==
  ASSUME NEW r \in Row
  PROVE  /\ \A v \in RoleName : [r EXCEPT !["role"] = v] \in Row
         /\ \A v \in BOOLEAN : [r EXCEPT !["is_active"] = v] \in Row
         /\ \A v \in Passwords : [r EXCEPT !["password"] = v] \in Row
         /\ \A v \in Profiles : [r EXCEPT !.profile = v] \in Row
  BY ZenonT(60) DEF Row

LEMMA CreateStep ==
  ASSUME AccountsTypeOK, Loaded, NothingUndone,
         NEW u \in Users, NEW role \in RoleName, CreateUser(u, role)
  PROVE  AccountsTypeOK' /\ Loaded' /\ NothingUndone'
<1>1. PICK p \in Passwords, f \in Profiles :
        user' = [user EXCEPT ![u] = [role |-> role, is_active |-> TRUE,
                                     password |-> p, profile |-> f]]
  BY Zenon DEF CreateUser
<1> DEFINE r == [role |-> role, is_active |-> TRUE, password |-> p, profile |-> f]
<1>2. r \in Row
  BY SMT DEF Row
<1>3. r # None
  BY <1>2, NoneAssumption
<1> HIDE DEF r
<1>4. user' = [user EXCEPT ![u] = r]
  BY <1>1, Zenon DEF r
<1>5. asked' = [asked EXCEPT ![u] = r] /\ UNCHANGED <<request, admitted, overlaid>>
  BY <1>4 DEF CreateUser, AccountsTypeOK
<1> QED
  BY <1>2, <1>3, <1>4, <1>5 DEF AccountsTypeOK, Loaded, NothingUndone

(* The save of one column, of the row as it is at that moment.             *)
LEMMA SaveStep ==
  ASSUME AccountsTypeOK, Loaded, NothingUndone, NEW q \in Requests, NEW column, NEW value,
         SaveColumn(q, column, value),
         \A r \in Row : [r EXCEPT ![column] = value] \in Row
  PROVE  AccountsTypeOK' /\ Loaded' /\ NothingUndone'
<1> DEFINE u == request[q].user
<1>1. u \in Users /\ user[u] \in Row /\ asked[u] \in Row
  <2>1. request[q] \in Request
    BY DEF SaveColumn, AccountsTypeOK
  <2>2. u \in Users
    BY <2>1, SMT DEF Request
  <2> QED
    BY <2>2 DEF SaveColumn, AccountsTypeOK, Loaded
<1>2. /\ [user[u] EXCEPT ![column] = value] \in Row
      /\ [asked[u] EXCEPT ![column] = value] \in Row
  BY <1>1
<1>3. /\ user'  = [user EXCEPT ![u] = [user[u] EXCEPT ![column] = value]]
      /\ asked' = [asked EXCEPT ![u] = [asked[u] EXCEPT ![column] = value]]
      /\ request' = [request EXCEPT ![q] = None]
      /\ UNCHANGED <<admitted, overlaid>>
  BY DEF SaveColumn, Finish
<1> HIDE DEF u
<1>4. None \notin Row
  BY NoneAssumption
<1>5. AccountsTypeOK' /\ Loaded'
  BY <1>1, <1>2, <1>3, <1>4 DEF AccountsTypeOK, Loaded
<1>6. NothingUndone'
  BY <1>1, <1>3 DEF AccountsTypeOK, NothingUndone
<1> QED
  BY <1>5, <1>6

LEMMA UpdateStep ==
  ASSUME AccountsTypeOK, Loaded, NothingUndone, NEW q \in Requests, Update(q)
  PROVE  AccountsTypeOK' /\ Loaded' /\ NothingUndone'
<1> DEFINE u == request[q].user
           i == request[q].instance
<1>1. u \in Users /\ i \in Row /\ user[u] \in Row /\ asked[u] \in Row
  <2>1. request[q] \in Request
    BY DEF Update, AccountsTypeOK
  <2>2. u \in Users /\ i \in Row
    BY <2>1, SMT DEF Request
  <2> QED
    BY <2>2 DEF Update, AccountsTypeOK, Loaded
<1>2. PICK f \in Profiles :
        /\ user'  = [user EXCEPT ![u] = [i EXCEPT !.profile = f]]
        /\ asked' = [asked EXCEPT ![u] = [asked[u] EXCEPT !.profile = f]]
  BY DEF Update
<1>3. [i EXCEPT !.profile = f] \in Row /\ [asked[u] EXCEPT !.profile = f] \in Row
  BY <1>1, RowTypes
<1>4. /\ overlaid' = IF user[u] = i THEN overlaid ELSE overlaid \cup {u}
      /\ request' = [request EXCEPT ![q] = None] /\ UNCHANGED admitted
  BY DEF Update, Finish
<1> HIDE DEF u, i
<1>5. None \notin Row
  BY NoneAssumption
<1>6. AccountsTypeOK' /\ Loaded'
  BY <1>1, <1>2, <1>3, <1>4, <1>5 DEF AccountsTypeOK, Loaded
<1>7. NothingUndone'
  BY <1>1, <1>2, <1>4 DEF AccountsTypeOK, NothingUndone
<1> QED
  BY <1>6, <1>7

LEMMA AccountsStep ==
  AccountsTypeOK /\ Loaded /\ NothingUndone /\ AccountsNext
    => AccountsTypeOK' /\ Loaded' /\ NothingUndone'
<1> SUFFICES ASSUME AccountsTypeOK, Loaded, NothingUndone, AccountsNext
             PROVE  AccountsTypeOK' /\ Loaded' /\ NothingUndone'
  OBVIOUS
<1>1. ASSUME NEW u \in Users,
             \/ Register(u) \/ CreateSuperuser(u)
             \/ \E role \in RoleName : Create(u, role) \/ Provision(u, role)
      PROVE  AccountsTypeOK' /\ Loaded' /\ NothingUndone'
  <2>1. PICK role \in RoleName : CreateUser(u, role)
    BY <1>1 DEF Register, CreateSuperuser, Create, Provision, RoleName
  <2> QED
    BY <2>1, CreateStep
<1>2. ASSUME NEW q \in Requests, NEW u \in Users, GetObject(q, u)
      PROVE  AccountsTypeOK' /\ Loaded' /\ NothingUndone'
  <2> DEFINE r == [user |-> u, instance |-> user[u]]
  <2>1. user[u] \in Row
    BY <1>2 DEF GetObject, Exists, AccountsTypeOK
  <2>2. r \in Request /\ r.user = u
    BY <2>1, SMT DEF Request
  <2>3. request' = [request EXCEPT ![q] = r]
    BY <1>2 DEF GetObject
  <2> HIDE DEF r
  <2>4. admitted' \in 0..MaxAdmitted
    BY <1>2, AccountsAssumption, SMT DEF GetObject, AccountsTypeOK
  <2> QED
    BY <1>2, <2>1, <2>2, <2>3, <2>4, NoneAssumption
    DEF GetObject, AccountsTypeOK, Loaded, NothingUndone
<1>3. ASSUME NEW q \in Requests,
             Update(q) \/ AssignRole(q) \/ ResetPassword(q) \/ Enable(q) \/ Destroy(q)
      PROVE  AccountsTypeOK' /\ Loaded' /\ NothingUndone'
  <2>1. ASSUME NEW v \in RoleName, SaveColumn(q, "role", v)
        PROVE  AccountsTypeOK' /\ Loaded' /\ NothingUndone'
    BY <2>1, RowTypes, SaveStep
  <2>2. ASSUME NEW v \in Passwords, SaveColumn(q, "password", v)
        PROVE  AccountsTypeOK' /\ Loaded' /\ NothingUndone'
    BY <2>2, RowTypes, SaveStep
  <2>3. ASSUME NEW v \in BOOLEAN, SaveColumn(q, "is_active", v)
        PROVE  AccountsTypeOK' /\ Loaded' /\ NothingUndone'
    BY <2>3, RowTypes, SaveStep
  <2> QED
    BY <1>3, <2>1, <2>2, <2>3, UpdateStep DEF AssignRole, ResetPassword, Enable, Destroy
<1> QED
  BY <1>1, <1>2, <1>3 DEF AccountsNext

-----------------------------------------------------------------------------
(* The tokens.                                                             *)

(* TypeOK, and: what the page and its calls hold the server has made.      *)
SessionTypeOK ==
  /\ made \in 0..MaxTokens /\ expired \in 0..made
  /\ owner \in [Tokens -> Users \cup {None}]
  /\ blacklist \subseteq 1..made /\ leaving \subseteq 1..made
  /\ page \in Page /\ page.access \in 0..made /\ page.refresh \in 0..made
  /\ call \in [Calls -> Call]
  /\ \A c \in Calls : /\ call[c].token \in 0..made
                      /\ Refreshing(c) => call[c].token # 0
  /\ excuse \in [Tokens -> SUBSET Excuse]

(* What may have befallen token k, and where the calls are with theirs.    *)
Refusable(k) == excuse[k] \cap Refusals # {}
Lost(k)      == excuse[k] \cap Losses # {}
Asks(c)      == call[c].at \in {"refresh", "checked"}
Renewed(c)   == call[c].at = "renewed"

(* The token a call asks to refresh is good, its own and not being logged  *)
(* out, or something may have it refused; and a refused one had that.      *)
AsksOrder ==
  /\ \A c \in Calls : call[c].at = "refused" => Refusable(call[c].token)
  /\ \A c \in Calls : Asks(c) =>
       \/ Refusable(call[c].token)
       \/ /\ call[c].token \notin blacklist \cup leaving
          /\ \A d \in Calls : Asks(d) /\ d # c => call[d].token # call[c].token

(* A fresh token is good and nobody else has it.                           *)
RenewedOrder ==
  \A c \in Calls : Renewed(c) =>
    /\ call[c].token \notin blacklist \cup leaving \cup {page.refresh}
    /\ \A d \in Calls : d # c /\ (Asks(d) \/ Renewed(d)) => call[d].token # call[c].token

(* The page's token is not being logged out, and is good unless a refresh  *)
(* has it rotated; one that a call will set another over, or that a login  *)
(* will, is done with or may be lost.                                      *)
PageOrder ==
  page.refresh # 0 =>
    /\ page.refresh \notin leaving
    /\ page.refresh \in blacklist => \E c \in Calls : Refreshing(c)
    /\ page.user = None => Lost(page.refresh)
    /\ \A c \in Calls : Asks(c) => call[c].token = page.refresh \/ Lost(page.refresh)
    /\ \A c \in Calls : Renewed(c) => page.refresh \in blacklist \/ Lost(page.refresh)

Held ==
  \A k \in (1..made) \ blacklist :
    \/ k = page.refresh \/ k \in leaving \/ Lost(k)
    \/ \E c \in Calls : Renewed(c) /\ call[c].token = k

TokenInv == AsksOrder /\ RenewedOrder /\ PageOrder /\ Held

LEMMA Becoming ==
  ASSUME call \in [Calls -> Call], NEW c \in Calls, NEW token \in 0..MaxTokens,
         NEW at \in {"idle", "sent", "denied", "refresh", "checked", "renewed", "refused"},
         Become(c, at, token)
  PROVE  /\ call' \in [Calls -> Call]
         /\ call'[c].at = at /\ call'[c].token = token
         /\ \A d \in Calls : d # c => call'[d] = call[d]
  BY SMT DEF Become, Call

Grows == /\ excuse' \in [Tokens -> SUBSET Excuse]
         /\ \A k \in Tokens : excuse[k] \subseteq excuse'[k]

LEMMA Befalls ==
  ASSUME excuse \in [Tokens -> SUBSET Excuse], NEW why \in Excuse, NEW ks, Excusing(why, ks)
  PROVE  Grows /\ \A k \in Tokens : k \in ks => why \in excuse'[k]
  BY SMT DEF Excusing, Grows

(* What the page holds, field by field.                                    *)
LEMMA TokensSet ==
  ASSUME NEW p \in Page, NEW k \in 0..MaxTokens
  PROVE  LET q == [p EXCEPT !.access = k, !.refresh = k] IN
           q \in Page /\ q.access = k /\ q.refresh = k /\ q.user = p.user
  BY ZenonT(60) DEF Page

LEMMA LoggedIn ==
  ASSUME NEW k \in 0..MaxTokens, NEW u \in Users
  PROVE  LET q == [access |-> k, refresh |-> k, user |-> u] IN
           q \in Page /\ q.access = k /\ q.refresh = k /\ q.user = u
  BY SMT DEF Page

LEMMA LoggedOutFields ==
  /\ LoggedOut \in Page
  /\ LoggedOut.access = 0 /\ LoggedOut.refresh = 0 /\ LoggedOut.user = None
  BY MaxTokensAssumption, SMT DEF Page, LoggedOut

LEMMA MadeStep ==
  ASSUME SessionTypeOK, NEW u \in Users \cup {None}, Make(u)
  PROVE  /\ made' = made + 1 /\ made + 1 \in 0..MaxTokens
         /\ 1..made' = (1..made) \cup {made + 1}
         /\ owner' \in [Tokens -> Users \cup {None}]
  BY MaxTokensAssumption, SMT DEF SessionTypeOK, Make, Tokens

LEMMA TokenRange ==
  ASSUME SessionTypeOK
  PROVE  /\ 0 \in 0..made /\ 0 \in 0..MaxTokens
         /\ \A k \in 0..made : k \in 0..MaxTokens /\ k \in 0..made + 1
         /\ \A k \in 1..made : k \in 1..made + 1 /\ k \in Tokens
         /\ \A c \in Calls : Refreshing(c) => call[c].token \in 1..made
  BY MaxTokensAssumption, SMT DEF SessionTypeOK, Tokens

LEMMA NoZero == \A j \in 1..made : j # 0
  BY SMT

LEMMA Cleared ==
  ASSUME SessionTypeOK, ClearTokens
  PROVE  /\ page' \in Page /\ page'.user = None
         /\ page'.access = 0 /\ page'.refresh = 0
         /\ leaving' \subseteq 1..made
         /\ leaving' = IF page.refresh = 0 THEN leaving ELSE leaving \cup {page.refresh}
<1>1. page' = LoggedOut
  BY DEF ClearTokens
<1>2. leaving' = IF page.refresh = 0 THEN leaving ELSE leaving \cup {page.refresh}
  BY DEF ClearTokens
<1>3. page.refresh # 0 => page.refresh \in 1..made
  BY MaxTokensAssumption, SMT DEF SessionTypeOK
<1> QED
  BY <1>1, <1>2, <1>3, LoggedOutFields DEF SessionTypeOK

(* Steps of a call that leave the page alone and make no token.            *)
Calling(c) == \/ Api(c) \/ Accept(c) \/ Fail(c) \/ Deny(c) \/ TryRefresh(c)
              \/ Throw(c) \/ CheckRefresh(c) \/ NotServed(c) \/ LoseAnswer(c)

LEMMA CallingStep ==
  ASSUME SessionTypeOK, NEW c \in Calls, Calling(c)
  PROVE  /\ call' \in [Calls -> Call]
         /\ call'[c].token \in 0..made
         /\ Refreshing(c)' => call'[c].token # 0
         /\ \A d \in Calls : d # c => call'[d] = call[d]
         /\ Grows
         /\ UNCHANGED <<accountVars, serverVars, page, leaving>>
<1> DEFINE Stays == UNCHANGED <<accountVars, serverVars, page, leaving>>
           Moves == /\ call' \in [Calls -> Call] /\ call'[c].token \in 0..made
                    /\ Refreshing(c)' => call'[c].token # 0
                    /\ \A d \in Calls : d # c => call'[d] = call[d]
<1>t. /\ excuse \in [Tokens -> SUBSET Excuse] /\ call[c].token \in 0..made
      /\ page.access \in 0..made /\ page.refresh \in 0..made
  BY DEF SessionTypeOK
<1>g. ASSUME NEW at \in {"idle", "sent", "denied", "refresh", "checked", "refused"},
             NEW token \in 0..made, at \in {"refresh", "checked", "refused"} => token # 0,
             Become(c, at, token)
      PROVE  Moves
  <2>1. call \in [Calls -> Call] /\ token \in 0..MaxTokens
    BY TokenRange DEF SessionTypeOK
  <2>2. /\ call' \in [Calls -> Call] /\ call'[c].at = at /\ call'[c].token = token
        /\ \A d \in Calls : d # c => call'[d] = call[d]
    BY <1>g, <2>1, Becoming
  <2> QED
    BY <1>g, <2>2 DEF Refreshing
<1>w. /\ 0 \in 0..made
      /\ Refreshing(c) => call[c].token # 0
  BY TokenRange DEF SessionTypeOK
<1> HIDE DEF Moves, Stays
<1>1. CASE Api(c) \/ Accept(c) \/ Fail(c) \/ Deny(c) \/ Throw(c)
  <2>1. \E at \in {"idle", "sent", "denied"}, token \in {0, page.access} : Become(c, at, token)
    BY <1>1 DEF Api, Accept, Fail, Deny, Throw
  <2>2. Stays /\ excuse' = excuse
    BY <1>1 DEF Api, Accept, Fail, Deny, Throw, Stays
  <2> QED
    BY <1>g, <1>t, <1>w, <2>1, <2>2 DEF Moves, Stays, Grows
<1>2. CASE TryRefresh(c)
  <2>1. Become(c, "refresh", page.refresh) /\ page.refresh # 0 /\ Stays
    BY <1>2 DEF TryRefresh, Stays
  <2>2. \E ks : Excusing("raced", ks)
    BY <1>2 DEF TryRefresh
  <2>3. Moves /\ Grows
    BY <1>g, <1>t, <2>1, <2>2, Befalls DEF Excuse, Refusals
  <2> QED
    BY <2>1, <2>3 DEF Moves, Stays
<1>3. CASE CheckRefresh(c) \/ NotServed(c) \/ LoseAnswer(c)
  <2>1. \E at \in {"checked", "refused"} : Become(c, at, call[c].token)
    BY <1>3 DEF CheckRefresh, NotServed, LoseAnswer
  <2>2. Stays /\ \E why \in Excuse : \E ks : Excusing(why, ks)
    BY <1>3 DEF CheckRefresh, NotServed, LoseAnswer, Stays, Excuse, Refusals
  <2>3. call[c].token # 0
    BY <1>3, <1>w DEF CheckRefresh, NotServed, LoseAnswer, Refreshing
  <2>4. Moves /\ Grows
    BY <1>g, <1>t, <2>1, <2>2, <2>3, Befalls
  <2> QED
    BY <2>2, <2>4 DEF Moves, Stays
<1> QED
  BY <1>1, <1>2, <1>3 DEF Calling

LEMMA LoginStep ==
  ASSUME SessionTypeOK, NEW u \in Users, Login(u)
  PROVE  /\ SessionTypeOK' /\ UNCHANGED accountVars /\ Grows
         /\ made' = made + 1 /\ 1..made' = (1..made) \cup {made + 1} /\ made + 1 \in Tokens
         /\ page'.refresh = made + 1 /\ page'.user = u
         /\ UNCHANGED <<blacklist, call, leaving>>
<1>1. Make(u) /\ page' = [access |-> made + 1, refresh |-> made + 1, user |-> u]
      /\ UNCHANGED <<accountVars, blacklist, expired, call, leaving>>
      /\ \E ks : Excusing("crossed", ks)
  BY DEF Login
<1>2. /\ made' = made + 1 /\ made + 1 \in 0..MaxTokens
      /\ 1..made' = (1..made) \cup {made + 1}
      /\ owner' \in [Tokens -> Users \cup {None}]
  BY <1>1, MadeStep
<1>3. /\ page' \in Page /\ page'.access = made + 1 /\ page'.refresh = made + 1
      /\ page'.user = u
  BY <1>1, <1>2, LoggedIn
<1>4. made + 1 \in 0..made + 1 /\ made + 1 \in Tokens
  BY <1>2, MaxTokensAssumption, SMT DEF SessionTypeOK, Tokens
<1>5. Grows
  BY <1>1, Befalls DEF SessionTypeOK, Excuse, Losses
<1>6. SessionTypeOK'
  BY <1>1, <1>2, <1>3, <1>4, <1>5, TokenRange DEF SessionTypeOK, Refreshing, Grows
<1> QED
  BY <1>1, <1>2, <1>3, <1>4, <1>5, <1>6

LEMMA RotateStep ==
  ASSUME SessionTypeOK, NEW c \in Calls, Rotate(c)
  PROVE  /\ SessionTypeOK' /\ UNCHANGED accountVars
         /\ made' = made + 1 /\ 1..made' = (1..made) \cup {made + 1}
         /\ call'[c].at = "renewed" /\ call'[c].token = made + 1
         /\ \A d \in Calls : d # c => call'[d] = call[d]
         /\ blacklist' = blacklist \cup {call[c].token}
         /\ UNCHANGED <<page, leaving, excuse>>
<1> DEFINE k == call[c].token
<1>1. k \in 1..made /\ k \in Tokens
  BY TokenRange DEF Rotate, Refreshing
<1>2. /\ Make(owner[k]) /\ Become(c, "renewed", made + 1) /\ blacklist' = blacklist \cup {k}
      /\ UNCHANGED <<accountVars, expired, page, leaving, excuse>>
  BY DEF Rotate
<1> HIDE DEF k
<1>3. owner[k] \in Users \cup {None}
  BY <1>1 DEF SessionTypeOK
<1>4. /\ made' = made + 1 /\ made + 1 \in 0..MaxTokens
      /\ 1..made' = (1..made) \cup {made + 1}
      /\ owner' \in [Tokens -> Users \cup {None}]
  BY <1>2, <1>3, MadeStep
<1>5. /\ call' \in [Calls -> Call] /\ call'[c].at = "renewed" /\ call'[c].token = made + 1
      /\ \A d \in Calls : d # c => call'[d] = call[d]
  BY <1>2, <1>4, Becoming DEF SessionTypeOK
<1>6. made + 1 \in 0..made + 1 /\ made + 1 # 0
  BY MaxTokensAssumption, SMT DEF SessionTypeOK
<1>7. SessionTypeOK'
  BY <1>1, <1>2, <1>4, <1>5, <1>6, TokenRange DEF SessionTypeOK, Refreshing
<1> QED
  BY <1>2, <1>4, <1>5, <1>7 DEF k

LEMMA SetTokensStep ==
  ASSUME SessionTypeOK, NEW c \in Calls, SetTokens(c)
  PROVE  /\ SessionTypeOK' /\ UNCHANGED <<accountVars, serverVars, leaving>> /\ Grows
         /\ page'.refresh = call[c].token /\ page'.user = page.user
         /\ call'[c].at = "sent"
         /\ \A d \in Calls : d # c => call'[d] = call[d]
<1> DEFINE k == call[c].token
<1>1. k \in 0..made /\ k \in 0..MaxTokens /\ page \in Page /\ call \in [Calls -> Call]
  BY TokenRange DEF SessionTypeOK
<1>2. /\ page' = [page EXCEPT !.access = k, !.refresh = k] /\ Become(c, "sent", k)
      /\ UNCHANGED <<accountVars, serverVars, leaving>> /\ \E ks : Excusing("crossed", ks)
  BY DEF SetTokens
<1> HIDE DEF k
<1>3. page' \in Page /\ page'.access = k /\ page'.refresh = k /\ page'.user = page.user
  BY <1>1, <1>2, TokensSet
<1>4. /\ call' \in [Calls -> Call] /\ call'[c].at = "sent" /\ call'[c].token = k
      /\ \A d \in Calls : d # c => call'[d] = call[d]
  BY <1>1, <1>2, Becoming
<1>5. Grows
  BY <1>2, Befalls DEF SessionTypeOK, Excuse, Losses
<1>6. SessionTypeOK'
  BY <1>1, <1>2, <1>3, <1>4, <1>5 DEF SessionTypeOK, Refreshing, serverVars, Grows
<1> QED
  BY <1>2, <1>3, <1>4, <1>5, <1>6 DEF k

LEMMA SessionExpiredStep ==
  ASSUME SessionTypeOK, NEW c \in Calls, SessionExpired(c)
  PROVE  /\ SessionTypeOK' /\ UNCHANGED <<accountVars, serverVars>> /\ Grows
         /\ call'[c].at = "idle" /\ \A d \in Calls : d # c => call'[d] = call[d]
<1>1. /\ ClearTokens /\ Become(c, "idle", 0) /\ UNCHANGED <<accountVars, serverVars>>
      /\ \E ks : Excusing("logged out", ks)
  BY DEF SessionExpired
<1>2. Grows
  BY <1>1, Befalls DEF SessionTypeOK, Excuse, Refusals
<1>3. /\ call' \in [Calls -> Call] /\ call'[c].at = "idle" /\ call'[c].token = 0
      /\ \A d \in Calls : d # c => call'[d] = call[d]
  BY <1>1, TokenRange, Becoming DEF SessionTypeOK
<1>4. SessionTypeOK'
  BY <1>1, <1>2, <1>3, Cleared, TokenRange DEF SessionTypeOK, Refreshing, serverVars, Grows
<1> QED
  BY <1>1, <1>2, <1>3, <1>4

LEMMA LogoutStep ==
  ASSUME SessionTypeOK, Logout
  PROVE  SessionTypeOK' /\ UNCHANGED <<accountVars, serverVars, call>> /\ Grows
<1>1. /\ ClearTokens /\ UNCHANGED <<accountVars, serverVars, call>>
      /\ \E ks : Excusing("logged out", ks)
  BY DEF Logout
<1>2. Grows
  BY <1>1, Befalls DEF SessionTypeOK, Excuse, Refusals
<1>3. SessionTypeOK'
  BY <1>1, <1>2, Cleared, TokenRange DEF SessionTypeOK, Refreshing, serverVars, Grows
<1> QED
  BY <1>1, <1>2, <1>3

LEMMA LeavingStep ==
  ASSUME SessionTypeOK, NEW k \in leaving, Blacklist(k) \/ LoseLogout(k)
  PROVE  SessionTypeOK' /\ UNCHANGED <<accountVars, made, page, call>> /\ Grows
<1>1. /\ leaving' = leaving \ {k} /\ blacklist' \in {blacklist, blacklist \cup {k}}
      /\ UNCHANGED <<accountVars, made, owner, expired, page, call>>
      /\ excuse' = excuse \/ \E ks : Excusing("logout lost", ks)
  BY DEF Blacklist, LoseLogout, serverVars
<1>2. Grows
  BY <1>1, Befalls DEF SessionTypeOK, Excuse, Losses, Grows
<1>3. SessionTypeOK'
  BY <1>1, <1>2 DEF SessionTypeOK, Refreshing, Grows
<1> QED
  BY <1>1, <1>2, <1>3

LEMMA TypesImplied == AccountsTypeOK /\ SessionTypeOK => TypeOK
  BY DEF SessionTypeOK, TypeOK

(* What the accounts do leaves the session alone, and the other way round. *)
LEMMA NextSplit ==
  ASSUME [Next]_vars
  PROVE  \/ AccountsNext /\ UNCHANGED <<serverVars, page, call, leaving, excuse>>
         \/ UNCHANGED vars
         \/ \E u \in Users : Login(u)
         \/ \E c \in Calls : Calling(c) \/ Rotate(c) \/ SetTokens(c) \/ SessionExpired(c)
         \/ \E k \in leaving : Blacklist(k) \/ LoseLogout(k)
         \/ AccessTokenExpires \/ Logout
  BY DEF Next, Calling

LEMMA SessionStep ==
  ASSUME SessionTypeOK, [Next]_vars
  PROVE  SessionTypeOK' /\ (UNCHANGED accountVars \/ AccountsNext)
<1>1. CASE AccountsNext /\ UNCHANGED <<serverVars, page, call, leaving, excuse>>
  BY <1>1 DEF SessionTypeOK, Refreshing, serverVars
<1>2. CASE UNCHANGED vars
  BY <1>2 DEF SessionTypeOK, Refreshing, serverVars, vars
<1>3. CASE \E u \in Users : Login(u)
  BY <1>3, LoginStep
<1>4. ASSUME NEW c \in Calls, Calling(c) PROVE SessionTypeOK' /\ UNCHANGED accountVars
  BY <1>4, CallingStep DEF SessionTypeOK, serverVars, Refreshing, Grows
<1>5. ASSUME NEW c \in Calls, Rotate(c) \/ SetTokens(c) \/ SessionExpired(c)
      PROVE  SessionTypeOK' /\ UNCHANGED accountVars
  BY <1>5, RotateStep, SetTokensStep, SessionExpiredStep
<1>6. CASE \E k \in leaving : Blacklist(k) \/ LoseLogout(k)
  BY <1>6, LeavingStep
<1>7. CASE AccessTokenExpires
  <2>1. made \in 0..made
    BY MaxTokensAssumption, SMT DEF SessionTypeOK
  <2> QED
    BY <1>7, <2>1 DEF AccessTokenExpires, SessionTypeOK, Refreshing
<1>8. CASE Logout
  BY <1>8, LogoutStep
<1> QED
  BY <1>1, <1>2, <1>3, <1>4, <1>5, <1>6, <1>7, <1>8, NextSplit

(* Accounts and sessions together.                                         *)
Base == AccountsTypeOK /\ Loaded /\ NothingUndone /\ SessionTypeOK

LEMMA BaseInit == Init => Base
<1> SUFFICES ASSUME Init PROVE Base
  OBVIOUS
<1>1. PICK p \in Passwords, f \in Profiles :
        /\ user = [u \in Users |-> IF u = Root
             THEN [role |-> "admin", is_active |-> TRUE, password |-> p, profile |-> f]
             ELSE None]
        /\ request = [q \in Requests |-> None]
        /\ admitted = 0 /\ asked = user /\ overlaid = {}
  BY DEF Init, AccountsInit
<1>2. [role |-> "admin", is_active |-> TRUE, password |-> p, profile |-> f] \in Row
  BY SMT DEF Row, RoleName
<1>3. 0 \in 0..MaxAdmitted
  BY AccountsAssumption, SMT
<1>4. AccountsTypeOK
  BY <1>1, <1>2, <1>3 DEF AccountsTypeOK
<1>5. Loaded /\ NothingUndone
  BY <1>1 DEF Loaded, NothingUndone
<1>6. Idle \in Call /\ Idle.at = "idle" /\ Idle.token = 0
  BY MaxTokensAssumption, SMT DEF Idle, Call
<1>7. 0 \in 0..0 /\ 0 \in 0..MaxTokens
  BY MaxTokensAssumption, SMT
<1>8. SessionTypeOK
  BY <1>6, <1>7, LoggedOutFields DEF Init, SessionTypeOK, Refreshing
<1> QED
  BY <1>4, <1>5, <1>8 DEF Base

LEMMA BaseStep == Base /\ [Next]_vars => Base'
<1> SUFFICES ASSUME Base, [Next]_vars PROVE Base'
  OBVIOUS
<1>1. SessionTypeOK' /\ (UNCHANGED accountVars \/ AccountsNext)
  BY SessionStep DEF Base
<1>2. ASSUME UNCHANGED accountVars PROVE (AccountsTypeOK /\ Loaded /\ NothingUndone)'
  BY <1>2 DEF accountVars, AccountsTypeOK, Loaded, NothingUndone, Base
<1> QED
  BY <1>1, <1>2, AccountsStep DEF Base

(***************************************************************************)
(* The types hold: users, requests that have loaded them, tokens, the page *)
(* and its calls (accounts/views.py:63-106, app.js:38-124).                *)
(***************************************************************************)
THEOREM TypeCorrect == Spec => []TypeOK
<1>1. Base => TypeOK
  BY TypesImplied DEF Base
<1> QED
  BY <1>1, BaseInit, BaseStep, PTL DEF Spec

(***************************************************************************)
(* No request undoes what another one did, except a profile update that    *)
(* was overtaken (accounts/views.py:73 against :82, :91, :98, :105).       *)
(***************************************************************************)
THEOREM NothingUndoneTheorem == Spec => []NothingUndone
<1>1. Base => NothingUndone
  BY DEF Base
<1> QED
  BY <1>1, BaseInit, BaseStep, PTL DEF Spec

-----------------------------------------------------------------------------
(* The tokens in order.                                                    *)

LEMMA Kept ==
  ASSUME Grows, NEW k \in Tokens
  PROVE  (Refusable(k) => Refusable(k)') /\ (Lost(k) => Lost(k)')
  BY DEF Grows, Refusable, Lost

LEMMA CallingOrder ==
  ASSUME SessionTypeOK, TokenInv, NEW c \in Calls, Calling(c)
  PROVE  TokenInv'
<1>0. /\ call \in [Calls -> Call] /\ excuse \in [Tokens -> SUBSET Excuse]
      /\ \A d \in Calls : d # c => call'[d] = call[d]
      /\ UNCHANGED <<made, blacklist, page, leaving>>
      /\ \A k \in Tokens : (Refusable(k) => Refusable(k)') /\ (Lost(k) => Lost(k)')
  BY CallingStep, Kept DEF SessionTypeOK, serverVars
<1>1. AsksOrder /\ RenewedOrder /\ PageOrder /\ Held
  BY DEF TokenInv
<1>2. /\ \A d \in Calls : Asks(d) \/ Renewed(d) \/ call[d].at = "refused" => call[d].token \in Tokens
      /\ page.refresh # 0 => page.refresh \in Tokens
      /\ \A k \in 1..made : k \in Tokens
  <2>1. page.refresh # 0 => page.refresh \in 1..made
    BY MaxTokensAssumption, SMT DEF SessionTypeOK
  <2> QED
    BY <2>1, TokenRange DEF Refreshing, Asks, Renewed
<1>3. \A d \in Calls : Refreshing(d) <=> Asks(d) \/ Renewed(d) \/ call[d].at = "refused"
  BY DEF Refreshing, Asks, Renewed
<1>4. \A d \in Calls \ {c} : /\ Asks(d)' <=> Asks(d)
                             /\ Renewed(d)' <=> Renewed(d)
                             /\ Refreshing(d)' <=> Refreshing(d)
  BY <1>0 DEF Asks, Renewed, Refreshing
<1>5. CASE Api(c) \/ Accept(c) \/ Fail(c) \/ Deny(c) \/ Throw(c)
  <2>1. ~ Refreshing(c) /\ call'[c].at \in {"idle", "sent", "denied"}
    BY <1>0, <1>5, SMT DEF Api, Accept, Fail, Deny, Throw, Become, Refreshing
  <2>2. ~ Asks(c)' /\ ~ Renewed(c)' /\ ~ Asks(c) /\ ~ Renewed(c)
    BY <2>1 DEF Asks, Renewed, Refreshing
  <2>3. AsksOrder'
    BY <1>0, <1>1, <1>2, <1>4, <2>1, <2>2 DEF AsksOrder
  <2>4. RenewedOrder'
    BY <1>0, <1>1, <1>4, <2>2 DEF RenewedOrder
  <2>5. PageOrder'
    BY <1>0, <1>1, <1>2, <1>4, <2>1, <2>2 DEF PageOrder
  <2>6. Held'
    BY <1>0, <1>1, <1>2, <1>4, <2>2 DEF Held
  <2> QED
    BY <2>3, <2>4, <2>5, <2>6 DEF TokenInv
<1>6. CASE TryRefresh(c)
  <2> DEFINE k == page.refresh
  <2>1. /\ call'[c].at = "refresh" /\ call'[c].token = k /\ k # 0
        /\ call[c].at = "denied" /\ k \in Tokens
    <3>1. /\ Become(c, "refresh", k) /\ k # 0 /\ call[c].at = "denied" /\ k \in 0..MaxTokens
      BY <1>6, TokenRange DEF TryRefresh, SessionTypeOK
    <3> QED
      BY <1>0, <1>2, <3>1, Becoming
  <2>2. (\E d \in Calls \ {c} : Refreshing(d)) => Refusable(k)'
    <3> SUFFICES ASSUME NEW d \in Calls \ {c}, Refreshing(d) PROVE Refusable(k)'
      OBVIOUS
    <3>1. InUse(Calls \ {c}) # {}
      BY DEF InUse
    <3>2. Excusing("raced", {j \in {k} : InUse(Calls \ {c}) # {}})
      BY <1>6 DEF TryRefresh
    <3>3. k \in {j \in {k} : InUse(Calls \ {c}) # {}}
      BY <3>1
    <3>4. "raced" \in excuse'[k]
      BY <1>0, <2>1, <3>2, <3>3, Befalls DEF Excuse, Refusals
    <3>5. UNCHANGED k
      BY <1>0
    <3> QED
      BY <3>4, <3>5 DEF Refusable, Refusals
  <2>3. Asks(c)' /\ ~ Renewed(c)' /\ ~ Asks(c) /\ ~ Renewed(c) /\ ~ Refreshing(c)
    BY <2>1 DEF Asks, Renewed, Refreshing
  <2>4. k \notin leaving /\ (k \in blacklist => Refusable(k)') /\ UNCHANGED k
    BY <1>0, <1>1, <2>1, <2>2, <2>3 DEF PageOrder
  <2>5. \A d \in Calls \ {c} : Asks(d) => Refusable(k)'
    BY <1>3, <2>2
  <2> HIDE DEF k
  <2>6. AsksOrder'
    BY <1>0, <1>1, <1>2, <1>4, <2>1, <2>3, <2>4, <2>5 DEF AsksOrder
  <2>7. RenewedOrder'
    BY <1>0, <1>1, <1>4, <2>1, <2>3 DEF RenewedOrder, k
  <2>8. PageOrder'
    BY <1>0, <1>1, <1>2, <1>4, <2>1, <2>3 DEF PageOrder, k, Asks, Refreshing
  <2>9. Held'
    BY <1>0, <1>1, <1>2, <1>4, <2>3 DEF Held
  <2> QED
    BY <2>6, <2>7, <2>8, <2>9 DEF TokenInv
<1>7. CASE CheckRefresh(c) \/ NotServed(c) \/ LoseAnswer(c)
  <2> DEFINE k == call[c].token
  <2>1. /\ call'[c].at \in {"checked", "refused"} /\ call'[c].token = k
        /\ Asks(c) \/ (Renewed(c) /\ call'[c].at = "refused")
        /\ k \in Tokens
    <3>1. \E at \in {"checked", "refused"} : Become(c, at, k)
      BY <1>7 DEF CheckRefresh, NotServed, LoseAnswer
    <3>2. Asks(c) \/ (Renewed(c) /\ Become(c, "refused", k))
      BY <1>7 DEF CheckRefresh, NotServed, LoseAnswer, Asks, Renewed
    <3>3. k \in Tokens /\ k \in 0..MaxTokens
      BY <1>2, <3>2, TokenRange DEF SessionTypeOK
    <3> QED
      BY <1>0, <3>1, <3>2, <3>3, Becoming
  <2>2. call'[c].at = "refused" => excuse'[k] \cap Refusals # {}
    <3>1. CASE CheckRefresh(c) /\ k \in blacklist
      <4>1. Refusable(k)
        BY <1>1, <3>1 DEF CheckRefresh, AsksOrder, Asks
      <4> QED
        BY <4>1, <2>1, CallingStep DEF Refusable, Grows
    <3>2. CASE CheckRefresh(c) /\ ~ IsActive(owner[k])
      <4>1. Excusing("disabled", {j \in {k} : ~ IsActive(owner[j])})
        BY <3>2 DEF CheckRefresh
      <4>2. "disabled" \in excuse'[k]
        <5>1. k \in {j \in {k} : ~ IsActive(owner[j])}
          BY <3>2
        <5> QED
          BY <1>0, <2>1, <4>1, <5>1, Befalls DEF Excuse, Refusals
      <4> QED
        BY <4>2 DEF Refusals
    <3>3. CASE CheckRefresh(c) /\ k \notin blacklist /\ IsActive(owner[k])
      BY <1>0, <3>3, SMT DEF CheckRefresh, Become
    <3>4. CASE NotServed(c)
      <4>1. "not served" \in excuse'[k]
        BY <1>0, <2>1, <3>4, Befalls DEF NotServed, Excuse, Refusals
      <4> QED
        BY <4>1 DEF Refusals
    <3>5. CASE LoseAnswer(c)
      <4>1. "answer lost" \in excuse'[k]
        BY <1>0, <2>1, <3>5, Befalls DEF LoseAnswer, Excuse, Refusals
      <4> QED
        BY <4>1 DEF Refusals
    <3> QED
      BY <1>7, <3>1, <3>2, <3>3, <3>4, <3>5
  <2>3. Renewed(c) => excuse'[k] \cap Losses # {}
    <3> SUFFICES ASSUME Renewed(c) PROVE excuse'[k] \cap Losses # {}
      OBVIOUS
    <3>1. Excusing("answer lost", {k})
      BY <1>7 DEF CheckRefresh, NotServed, LoseAnswer, Renewed
    <3>2. "answer lost" \in excuse'[k]
      BY <1>0, <2>1, <3>1, Befalls DEF Excuse, Refusals
    <3> QED
      BY <3>2 DEF Losses
  <2>4. /\ Refreshing(c)' /\ ~ Renewed(c)' /\ (Asks(c)' => Asks(c)) /\ UNCHANGED k
        /\ Asks(c)' \/ call'[c].at = "refused"
    BY <2>1 DEF Asks, Renewed, Refreshing
  <2> HIDE DEF k
  <2>5. AsksOrder'
    <3>1. \A d \in Calls : call'[d].at = "refused" => Refusable(call[d].token)'
      BY <1>0, <1>1, <1>2, <2>1, <2>2 DEF AsksOrder, Refusable
    <3>2. \A d \in Calls : Asks(d)' => Asks(d) /\ call'[d].token = call[d].token
      BY <1>0, <1>4, <2>1, <2>4 DEF k
    <3> QED
      BY <1>0, <1>1, <1>2, <3>1, <3>2 DEF AsksOrder
  <2>6. RenewedOrder'
    BY <1>0, <1>1, <1>4, <2>1, <2>4 DEF RenewedOrder, k
  <2>7. PageOrder'
    BY <1>0, <1>1, <1>2, <1>4, <2>1, <2>4 DEF PageOrder, k
  <2>8. Held'
    BY <1>0, <1>1, <1>2, <1>4, <2>3 DEF Held, Lost, k
  <2> QED
    BY <2>5, <2>6, <2>7, <2>8 DEF TokenInv
<1> QED
  BY <1>5, <1>6, <1>7 DEF Calling

LEMMA LoginOrder ==
  ASSUME SessionTypeOK, TokenInv, NEW u \in Users, Login(u)
  PROVE  TokenInv'
<1>m. PICK m : m = made + 1
  OBVIOUS
<1>0. /\ 1..made' = (1..made) \cup {m} /\ m \in Tokens
      /\ page'.refresh = m /\ page'.user = u /\ UNCHANGED <<blacklist, call, leaving>>
      /\ \A k \in Tokens : (Refusable(k) => Refusable(k)') /\ (Lost(k) => Lost(k)')
  BY <1>m, LoginStep, Kept
<1>1. AsksOrder /\ RenewedOrder /\ PageOrder /\ Held /\ page.user = None /\ u # None
  BY NoneAssumption DEF TokenInv, Login
<1>2. m # 0 /\ m \notin blacklist /\ m \notin leaving /\ m \notin 1..made
  BY <1>m, MaxTokensAssumption, SMT DEF SessionTypeOK
<1>3. /\ \A d \in Calls : Refreshing(d) => call[d].token \in 1..made
      /\ \A k \in 1..made : k \in Tokens
      /\ page.refresh # 0 => page.refresh \in 1..made
  <2>1. page.refresh # 0 => page.refresh \in 1..made
    BY MaxTokensAssumption, SMT DEF SessionTypeOK
  <2> QED
    BY <2>1, TokenRange
<1>4. \A d \in Calls : /\ Asks(d)' <=> Asks(d)
                       /\ Renewed(d)' <=> Renewed(d)
                       /\ Refreshing(d) <=> Asks(d) \/ Renewed(d) \/ call[d].at = "refused"
  BY <1>0 DEF Asks, Renewed, Refreshing
<1>5. (\E d \in Calls : Refreshing(d)) => Lost(m)'
  <2> SUFFICES ASSUME NEW d \in Calls, Refreshing(d) PROVE Lost(m)'
    OBVIOUS
  <2>1. InUse(Calls) # {}
    BY DEF InUse
  <2>2. Excusing("crossed", {k \in {m} : InUse(Calls) # {}})
    BY <1>m DEF Login
  <2>3. m \in {k \in {m} : InUse(Calls) # {}}
    BY <2>1
  <2>4. "crossed" \in excuse'[m]
    BY <1>0, <2>2, <2>3, Befalls DEF Excuse, Losses, SessionTypeOK
  <2> QED
    BY <2>4 DEF Lost, Losses
<1>6. AsksOrder'
  BY <1>0, <1>1, <1>3, <1>4 DEF AsksOrder
<1>7. RenewedOrder'
  BY <1>0, <1>1, <1>2, <1>3, <1>4 DEF RenewedOrder
<1>8. PageOrder'
  BY <1>0, <1>1, <1>2, <1>4, <1>5 DEF PageOrder
<1>9. Held'
  <2>1. ASSUME NEW k \in 1..made, k \notin blacklist, k = page.refresh PROVE Lost(k)'
    BY <1>0, <1>1, <1>3, <2>1, MaxTokensAssumption, SMT DEF PageOrder, SessionTypeOK
  <2> QED
    BY <1>0, <1>1, <1>3, <1>4, <2>1 DEF Held
<1> QED
  BY <1>6, <1>7, <1>8, <1>9 DEF TokenInv

LEMMA RotateOrder ==
  ASSUME SessionTypeOK, TokenInv, NEW c \in Calls, Rotate(c)
  PROVE  TokenInv'
<1>m. PICK m : m = made + 1
  OBVIOUS
<1>k. PICK k : k = call[c].token
  OBVIOUS
<1>0. /\ 1..made' = (1..made) \cup {m} /\ blacklist' = blacklist \cup {k}
      /\ call'[c].at = "renewed" /\ call'[c].token = m
      /\ \A d \in Calls : d # c => call'[d] = call[d]
      /\ UNCHANGED <<page, leaving, excuse>>
  BY <1>m, <1>k, RotateStep
<1>1. AsksOrder /\ RenewedOrder /\ PageOrder /\ Held /\ call[c].at = "checked"
  BY DEF TokenInv, Rotate
<1>2. m # 0 /\ m \notin blacklist /\ m \notin leaving /\ m \notin 1..made
  BY <1>m, MaxTokensAssumption, SMT DEF SessionTypeOK
<1>3. /\ \A d \in Calls : Refreshing(d) => call[d].token \in 1..made
      /\ page.refresh # 0 => page.refresh \in 1..made
  <2>1. page.refresh # 0 => page.refresh \in 1..made
    BY MaxTokensAssumption, SMT DEF SessionTypeOK
  <2> QED
    BY <2>1, TokenRange
<1>4. /\ Asks(c) /\ ~ Renewed(c) /\ Renewed(c)' /\ ~ Asks(c)' /\ Refreshing(c) /\ Refreshing(c)'
      /\ \A d \in Calls \ {c} : /\ Asks(d)' <=> Asks(d)
                                /\ Renewed(d)' <=> Renewed(d)
                                /\ Refreshing(d)' <=> Refreshing(d)
      /\ \A d \in Calls : Asks(d) \/ Renewed(d) => Refreshing(d)
      /\ \A j : (Refusable(j) <=> Refusable(j)') /\ (Lost(j) <=> Lost(j)')
  BY <1>0, <1>1 DEF Asks, Renewed, Refreshing, Refusable, Lost
<1>5. k \in 1..made /\ m # k
  BY <1>k, <1>2, <1>3, <1>4
<1>6. AsksOrder'
  <2>1. \A d \in Calls : call'[d].at = "refused" => d # c
    BY <1>0
  <2>2. \A d \in Calls \ {c} : Asks(d) /\ call[d].token = k => Refusable(k)
    BY <1>k, <1>1, <1>4 DEF AsksOrder
  <2> QED
    BY <1>0, <1>1, <1>4, <2>1, <2>2 DEF AsksOrder
<1>7. RenewedOrder'
  <2>1. \A d \in Calls \ {c} : Renewed(d) => call[d].token # k /\ call[d].token # m
    BY <1>k, <1>1, <1>2, <1>3, <1>4 DEF RenewedOrder
  <2>2. m \notin blacklist' \cup leaving' \cup {page'.refresh}
    BY <1>0, <1>2, <1>3, <1>5
  <2>3. \A d \in Calls \ {c} : Asks(d) \/ Renewed(d) => call[d].token # m
    BY <1>2, <1>3, <1>4
  <2> QED
    BY <1>0, <1>1, <1>4, <2>1, <2>2, <2>3 DEF RenewedOrder
<1>8. PageOrder'
  BY <1>k, <1>0, <1>1, <1>4 DEF PageOrder
<1>9. Held'
  BY <1>0, <1>1, <1>4 DEF Held
<1> QED
  BY <1>6, <1>7, <1>8, <1>9 DEF TokenInv

LEMMA SetTokensOrder ==
  ASSUME SessionTypeOK, TokenInv, NEW c \in Calls, SetTokens(c)
  PROVE  TokenInv'
<1>k. PICK k : k = call[c].token
  OBVIOUS
<1>0. /\ UNCHANGED <<made, blacklist, leaving>>
      /\ page'.refresh = k /\ page'.user = page.user /\ call'[c].at = "sent"
      /\ \A d \in Calls : d # c => call'[d] = call[d]
      /\ \A j \in Tokens : (Refusable(j) => Refusable(j)') /\ (Lost(j) => Lost(j)')
  BY <1>k, SetTokensStep, Kept DEF serverVars
<1>1. AsksOrder /\ RenewedOrder /\ PageOrder /\ Held /\ call[c].at = "renewed"
  BY DEF TokenInv, SetTokens
<1>2. /\ Renewed(c) /\ ~ Asks(c) /\ Refreshing(c) /\ ~ Renewed(c)' /\ ~ Asks(c)'
      /\ \A d \in Calls \ {c} : (Asks(d)' <=> Asks(d)) /\ (Renewed(d)' <=> Renewed(d))
      /\ \A d \in Calls : Refreshing(d) <=> Asks(d) \/ Renewed(d) \/ call[d].at = "refused"
  BY <1>0, <1>1 DEF Asks, Renewed, Refreshing
<1>3. /\ \A d \in Calls : Refreshing(d) => call[d].token \in Tokens
      /\ \A j \in 1..made : j \in Tokens
      /\ page.refresh # 0 => page.refresh \in Tokens
      /\ 0 \notin 1..made
  <2>1. (page.refresh # 0 => page.refresh \in 1..made) /\ 0 \notin 1..made
    BY MaxTokensAssumption, SMT DEF SessionTypeOK
  <2> QED
    BY <2>1, TokenRange
<1>4. k \in Tokens /\ k \notin blacklist \cup leaving \cup {page.refresh}
  BY <1>k, <1>1, <1>2, <1>3 DEF RenewedOrder
<1>5. page.user = None \/ (\E d \in Calls \ {c} : Refreshing(d)) => Lost(k)'
  <2> DEFINE Overlaid == page.user = None \/ InUse(Calls \ {c}) # {}
  <2>1. (\E d \in Calls \ {c} : Refreshing(d)) => InUse(Calls \ {c}) # {}
    BY DEF InUse
  <2>2. Excusing("crossed", {j \in {k} : Overlaid})
    BY <1>k DEF SetTokens
  <2>3. Overlaid => k \in {j \in {k} : Overlaid}
    OBVIOUS
  <2>4. Overlaid => "crossed" \in excuse'[k]
    BY <1>4, <2>2, <2>3, Befalls DEF Excuse, Losses, SessionTypeOK
  <2> QED
    BY <2>1, <2>4 DEF Lost, Losses
<1>6. AsksOrder'
  <2>1. \A d \in Calls : call'[d].at = "refused" => d # c
    BY <1>0
  <2> QED
    BY <1>0, <1>1, <1>2, <1>3, <2>1 DEF AsksOrder
<1>7. RenewedOrder'
  BY <1>k, <1>0, <1>1, <1>2 DEF RenewedOrder
<1>8. PageOrder'
  BY <1>0, <1>2, <1>4, <1>5 DEF PageOrder
<1>9. Held'
  <2>1. ASSUME NEW j \in 1..made, j \notin blacklist, j = page.refresh PROVE Lost(j)'
    BY <1>0, <1>1, <1>2, <1>3, <2>1 DEF PageOrder
  <2> QED
    BY <1>k, <1>0, <1>1, <1>2, <1>3, <2>1 DEF Held
<1> QED
  BY <1>6, <1>7, <1>8, <1>9 DEF TokenInv

(* logout(), of a call whose refresh failed or of the button: whoever      *)
(* still refreshes with the page's token may now be refused.               *)
LEMMA ClearedOrder ==
  ASSUME SessionTypeOK, TokenInv, Grows, ClearTokens, UNCHANGED <<made, blacklist>>,
         NEW D \in SUBSET Calls,
         Excusing("logged out", {page.refresh} \cap InUse(D)),
         \A c \in Calls \ D : call'[c].at = "idle" /\ ~ Renewed(c),
         \A c \in D : call'[c] = call[c]
  PROVE  TokenInv'
<1>p. PICK p : p = page.refresh
  OBVIOUS
<1>0. /\ page'.refresh = 0
      /\ leaving' = IF p = 0 THEN leaving ELSE leaving \cup {p}
      /\ \A j \in Tokens : (Refusable(j) => Refusable(j)') /\ (Lost(j) => Lost(j)')
  BY <1>p, Cleared, Kept
<1>1. AsksOrder /\ RenewedOrder /\ PageOrder /\ Held
  BY DEF TokenInv
<1>2. /\ \A d \in D : (Asks(d)' <=> Asks(d)) /\ (Renewed(d)' <=> Renewed(d))
      /\ \A d \in Calls \ D : ~ Asks(d)' /\ ~ Renewed(d)'
      /\ \A d \in Calls : Asks(d) \/ Renewed(d) \/ call[d].at = "refused" => Refreshing(d)
  BY DEF Asks, Renewed, Refreshing
<1>3. /\ \A d \in Calls : Refreshing(d) => call[d].token \in Tokens /\ call[d].token # 0
      /\ \A j \in 1..made : j \in Tokens /\ j # 0
  BY TokenRange, NoZero
<1>4. \A d \in D : Asks(d) /\ call[d].token = p => Refusable(p)'
  <2> SUFFICES ASSUME NEW d \in D, Asks(d), call[d].token = p PROVE Refusable(p)'
    OBVIOUS
  <2>1. Refreshing(d) /\ p \in Tokens /\ p = page.refresh
    BY <1>p, <1>2, <1>3
  <2>2. p \in {page.refresh} \cap InUse(D)
    BY <2>1 DEF InUse
  <2>3. "logged out" \in Excuse /\ excuse \in [Tokens -> SUBSET Excuse]
    BY DEF Excuse, Refusals, SessionTypeOK
  <2>4. "logged out" \in excuse'[p]
    BY <2>1, <2>2, <2>3, Befalls
  <2> QED
    BY <2>4 DEF Refusable, Refusals
<1>5. AsksOrder'
  <2>1. \A d \in Calls : call'[d].at = "refused" => d \in D
    OBVIOUS
  <2> QED
    BY <1>0, <1>1, <1>2, <1>3, <1>4, <2>1 DEF AsksOrder
<1>6. RenewedOrder'
  BY <1>p, <1>0, <1>1, <1>2, <1>3 DEF RenewedOrder
<1>7. PageOrder'
  BY <1>0 DEF PageOrder
<1>8. Held'
  BY <1>p, <1>0, <1>1, <1>2, <1>3 DEF Held
<1> QED
  BY <1>5, <1>6, <1>7, <1>8 DEF TokenInv

LEMMA LeavingOrder ==
  ASSUME SessionTypeOK, TokenInv, NEW k \in leaving, Blacklist(k) \/ LoseLogout(k)
  PROVE  TokenInv'
<1>0. /\ leaving' = leaving \ {k} /\ blacklist' \in {blacklist, blacklist \cup {k}}
      /\ UNCHANGED <<made, page, call>>
      /\ \A j \in Tokens : (Refusable(j) => Refusable(j)') /\ (Lost(j) => Lost(j)')
      /\ k \in blacklist' \/ Lost(k)'
  <2>1. k \in Tokens
    BY TokenRange DEF SessionTypeOK
  <2>2. LoseLogout(k) => "logout lost" \in excuse'[k]
    BY <2>1, Befalls DEF LoseLogout, Excuse, Losses, SessionTypeOK
  <2> QED
    BY <2>2, LeavingStep, Kept DEF Blacklist, LoseLogout, serverVars, Lost, Losses
<1>1. AsksOrder /\ RenewedOrder /\ PageOrder /\ Held
  BY DEF TokenInv
<1>2. /\ \A d \in Calls : (Asks(d)' <=> Asks(d)) /\ (Renewed(d)' <=> Renewed(d))
      /\ \A d \in Calls : Refreshing(d)' <=> Refreshing(d)
      /\ \A d \in Calls : Asks(d) \/ Renewed(d) \/ call[d].at = "refused" => Refreshing(d)
  BY <1>0 DEF Asks, Renewed, Refreshing
<1>3. /\ \A d \in Calls : Refreshing(d) => call[d].token \in Tokens
      /\ \A j \in 1..made : j \in Tokens
      /\ page.refresh # 0 => page.refresh \in Tokens
  <2>1. page.refresh # 0 => page.refresh \in 1..made
    BY MaxTokensAssumption, SMT DEF SessionTypeOK
  <2> QED
    BY <2>1, TokenRange
<1>4. AsksOrder'
  BY <1>0, <1>1, <1>2, <1>3 DEF AsksOrder
<1>5. RenewedOrder'
  BY <1>0, <1>1, <1>2 DEF RenewedOrder
<1>6. PageOrder'
  BY <1>0, <1>1, <1>2, <1>3 DEF PageOrder
<1>7. Held'
  BY <1>0, <1>1, <1>2, <1>3 DEF Held
<1> QED
  BY <1>4, <1>5, <1>6, <1>7 DEF TokenInv

LEMMA TokenStep == SessionTypeOK /\ TokenInv /\ [Next]_vars => TokenInv'
<1> SUFFICES ASSUME SessionTypeOK, TokenInv, [Next]_vars PROVE TokenInv'
  OBVIOUS
<1>1. CASE UNCHANGED <<serverVars, page, call, leaving, excuse>>
  BY <1>1 DEF TokenInv, AsksOrder, RenewedOrder, PageOrder, Held, Refreshing, Asks, Renewed,
              Refusable, Lost, serverVars
<1>2. CASE \E u \in Users : Login(u)
  BY <1>2, LoginOrder
<1>3. ASSUME NEW c \in Calls, Calling(c) \/ Rotate(c) \/ SetTokens(c) PROVE TokenInv'
  BY <1>3, CallingOrder, RotateOrder, SetTokensOrder
<1>4. ASSUME NEW c \in Calls, SessionExpired(c) PROVE TokenInv'
  <2>1. /\ ClearTokens /\ UNCHANGED <<made, blacklist>> /\ Grows
        /\ Excusing("logged out", {page.refresh} \cap InUse(Calls \ {c}))
        /\ call'[c].at = "idle" /\ ~ Renewed(c)
        /\ \A d \in Calls : d # c => call'[d] = call[d]
    BY <1>4, SessionExpiredStep DEF SessionExpired, serverVars, Renewed
  <2>2. /\ Calls \ {c} \in SUBSET Calls
        /\ \A d \in Calls \ (Calls \ {c}) : call'[d].at = "idle" /\ ~ Renewed(d)
        /\ \A d \in Calls \ {c} : call'[d] = call[d]
    BY <2>1
  <2> QED
    BY <2>1, <2>2, ClearedOrder
<1>5. CASE Logout
  <2>1. /\ ClearTokens /\ UNCHANGED <<made, blacklist, call>> /\ Grows
        /\ Excusing("logged out", {page.refresh} \cap InUse(Calls))
    BY <1>5, LogoutStep DEF Logout, serverVars
  <2> QED
    BY <2>1, ClearedOrder
<1>6. CASE \E k \in leaving : Blacklist(k) \/ LoseLogout(k)
  BY <1>6, LeavingOrder
<1>7. CASE AccessTokenExpires
  BY <1>7 DEF AccessTokenExpires, TokenInv, AsksOrder, RenewedOrder, PageOrder, Held, Refreshing,
              Asks, Renewed, Refusable, Lost
<1> QED
  BY <1>1, <1>2, <1>3, <1>4, <1>5, <1>6, <1>7, NextSplit DEF vars

LEMMA TokenInit == Init => TokenInv
  BY LoggedOutFields, SMT
  DEF Init, Idle, TokenInv, AsksOrder, RenewedOrder, PageOrder, Held, Asks, Renewed

LEMMA TokensInvariant == Spec => [](SessionTypeOK /\ TokenInv)
<1>1. Init => SessionTypeOK /\ TokenInv
  BY BaseInit, TokenInit DEF Base
<1>2. SessionTypeOK /\ TokenInv /\ [Next]_vars => (SessionTypeOK /\ TokenInv)'
  BY SessionStep, TokenStep
<1> QED
  BY <1>1, <1>2, PTL DEF Spec

(***************************************************************************)
(* A refresh is refused only for what befell the very token it sent: the   *)
(* user disabled, the request lost or throttled, a second call refreshing  *)
(* at once, a logout meanwhile, or the answer with its successor lost      *)
(* (app.js:49-56, 96-110; accounts/urls.py:15-16;                          *)
(* BLACKLIST_AFTER_ROTATION).                                              *)
(***************************************************************************)
THEOREM RefusedTheorem == Spec => []RefusedExplained
<1>1. TokenInv => RefusedExplained
  BY DEF TokenInv, AsksOrder, Refusable, RefusedExplained
<1> QED
  BY <1>1, TokensInvariant, PTL

(***************************************************************************)
(* A refresh token the server would take is the page's, on the way to it,  *)
(* or about to be blacklisted, unless it was itself lost with an answer or *)
(* a logout, or came to the page beside another refresh or after a logout  *)
(* (app.js:98-106, 222-232).                                               *)
(***************************************************************************)
THEOREM StrayTheorem == Spec => []NoStrayToken
<1>1. SessionTypeOK /\ TokenInv => NoStrayToken
  <2> SUFFICES ASSUME SessionTypeOK, TokenInv, NEW k \in (1..made) \ blacklist, ~ Lost(k),
                      k # page.refresh, k \notin leaving
               PROVE  \E c \in Calls : call[c] = [at |-> "renewed", token |-> k]
    BY DEF NoStrayToken, Lost
  <2>1. PICK c \in Calls : call[c].at = "renewed" /\ call[c].token = k
    BY DEF TokenInv, Held, Renewed
  <2>2. call[c] = [at |-> "renewed", token |-> k]
    BY <2>1, SMT DEF SessionTypeOK, Call
  <2> QED
    BY <2>2
<1> QED
  BY <1>1, TokensInvariant, PTL
=============================================================================
