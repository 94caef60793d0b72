------------------------------- MODULE Sessions -------------------------------
(***************************************************************************)
(* Refresh tokens and the browser that holds one: login, rotation with     *)
(* blacklisting and logout as apps.accounts.urls and SIMPLE_JWT set them   *)
(* up, and the callbacks of static/frontend/app.js that use them, several  *)
(* calls at a time, beside the account changes of Accounts.                *)
(*                                                                         *)
(* Tokens are numbered as they are made; an access token has the number of *)
(* the refresh token it was made with.  Access tokens expire; refresh      *)
(* tokens, which last a week, do not here.  A page is not reloaded.        *)
(***************************************************************************)
EXTENDS Accounts

CONSTANTS
  Calls,     \* API calls the page may have out at once
  MaxTokens  \* bound on the pairs of tokens made

ASSUME MaxTokensAssumption == MaxTokens \in Nat

VARIABLES
  made,      \* how many pairs of tokens there are
  owner,     \* whose each one is
  blacklist, \* the refresh tokens the server refuses
  expired,   \* the access tokens up to this one are too old
  page,      \* state.accessToken, state.refreshToken (0: null), state.user
  call,      \* each call: where it is, the access or refresh token it sent
  leaving,   \* refresh tokens on their way to /auth/logout
  excuse     \* what has befallen each refresh token that the page cannot make up for

serverVars == <<made, owner, blacklist, expired>>
vars == <<accountVars, serverVars, page, call, leaving, excuse>>

Tokens == 1..MaxTokens
Page   == [access : 0..MaxTokens, refresh : 0..MaxTokens, user : Users \cup {None}]
Call   == [at : {"idle", "sent", "denied", "refresh", "checked", "renewed", "refused"},
           token : 0..MaxTokens]

\* What a refresh may be refused for, and what a token may be left behind for.
Refusals == {"disabled", "not served", "raced", "logged out", "answer lost"}
Losses   == {"crossed", "answer lost", "logout lost"}
Excuse   == Refusals \cup Losses

Idle      == [at |-> "idle", token |-> 0]
LoggedOut == [access |-> 0, refresh |-> 0, user |-> None]

Refreshing(c) == call[c].at \in {"refresh", "checked", "renewed", "refused"}

Init ==
  /\ AccountsInit
  /\ made = 0 /\ owner = [k \in Tokens |-> None] /\ blacklist = {} /\ expired = 0
  /\ page = LoggedOut
  /\ call = [c \in Calls |-> Idle]
  /\ leaving = {} /\ excuse = [k \in Tokens |-> {}]

Become(c, at, token) == call' = [call EXCEPT ![c] = [at |-> at, token |-> token]]

\* This befalls these tokens.
Excusing(why, ks) == excuse' = [k \in Tokens |-> IF k \in ks THEN excuse[k] \cup {why} ELSE excuse[k]]

\* The tokens these calls refresh with, or are about to set.
InUse(cs) == {call[d].token : d \in {c \in cs : Refreshing(c)}}

-----------------------------------------------------------------------------
(* The server: simplejwt's views.                                          *)

Make(u) ==
  /\ made < MaxTokens
  /\ made' = made + 1
  /\ owner' = [owner EXCEPT ![made + 1] = u]

(* A password the user knows, and is_active.  A refresh that is under way   *)
(* will set its tokens over these.                                         *)
Login(u) ==
  /\ page.user = None
  /\ IsActive(u)
  /\ Make(u)
  /\ page' = [access |-> made + 1, refresh |-> made + 1, user |-> u]
  /\ Excusing("crossed", {k \in {made + 1} : InUse(Calls) # {}})
  /\ UNCHANGED <<accountVars, blacklist, expired, call, leaving>>

Accept(c) ==
  /\ call[c].at = "sent"
  /\ call[c].token > expired
  /\ IsActive(owner[call[c].token])
  /\ Become(c, "idle", 0)
  /\ UNCHANGED <<accountVars, serverVars, page, leaving, excuse>>

(* No answer, or another one than 401: the caller gets the error.          *)
Fail(c) ==
  /\ call[c].at = "sent"
  /\ Become(c, "idle", 0)
  /\ UNCHANGED <<accountVars, serverVars, page, leaving, excuse>>

(* 401: the access token is too old, or its user is disabled.              *)
Deny(c) ==
  /\ call[c].at = "sent"
  /\ call[c].token <= expired \/ ~IsActive(owner[call[c].token])
  /\ Become(c, "denied", 0)
  /\ UNCHANGED <<accountVars, serverVars, page, leaving, excuse>>

(* /auth/refresh looks at the blacklist and at the user, ...               *)
CheckRefresh(c) ==
  LET k == call[c].token IN
  /\ call[c].at = "refresh"
  /\ IF k \notin blacklist /\ IsActive(owner[k])
     THEN Become(c, "checked", k) ELSE Become(c, "refused", k)
  /\ Excusing("disabled", {j \in {k} : ~IsActive(owner[j])})
  /\ UNCHANGED <<accountVars, serverVars, page, leaving>>

(* The request never arrives, or is throttled (429) or fails: tryRefresh   *)
(* returns false all the same, and the token is as good as before.         *)
NotServed(c) ==
  /\ call[c].at = "refresh"
  /\ Become(c, "refused", call[c].token)
  /\ Excusing("not served", {call[c].token})
  /\ UNCHANGED <<accountVars, serverVars, page, leaving>>

(* An operator named ...Fault is the one after it with a slip in it, such  *)
(* as a later change might bring; nothing uses it.                         *)

(* BLACKLIST_AFTER_ROTATION = False                                        *)
RotateFault(c) ==
  /\ call[c].at = "checked"
  /\ Make(owner[call[c].token])
  /\ Become(c, "renewed", made + 1)
  /\ UNCHANGED <<accountVars, blacklist, expired, page, leaving, excuse>>

(* ... blacklists the token and makes a pair.                              *)
Rotate(c) ==
  /\ call[c].at = "checked"
  /\ Make(owner[call[c].token])
  /\ blacklist' = blacklist \cup {call[c].token}
  /\ Become(c, "renewed", made + 1)
  /\ UNCHANGED <<accountVars, expired, page, leaving, excuse>>

(* /auth/logout                                                            *)
Blacklist(k) ==
  /\ k \in leaving
  /\ leaving' = leaving \ {k}
  /\ blacklist' = blacklist \cup {k}
  /\ UNCHANGED <<accountVars, made, owner, expired, page, call, excuse>>

(* The page does not look at the answer (.catch(() => {})): where there is *)
(* none, or a 429, the token stays good.                                   *)
LoseLogout(k) ==
  /\ k \in leaving
  /\ leaving' = leaving \ {k}
  /\ Excusing("logout lost", {k})
  /\ UNCHANGED <<accountVars, serverVars, page, call>>

AccessTokenExpires ==
  /\ expired < made
  /\ expired' = made
  /\ UNCHANGED <<accountVars, made, owner, blacklist, page, call, leaving, excuse>>

-----------------------------------------------------------------------------
(* The page.                                                               *)

Api(c) ==
  /\ call[c].at = "idle"
  /\ page.user # None
  /\ page.access # 0
  /\ Become(c, "sent", page.access)
  /\ UNCHANGED <<accountVars, serverVars, page, leaving, excuse>>

(* A 401 with a refresh token at hand: post it, whoever else has.          *)
TryRefresh(c) ==
  /\ call[c].at = "denied"
  /\ page.refresh # 0
  /\ Become(c, "refresh", page.refresh)
  /\ Excusing("raced", {k \in {page.refresh} : InUse(Calls \ {c}) # {}})
  /\ UNCHANGED <<accountVars, serverVars, page, leaving>>

(* A 401 and nothing to refresh with: the caller gets the error.           *)
Throw(c) ==
  /\ call[c].at = "denied"
  /\ page.refresh = 0
  /\ Become(c, "idle", 0)
  /\ UNCHANGED <<accountVars, serverVars, page, leaving, excuse>>

(* The rotated refresh token is not kept.                                  *)
SetTokensFault(c) ==
  /\ call[c].at = "renewed"
  /\ page' = [page EXCEPT !.access = call[c].token]
  /\ Become(c, "sent", call[c].token)
  /\ UNCHANGED <<accountVars, serverVars, leaving, excuse>>

(* setTokens, and the call again; whether the page has been logged out, or *)
(* another refresh will set its tokens over these.                         *)
SetTokens(c) ==
  /\ call[c].at = "renewed"
  /\ page' = [page EXCEPT !.access = call[c].token, !.refresh = call[c].token]
  /\ Become(c, "sent", call[c].token)
  /\ Excusing("crossed", {k \in {call[c].token} : page.user = None \/ InUse(Calls \ {c}) # {}})
  /\ UNCHANGED <<accountVars, serverVars, leaving>>

(* Posted also when there is none.                                         *)
ClearTokensFault ==
  /\ page' = LoggedOut
  /\ leaving' = leaving \cup {page.refresh}

(* logout(): clear the tokens, send the refresh token to be blacklisted.   *)
ClearTokens ==
  /\ page' = LoggedOut
  /\ leaving' = IF page.refresh = 0 THEN leaving ELSE leaving \cup {page.refresh}

(* logout() of a call whose refresh failed.                                *)
SessionExpired(c) ==
  /\ call[c].at = "refused"
  /\ ClearTokens
  /\ Become(c, "idle", 0)
  /\ Excusing("logged out", {page.refresh} \cap InUse(Calls \ {c}))
  /\ UNCHANGED <<accountVars, serverVars>>

(* The button.                                                             *)
Logout ==
  /\ page.user # None
  /\ ClearTokens
  /\ Excusing("logged out", {page.refresh} \cap InUse(Calls))
  /\ UNCHANGED <<accountVars, serverVars, call>>

(* The answer to a refresh never comes: tryRefresh returns false.          *)
LoseAnswer(c) ==
  /\ call[c].at = "renewed"
  /\ Become(c, "refused", call[c].token)
  /\ Excusing("answer lost", {call[c].token})
  /\ UNCHANGED <<accountVars, serverVars, page, leaving>>

Next ==
  \/ AccountsNext /\ UNCHANGED <<serverVars, page, call, leaving, excuse>>
  \/ \E u \in Users : Login(u)
  \/ \E c \in Calls :
       \/ Api(c) \/ Accept(c) \/ Fail(c) \/ Deny(c) \/ TryRefresh(c) \/ Throw(c)
       \/ CheckRefresh(c) \/ NotServed(c) \/ Rotate(c) \/ SetTokens(c) \/ SessionExpired(c) \/ LoseAnswer(c)
  \/ \E k \in leaving : Blacklist(k) \/ LoseLogout(k)
  \/ AccessTokenExpires \/ Logout

Spec == Init /\ [][Next]_vars

-----------------------------------------------------------------------------
TypeOK ==
  /\ AccountsTypeOK
  /\ made \in 0..MaxTokens
  /\ owner \in [Tokens -> Users \cup {None}]
  /\ blacklist \subseteq 1..made
  /\ expired \in 0..made
  /\ page \in Page
  /\ call \in [Calls -> Call]
  /\ leaving \subseteq 1..made
  /\ excuse \in [Tokens -> SUBSET Excuse]

(* An access token that expires costs nobody the session, however many     *)
(* calls it catches, unless this befalls the very token they refresh with: *)
(* its user is disabled, the request is lost or throttled, a second call   *)
(* begins a refresh beside the first, the page logs out with it meanwhile, *)
(* or the answer with its successor is lost.                               *)
RefusedExplained ==
  \A c \in Calls : call[c].at = "refused" => excuse[call[c].token] \cap Refusals # {}

(* Every refresh token the server would still take is in the page's hands  *)
(* or on the way to it, or about to be blacklisted, unless this befalls    *)
(* that very token: the answer that brought it or the logout that took it  *)
(* is lost, or it came to the page beside another refresh or after a       *)
(* logout, and something was set over it.                                  *)
NoStrayToken ==
  \A k \in (1..made) \ blacklist :
    \/ k = page.refresh
    \/ k \in leaving
    \/ \E c \in Calls : call[c] = [at |-> "renewed", token |-> k]
    \/ excuse[k] \cap Losses # {}
=============================================================================
