------------------------------- MODULE Sessions -------------------------------
(***************************************************************************)
(* The session of one person: the row of core.refresh_sessions, the memory *)
(* of a gateway that shares and repeats rotations (auth.service.ts), one   *)
(* cookie jar and the tabs that use it (shared/api/http.ts).  Tokens are   *)
(* numbered in the order they are made; 0 is no token.  A token outlives   *)
(* its use, so the history of a cookie can be told from its number.        *)
(***************************************************************************)
EXTENDS Naturals, FiniteSets

CONSTANTS
  Tabs,        \* the tabs of one browser
  MaxTokens,   \* tokens that are ever made
  MaxSessions, \* logins
  MaxRequests, \* calls of the tabs
  MaxFaults,   \* failed calls of the database, lost answers, restarts, reloads
  NoTab        \* the tab of a call nobody waits for

VARIABLES
  row,         \* core.refresh_sessions
  made,        \* tokens made so far
  of,          \* the session a token was made for
  disabled,    \* core.users.disabled
  recent,      \* AuthService.recent: the token issued for a rotated one
  rotating,    \* AuthService.rotating
  jar,         \* the refresh cookie of the browser
  tab,         \* what a tab shows and whether its access token still holds
  req,         \* calls of the tabs
  excused,     \* history: tokens whose pair cannot be repeated any more
  broken,      \* history: those of them whose rotation the database broke off
  faults

gateway == <<recent, rotating>>
base == <<row, disabled>>
browser == <<jar, tab>>
vars == <<row, made, of, disabled, recent, rotating, jar, tab, req, excused, broken, faults>>

Tokens == 1..MaxTokens
Sessions == 1..MaxSessions
Requests == 1..MaxRequests

NoRow == [token |-> 0, prev |-> 0, revoked |-> FALSE]
NoRequest == [tab |-> NoTab, kind |-> "refresh", token |-> 0, at |-> "none", got |-> 0]

Init ==
  /\ row = [s \in Sessions |-> NoRow]
  /\ made = 0 /\ of = [k \in Tokens |-> 0]
  /\ disabled = FALSE
  /\ recent = [k \in Tokens |-> 0] /\ rotating = {}
  /\ jar = 0 /\ tab = [t \in Tabs |-> "form"]
  /\ req = [r \in Requests |-> NoRequest]
  /\ excused = {} /\ broken = {} /\ faults = 0

Fault == faults < MaxFaults /\ faults' = faults + 1

Waiting(t) == \E r \in Requests : req[r].tab = t
Move(r, at) == req' = [req EXCEPT ![r].at = at]

-----------------------------------------------------------------------------
(* The tabs.                                                               *)

(* POST /auth/login: a new row and a new cookie.                           *)
Login(t) ==
  /\ tab[t] = "form" /\ ~Waiting(t) /\ ~disabled
  /\ made < MaxTokens
  /\ \E s \in Sessions :
       /\ \A q \in Sessions : row[q] = NoRow <=> q >= s
       /\ row' = [row EXCEPT ![s].token = made + 1]
       /\ of' = [of EXCEPT ![made + 1] = s]
  /\ made' = made + 1 /\ jar' = made + 1
  /\ tab' = [tab EXCEPT ![t] = "app"]
  /\ UNCHANGED <<disabled, gateway, req, excused, broken, faults>>

(* The access token has run out: the next request of the tab is refused.   *)
Expire(t) ==
  /\ tab[t] = "app"
  /\ tab' = [tab EXCEPT ![t] = "stale"]
  /\ UNCHANGED <<base, made, of, gateway, jar, req, excused, broken, faults>>

(* A call takes the cookie as it is now; the requests of a tab share one   *)
(* refresh.                                                                *)
Call(t, kind) ==
  /\ ~Waiting(t)
  /\ \E r \in Requests :
       /\ req[r].at = "none" /\ \A q \in Requests : req[q].at = "none" => q >= r
       /\ req' = [req EXCEPT ![r] =
                    [tab |-> t, kind |-> kind, token |-> jar, at |-> "sent", got |-> 0]]
  /\ UNCHANGED <<base, made, of, gateway, browser, excused, broken, faults>>

Refresh(t) == tab[t] \in {"stale", "boot"} /\ Call(t, "refresh")
Logout(t) == tab[t] \in {"app", "stale"} /\ Call(t, "logout")

(* The page is loaded anew: the memory of the tab is gone, its call goes   *)
(* on without it.                                                          *)
Reload(t) ==
  /\ tab[t] \in {"app", "stale"}
  /\ Fault
  /\ tab' = [tab EXCEPT ![t] = "boot"]
  /\ req' = [r \in Requests |-> IF req[r].tab = t THEN [req[r] EXCEPT !.tab = NoTab] ELSE req[r]]
  /\ UNCHANGED <<base, made, of, gateway, jar, excused, broken>>

Done(r) == req' = [req EXCEPT ![r] = [NoRequest EXCEPT !.at = "done"]]

(* Mutant: every failed refresh clears the tab. *)
ShownStrict(r, outcome) == IF req[r].kind = "refresh" /\ outcome = "ok" THEN "app" ELSE "form"

(* What a tab does with the outcome of its call.  Only a refusal clears a  *)
(* tab at work; a tab that has just been loaded shows the form whatever    *)
(* went wrong, and a tab that leaves is cleared in any case.               *)
Shown(r, outcome) ==
  IF req[r].kind = "logout" \/ outcome = "refused" THEN "form"
  ELSE IF outcome = "ok" THEN "app"
  ELSE IF tab[req[r].tab] = "boot" THEN "form" ELSE tab[req[r].tab]

Receive(r) ==
  /\ req[r].at \in {"ok", "refused", "unavailable"}
  /\ IF req[r].tab = NoTab
     THEN UNCHANGED browser
     ELSE /\ tab' = [tab EXCEPT ![req[r].tab] = Shown(r, req[r].at)]
          /\ jar' = IF req[r].at # "ok" THEN jar ELSE req[r].got
  /\ Done(r)
  /\ UNCHANGED <<base, made, of, gateway, excused, broken, faults>>

(* The answer never reaches the tab: fetch fails.                          *)
Lose(r) ==
  /\ req[r].at \in {"ok", "refused", "unavailable"} /\ req[r].tab # NoTab
  /\ Fault
  /\ tab' = [tab EXCEPT ![req[r].tab] = Shown(r, "unavailable")]
  /\ Done(r)
  /\ UNCHANGED <<base, made, of, gateway, jar, excused, broken>>

-----------------------------------------------------------------------------
(* The gateway.                                                            *)

InRotation == {"rotating", "looking", "revoking", "loading", "barring", "joined"}
Rotated == {"loading", "barring"}   \* the row is rotated, the pair not remembered yet

(* The promise of a rotation settles: everybody who shares it is answered. *)
Settle(k, outcome, got) ==
  /\ rotating' = rotating \ {k}
  /\ req' = [q \in Requests |->
               IF req[q].token = k /\ req[q].at \in InRotation
               THEN [req[q] EXCEPT !.at = outcome, !.got = got] ELSE req[q]]

(* refresh up to its first await: a repeat within the window, a rotation   *)
(* to share, or a rotation of its own.                                     *)
Begin(r) ==
  /\ req[r].at = "sent" /\ req[r].kind = "refresh"
  /\ LET k == req[r].token IN
       IF k = 0 THEN Move(r, "refused") /\ UNCHANGED rotating
       ELSE IF recent[k] # 0
         THEN req' = [req EXCEPT ![r].at = "ok", ![r].got = recent[k]] /\ UNCHANGED rotating
       ELSE IF k \in rotating THEN Move(r, "joined") /\ UNCHANGED rotating
       ELSE Move(r, "rotating") /\ rotating' = rotating \cup {k}
  /\ UNCHANGED <<base, made, of, recent, browser, excused, broken, faults>>

Rotatable(k) == {s \in Sessions : row[s].token = k /\ ~row[s].revoked}
RotatedFrom(k) == {s \in Sessions : row[s].prev = k /\ ~row[s].revoked}

(* rotateSession: one UPDATE, so of two callers one gets the row.          *)
Rotate(r) ==
  /\ req[r].at = "rotating"
  /\ IF Rotatable(req[r].token) = {}
     THEN Move(r, "looking") /\ UNCHANGED <<row, made, of>>
     ELSE /\ made < MaxTokens /\ made' = made + 1
          /\ \E s \in Rotatable(req[r].token) :
               /\ row' = [row EXCEPT ![s].token = made + 1, ![s].prev = req[r].token]
               /\ of' = [of EXCEPT ![made + 1] = s]
          /\ req' = [req EXCEPT ![r].at = "loading", ![r].got = made + 1]
  /\ UNCHANGED <<disabled, gateway, browser, excused, broken, faults>>

(* The row was not there: a token rotated before is taken for a repeat     *)
(* outside the window, and its session is closed.                          *)
Look(r) ==
  /\ req[r].at = "looking"
  /\ IF RotatedFrom(req[r].token) = {}
     THEN Settle(req[r].token, "refused", 0)
     ELSE Move(r, "revoking") /\ UNCHANGED rotating
  /\ UNCHANGED <<base, made, of, recent, browser, excused, broken, faults>>

(* revokeSessionById, of a repeat or of a disabled user.                   *)
Revoke(r) ==
  /\ \/ req[r].at = "revoking" /\ row' = [s \in Sessions |->
           IF s \in RotatedFrom(req[r].token) THEN [row[s] EXCEPT !.revoked = TRUE] ELSE row[s]]
     \/ req[r].at = "barring" /\ row' = [row EXCEPT ![of[req[r].got]].revoked = TRUE]
  /\ Settle(req[r].token, "refused", 0)
  /\ UNCHANGED <<made, of, disabled, recent, browser, excused, broken, faults>>

(* Mutant: the pair is given out and not remembered. *)
LoadForgetting(r) ==
  /\ req[r].at = "loading"
  /\ IF disabled
     THEN Move(r, "barring") /\ UNCHANGED rotating
     ELSE Settle(req[r].token, "ok", req[r].got)
  /\ UNCHANGED <<base, made, of, recent, browser, excused, broken, faults>>

(* The user is read; the pair is remembered before it is given out.        *)
Load(r) ==
  /\ req[r].at = "loading"
  /\ IF disabled
     THEN Move(r, "barring") /\ UNCHANGED gateway
     ELSE /\ recent' = [recent EXCEPT ![req[r].token] = req[r].got]
          /\ Settle(req[r].token, "ok", req[r].got)
  /\ UNCHANGED <<base, made, of, browser, excused, broken, faults>>

BrokenOff(tokens) == excused' = excused \cup tokens /\ broken' = broken \cup tokens

(* withClient: whatever the database fails at is an answer 503.  A rotated *)
(* row whose pair was not remembered is a rotation nobody can repeat; so   *)
(* is one whose COMMIT lost its answer.                                    *)
Unavailable(r) ==
  /\ req[r].at \in InRotation \ {"joined"}
  /\ Fault
  /\ BrokenOff(IF req[r].at \in Rotated THEN {req[r].token} ELSE {})
  /\ Settle(req[r].token, "unavailable", 0)
  /\ UNCHANGED <<base, made, of, recent, browser>>

RotateUnknown(r) ==
  /\ req[r].at = "rotating" /\ made < MaxTokens
  /\ Fault
  /\ \E s \in Rotatable(req[r].token) :
       /\ row' = [row EXCEPT ![s].token = made + 1, ![s].prev = req[r].token]
       /\ of' = [of EXCEPT ![made + 1] = s]
  /\ made' = made + 1
  /\ BrokenOff({req[r].token})
  /\ Settle(req[r].token, "unavailable", 0)
  /\ UNCHANGED <<disabled, recent, browser>>

(* logout: the memory first, then every row that knows the token.          *)
Forget(r) ==
  /\ req[r].at = "sent" /\ req[r].kind = "logout"
  /\ LET k == req[r].token IN
       IF k = 0 THEN Move(r, "ok") /\ UNCHANGED <<recent, excused>>
       ELSE /\ Move(r, "closing")
            /\ recent' = [recent EXCEPT ![k] = 0]
            /\ excused' = excused \cup {k}
  /\ UNCHANGED <<base, made, of, rotating, browser, broken, faults>>

Close(r) ==
  /\ req[r].at = "closing"
  /\ row' = [s \in Sessions |->
               IF s \in Rotatable(req[r].token) \cup RotatedFrom(req[r].token)
               THEN [row[s] EXCEPT !.revoked = TRUE] ELSE row[s]]
  /\ Move(r, "ok")
  /\ UNCHANGED <<made, of, disabled, gateway, browser, excused, broken, faults>>

CloseFails(r) ==
  /\ req[r].at = "closing"
  /\ Fault
  /\ Move(r, "unavailable")
  /\ UNCHANGED <<base, made, of, gateway, browser, excused, broken>>

(* REFRESH_REUSE_WINDOW_MS is over for a pair: takeRecent drops it.        *)
WindowEnds(k) ==
  /\ recent[k] # 0
  /\ recent' = [recent EXCEPT ![k] = 0]
  /\ excused' = excused \cup {k}
  /\ UNCHANGED <<base, made, of, rotating, browser, broken, req, faults>>

(* A restart empties both maps and breaks every call.                      *)
Restart ==
  /\ Fault
  /\ recent' = [k \in Tokens |-> 0] /\ rotating' = {}
  /\ excused' = excused \cup {k \in Tokens : recent[k] # 0}
                        \cup {req[r].token : r \in {q \in Requests : req[q].at \in Rotated}}
  /\ req' = [r \in Requests |->
               IF req[r].at \in InRotation \cup {"sent", "closing"}
               THEN [req[r] EXCEPT !.at = "unavailable"] ELSE req[r]]
  /\ UNCHANGED <<base, made, of, browser, broken>>

Disable ==
  /\ ~disabled /\ disabled' = TRUE
  /\ Fault
  /\ UNCHANGED <<row, made, of, gateway, browser, req, excused, broken>>

-----------------------------------------------------------------------------
Serve(r) == Begin(r) \/ Rotate(r) \/ Look(r) \/ Revoke(r) \/ Load(r) \/ Forget(r) \/ Close(r)
Deliver(r) == Receive(r) \/ Lose(r)
Next ==
  \/ \E t \in Tabs : Login(t) \/ Expire(t) \/ Refresh(t) \/ Logout(t) \/ Reload(t)
  \/ \E r \in Requests : Serve(r) \/ Deliver(r) \/ Unavailable(r) \/ RotateUnknown(r) \/ CloseFails(r)
  \/ \E k \in Tokens : WindowEnds(k)
  \/ Restart \/ Disable

Spec == Init /\ [][Next]_vars

(* A gateway answers what reaches it, the browser hands the answer over.   *)
Fairness == \A r \in Requests : WF_vars(Serve(r)) /\ WF_vars(Receive(r))
FairSpec == Spec /\ Fairness

-----------------------------------------------------------------------------
TypeOK ==
  /\ row \in [Sessions -> [token : 0..made, prev : 0..made, revoked : BOOLEAN]]
  /\ made \in 0..MaxTokens /\ of \in [Tokens -> 0..MaxSessions]
  /\ recent \in [Tokens -> 0..made] /\ rotating \subseteq Tokens
  /\ jar \in 0..made /\ tab \in [Tabs -> {"form", "app", "stale", "boot"}]
  /\ req \in [Requests -> [tab : Tabs \cup {NoTab}, kind : {"refresh", "logout"}, token : 0..made,
                at : InRotation \cup {"none", "sent", "closing", "ok", "refused", "unavailable", "done"},
                got : 0..made]]

(* The person may not work any more, or the session of a token is closed,  *)
(* or the token cannot be repeated: its window is over, the gateway forgot *)
(* it or broke off in the middle of it.                                    *)
Spent(k) == k = 0 \/ disabled \/ k \in excused \/ row[of[k]].revoked

(* The cookie of the browser can be renewed: it is the token of its row,   *)
(* or was rotated and the gateway still gives out the pair it became, or   *)
(* is just finding it out.  Otherwise there is a reason, named above.      *)
CookieRenews ==
  /\ TypeOK
  /\ jar # 0 => \/ Spent(jar)
                \/ row[of[jar]].token = jar
                \/ recent[jar] # 0
                \/ \E r \in Requests : req[r].token = jar /\ req[r].at = "loading"

(* A tab at work is shown the form only because the person left or because *)
(* the token it presented was spent: two tabs refreshing together throw    *)
(* nobody out, nor does a call of the database that fails, unless it fails *)
(* between the rotation and the pair (see StorageClosesNoSession).         *)
ThrownOutForCause ==
  [][\A t \in Tabs : tab[t] \in {"app", "stale"} /\ tab'[t] = "form" =>
       \A r \in Requests :
         req[r].tab = t /\ req[r].kind = "refresh" => Spent(req[r].token)]_vars

Closes(s) == ~row[s].revoked /\ row'[s].revoked

(* By logout, or for a disabled user. *)
ClosedOnPurpose == \E r \in Requests : req[r].at \in {"closing", "barring"} /\ req'[r].at # req[r].at

(* A session is closed for a repeated token only if the pair could not be  *)
(* repeated any more, because the window is over, the person left, or the  *)
(* gateway or its database broke the rotation off.                         *)
ReuseIsReal ==
  [][\A s \in Sessions : Closes(s) => ClosedOnPurpose \/ row[s].prev \in excused]_vars

(* A fault of the database is not one of those reasons: "an unavailable    *)
(* storage must not look like a revoked session" (auth.service.ts:284).    *)
(* The code does not keep this: when loadUserById fails after              *)
(* rotateSession, or the answer of the UPDATE is lost, the repeat of the   *)
(* tab is taken for a stolen token.                                        *)
StorageClosesNoSession ==
  [][\A s \in Sessions : Closes(s) => ClosedOnPurpose \/ row[s].prev \notin broken]_vars

(* No call of a tab is under way, whoever it shares its rotation with.     *)
UnderWay(r) == req[r].at \notin {"none", "done"}
NoCall == \A r \in Requests : ~UnderWay(r)
===============================================================================
