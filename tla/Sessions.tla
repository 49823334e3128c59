------------------------------ MODULE Sessions ------------------------------
(***************************************************************************)
(* The sessions of one account of the panel: refresh tokens that rotate,   *)
(* and the tabs of several devices that log in, refresh, log out and       *)
(* change the password at the same time.  The tabs of a device share its   *)
(* cookie.  A request is one step for each statement it waits for, and one *)
(* more for its answer, which sets the cookie or is lost.                  *)
(***************************************************************************)
EXTENDS Naturals, FiniteSets

CONSTANTS
    Device,
    Tab, DeviceOf,  \* the tabs, one request each, and the device of each
    Token,          \* rows of refresh_tokens; bounds how many are issued
    MaxChanges,     \* bounds how often the password changes
    FaultKinds,     \* "db": a statement is rejected; "net": an answer is lost;
                    \* "theft": a cookie is copied to another device
    NoToken

ASSUME SessionsAssumption ==
    /\ DeviceOf \in [Tab -> Device]
    /\ MaxChanges \in Nat
    /\ FaultKinds \subseteq {"db", "net", "theft"}
    /\ NoToken \notin Token

VARIABLES
    active,     \* isActive
    password,   \* how many times passwordHash has changed
    row,        \* "none", "live", "expired" (expiresAt), "revoked" (revokedAt)
    cookie,     \* the refresh cookie of each device
    req,        \* what each tab's request is doing, with what it has read
    origin,     \* history: where the session of each token comes from
    excused     \* history: devices with a reason to have lost their session

userVars  == <<active, password>>
pastVars  == <<origin, excused>>
vars == <<userVars, row, cookie, req, pastVars>>

\* The first token of the session, the password it began with, and whether a
\* change of the password overtook the request that issued it.
NoOrigin == [root |-> NoToken, password |-> 0, late |-> FALSE]
Idle == [at |-> "idle", token |-> NoToken, origin |-> NoOrigin]

Live == {t \in Token : row[t] = "live"}
Open == {t \in Token : row[t] \in {"live", "expired"}}
Fresh == {t \in Token : row[t] = "none"}

TypeOK ==
    /\ active \in BOOLEAN
    /\ password \in 0..MaxChanges
    /\ row \in [Token -> {"none", "live", "expired", "revoked"}]
    /\ cookie \in [Device -> (Token \ Fresh) \cup {NoToken}]
    /\ LET Origin == [root : Token \cup {NoToken}, password : 0..MaxChanges, late : BOOLEAN] IN
       /\ origin \in [Token -> Origin]
       /\ req \in [Tab -> [at : {"idle", "rotate", "issue", "answer", "closeall", "change", "clear"},
                           token : Token \cup {NoToken}, origin : Origin]]
    /\ \A t \in Token : t \in Fresh <=> origin[t].root = NoToken
    /\ excused \subseteq Device

Init ==
    /\ active = TRUE
    /\ password = 0
    /\ row = [t \in Token |-> "none"]
    /\ cookie = [d \in Device |-> NoToken]
    /\ req = [r \in Tab |-> Idle]
    /\ origin = [t \in Token |-> NoOrigin]
    /\ excused = {}

InProgress(d) == {r \in Tab : DeviceOf[r] = d /\ req[r].at # "idle"}

\* A request begins.  Two requests of one device at a time are a reason to
\* lose the session: the second may present what the first has rotated.
Begin(r, step) ==
    /\ req[r].at = "idle"
    /\ req' = [req EXCEPT ![r] = step]
    /\ excused' = IF InProgress(DeviceOf[r]) = {} THEN excused
                  ELSE excused \cup {DeviceOf[r]}

Goto(r, step) == req' = [req EXCEPT ![r] = step]

-----------------------------------------------------------------------------
(* login and refresh.                                                      *)

\* The password is right and the account active; all else changes nothing.
Login(r) ==
    /\ active
    /\ Begin(r, [Idle EXCEPT !.at = "issue", !.origin.password = password])
    /\ UNCHANGED <<userVars, row, cookie, origin>>

\* A mutant: a revoked token is taken for a live one.
LenientRefreshStep(t) ==
    IF row[t] = "expired" THEN "idle" ELSE IF active THEN "rotate" ELSE "closeall"

\* What refresh decides on the row it reads, in the order of its conditions.
RefreshStep(t) ==
    IF row[t] = "revoked" THEN "closeall"
    ELSE IF row[t] = "expired" THEN "idle"
    ELSE IF active THEN "rotate"
    ELSE "closeall"

Refresh(r) ==
    LET t == cookie[DeviceOf[r]] IN  \* however the device came by it
    /\ t # NoToken
    /\ RefreshStep(t) # "idle"
    /\ Begin(r, IF RefreshStep(t) = "rotate"
                THEN [at |-> "rotate", token |-> t, origin |-> origin[t]]
                ELSE [Idle EXCEPT !.at = "closeall"])
    /\ UNCHANGED <<userVars, row, cookie, origin>>

\* No session goes on from a revoked token, so of its origin only the root is kept.
Revoke(T) ==
    /\ row' = [t \in Token |-> IF t \in T THEN "revoked" ELSE row[t]]
    /\ origin' = [t \in Token |-> IF t \in T THEN [NoOrigin EXCEPT !.root = origin[t].root]
                              ELSE origin[t]]

\* A mutant: a rotation revokes every token of the account.
RotatesAll(t) == Open

RevokedByRotation(t) == {t}

\* By id: also when it has been revoked since it was read.
Rotate(r) ==
    /\ req[r].at = "rotate"
    /\ Revoke(RevokedByRotation(req[r].token))
    /\ Goto(r, [req[r] EXCEPT !.at = "issue", !.token = NoToken])
    /\ UNCHANGED <<userVars, cookie, excused>>

\* A mutant: the new token is handed over and not saved.
NotSaved(t) == row

Saved(t) == [row EXCEPT ![t] = "live"]

\* issueSession, on the user as it was read.
Issue(r) ==
    /\ req[r].at = "issue"
    /\ \E t \in Fresh :
          /\ row' = Saved(t)
          /\ origin' = [origin EXCEPT ![t] =
                [req[r].origin EXCEPT !.root = IF @ = NoToken THEN t ELSE @]]
          /\ Goto(r, [Idle EXCEPT !.at = "answer", !.token = t])
    /\ UNCHANGED <<userVars, cookie, excused>>

\* completeSession.  A device that was excused starts anew with a live token.
SetCookie(r) ==
    LET d == DeviceOf[r] IN
    /\ req[r].at = "answer"
    /\ cookie' = [cookie EXCEPT ![d] = req[r].token]
    /\ Goto(r, Idle)
    /\ excused' = IF req[r].token \in Live /\ InProgress(d) = {r} THEN excused \ {d} ELSE excused
    /\ UNCHANGED <<userVars, row, origin>>

-----------------------------------------------------------------------------
(* The end of sessions.                                                    *)

\* A mutant: the tokens are left as they are.
ClosesNothing == {}

ClosesAll == Open

\* revokeAllSessions, after a reuse or for an account that is not active.
CloseAll(r) ==
    /\ req[r].at = "closeall"
    /\ Revoke(ClosesAll)
    /\ excused' = Device
    /\ Goto(r, Idle)
    /\ UNCHANGED <<userVars, cookie>>

Logout(r) ==
    LET t == cookie[DeviceOf[r]] IN
    /\ t # NoToken
    /\ Revoke({t})
    /\ Begin(r, [Idle EXCEPT !.at = "clear"])
    /\ UNCHANGED <<userVars, cookie>>

ClearCookie(r) ==
    /\ req[r].at = "clear"
    /\ cookie' = [cookie EXCEPT ![DeviceOf[r]] = NoToken]
    /\ Goto(r, Idle)
    /\ UNCHANGED <<userVars, row, pastVars>>

\* changePassword: the current one is right, which takes as long as bcrypt.  The
\* access token that it asks for is kept nowhere, and may outlive the cookie.
ChangeCheck(r) ==
    /\ active
    /\ Begin(r, [Idle EXCEPT !.at = "change"])
    /\ UNCHANGED <<userVars, row, cookie, origin>>

\* Logins and refreshes that have read what is now old.
Overtaken == [r \in Tab |-> IF req[r].at \in {"rotate", "issue"}
                            THEN [req[r] EXCEPT !.origin.late = TRUE] ELSE req[r]]

\* A new password and no session left, in one transaction.
NewPassword ==
    /\ password < MaxChanges
    /\ password' = password + 1
    /\ Revoke(ClosesAll)
    /\ excused' = Device

ChangePassword(r) ==
    /\ req[r].at = "change"
    /\ NewPassword
    /\ req' = [Overtaken EXCEPT ![r] = Idle]
    /\ UNCHANGED <<active, cookie>>

-----------------------------------------------------------------------------
(* What happens to requests and to the account from outside.               *)

\* A statement is rejected: the request ends with what it has done.
StatementFails(r) ==
    /\ "db" \in FaultKinds
    /\ req[r].at \in {"rotate", "issue", "closeall", "change"}
    /\ excused' = excused \cup {DeviceOf[r]}
    /\ Goto(r, Idle)
    /\ UNCHANGED <<userVars, row, cookie, origin>>

\* The tokens are in the database, the cookie stays as it was.
AnswerLost(r) ==
    /\ "net" \in FaultKinds
    /\ req[r].at \in {"answer", "clear"}
    /\ excused' = excused \cup {DeviceOf[r]}
    /\ Goto(r, Idle)
    /\ UNCHANGED <<userVars, row, cookie, origin>>

\* A token is presented from a device to which it was not given: refresh and
\* logout take any raw token.  Either of the two may now rotate it away from
\* the other.
TokenStolen(d) ==
    /\ "theft" \in FaultKinds
    /\ \E e \in Device \ {d} :
          /\ cookie[e] # NoToken
          /\ cookie' = [cookie EXCEPT ![d] = cookie[e]]
          /\ excused' = excused \cup {d, e}
    /\ UNCHANGED <<userVars, row, req, origin>>

\* 7 days.  Only a token that a device holds is presented again.
Expires(t) ==
    /\ row[t] = "live"
    /\ \E d \in Device : cookie[d] = t
    /\ row' = [row EXCEPT ![t] = "expired"]
    /\ UNCHANGED <<userVars, cookie, req, pastVars>>

\* In the database, by hand.
Deactivate ==
    /\ active /\ active' = FALSE
    /\ UNCHANGED <<password, row, cookie, req, pastVars>>

\* The script set-admin-password.
SetPassword ==
    /\ NewPassword
    /\ active' = TRUE
    /\ req' = Overtaken
    /\ UNCHANGED cookie

Request(r) ==
    \/ Login(r) \/ Refresh(r) \/ Rotate(r) \/ Issue(r) \/ SetCookie(r)
    \/ CloseAll(r) \/ Logout(r) \/ ClearCookie(r)
    \/ ChangeCheck(r) \/ ChangePassword(r)
    \/ StatementFails(r) \/ AnswerLost(r)

Next ==
    \/ \E r \in Tab : Request(r)
    \/ \E d \in Device : TokenStolen(d)
    \/ \E t \in Token : Expires(t)
    \/ Deactivate
    \/ SetPassword

Spec == Init /\ [][Next]_vars

-----------------------------------------------------------------------------
(* Properties.                                                             *)

\* The session that began with token s has no live token and no request that
\* still took one of its tokens for live.
Ended(s) ==
    /\ \A t \in Live : origin[t].root # s
    /\ \A r \in Tab : req[r].origin.root # s

\* A session that ended, by a logout, a reuse, a change of password or a failed
\* rotation, is over: no request brings it back (auth.service.ts:87-91).
EndedStaysEnded ==
    [][\A s \in Token : row[s] # "none" /\ Ended(s) => Ended(s)']_vars

\* A change of the password leaves no session of the old one, however its
\* tokens rotate afterwards, but those of logins and refreshes that were under
\* way at that moment (auth.service.ts:169-171).
PasswordEndsSessions ==
    \A t \in Live : origin[t].password # password => origin[t].late

\* The price of closing every session on a reuse: a device that has one request
\* at a time, gets its answers and whose token nobody else has got hold of keeps
\* a token that works, whatever the others present, stolen tokens that were
\* rotated since among them, until all sessions are closed; and again from its
\* next login or refresh on (auth.service.ts:87-91).
LoneTabStaysIn ==
    \A d \in Device \ excused :
        InProgress(d) = {} => cookie[d] \in Open \cup {NoToken}

\* Does not hold, and no run checks it: a session has one live token
\* (schema.prisma:184-185). Two tabs that refresh at once break it.
OneLiveTokenEach ==
    \A s, t \in Live : origin[s].root = origin[t].root => s = t
=============================================================================
