--------------------------- MODULE SessionsProofs ---------------------------
(***************************************************************************)
(* Sessions of an account, for any devices, tabs, tokens and changes of    *)
(* the password, and whatever fails.                                       *)
(***************************************************************************)
EXTENDS Sessions, TLAPS

\* A request that rotates or answers has a token that was issued.
TokensAreIssued ==
    \A r \in Tab :
        /\ req[r].at \in {"rotate", "answer"} => req[r].token \in Token \ Fresh
        /\ req[r].at \notin {"rotate", "answer"} => req[r].token = NoToken

\* What a login or a refresh has read of the password is current, or it knows
\* that it was overtaken.
RequestsKnowThePassword ==
    \A r \in Tab : req[r].at \in {"rotate", "issue"} =>
        req[r].origin.password = password \/ req[r].origin.late

\* A device has a token in its cookie or on its way from or to it.
Holds(d, t) ==
    cookie[d] = t \/ \E r \in Tab : DeviceOf[r] = d /\ req[r].token = t

\* The token of a device without an excuse is held by no other.
OneDeviceEach ==
    \A t \in Token, d \in Device \ excused, e \in Device : Holds(d, t) /\ Holds(e, t) => d = e

\* A token on its way to a device is in no cookie, and in no other request.
AnswersAreNew ==
    \A r \in Tab : req[r].at = "answer" =>
        /\ \A d \in Device : cookie[d] # req[r].token
        /\ \A q \in Tab : q # r => req[q].token # req[r].token

\* A device without an excuse has one request at a time, which ends with a
\* token that works.
LoneRequests ==
    \A d \in Device \ excused : \A r \in InProgress(d) :
        /\ InProgress(d) = {r}
        /\ req[r].at = "answer" => req[r].token \in Open

SessionInv ==
    /\ TypeOK
    /\ TokensAreIssued
    /\ RequestsKnowThePassword
    /\ PasswordEndsSessions
    /\ OneDeviceEach
    /\ AnswersAreNew
    /\ LoneRequests
    /\ LoneTabStaysIn

-----------------------------------------------------------------------------
(* Types.                                                                  *)

Origins == [root : Token \cup {NoToken}, password : 0..MaxChanges, late : BOOLEAN]

Steps == {"idle", "rotate", "issue", "answer", "closeall", "change", "clear"}

LEMMA NoOriginIs == NoOrigin \in Origins /\ Idle.origin \in Origins /\ Idle.at = "idle"
  BY SessionsAssumption DEF NoOrigin, Origins, Idle

Requests == [at : Steps, token : Token \cup {NoToken}, origin : Origins]

\* TypeOK with its types named.
Typed ==
    /\ active \in BOOLEAN
    /\ password \in 0..MaxChanges
    /\ row \in [Token -> {"none", "live", "expired", "revoked"}]
    /\ cookie \in [Device -> (Token \ Fresh) \cup {NoToken}]
    /\ origin \in [Token -> Origins]
    /\ req \in [Tab -> Requests]
    /\ \A t \in Token : t \in Fresh <=> origin[t].root = NoToken
    /\ excused \subseteq Device

LEMMA Types == (TypeOK <=> Typed) /\ (TypeOK' <=> Typed')
  BY DEF TypeOK, Typed, Origins, Steps, Requests

\* Revoking tokens that were issued keeps the types of the table.
LEMMA RevokeTypes ==
    ASSUME TypeOK, NEW T \in SUBSET (Token \ Fresh), Revoke(T)
    PROVE  /\ row' \in [Token -> {"none", "live", "expired", "revoked"}]
           /\ origin' \in [Token -> Origins]
           /\ Fresh' = Fresh
           /\ \A t \in Token : origin'[t].root = origin[t].root
           /\ \A t \in Token : t \in Fresh' <=> origin'[t].root = NoToken
<1>1. row' \in [Token -> {"none", "live", "expired", "revoked"}] /\ Fresh' = Fresh
  BY Types DEF Typed, Revoke, Fresh
<1>2. origin' \in [Token -> Origins] /\ \A t \in Token : origin'[t].root = origin[t].root
  BY Types, NoOriginIs DEF Typed, Revoke, Origins, NoOrigin
<1>. QED  BY <1>1, <1>2, Types DEF Typed

\* What a request does next is a request again.
LEMMA RequestTypes ==
    ASSUME TypeOK
    PROVE  /\ \A at \in Steps : [Idle EXCEPT !.at = at] \in Requests
           /\ \A at \in Steps, t \in Token : [Idle EXCEPT !.at = at, !.token = t] \in Requests
           /\ [Idle EXCEPT !.at = "issue", !.origin.password = password] \in Requests
           /\ \A t \in Token : [at |-> "rotate", token |-> t, origin |-> origin[t]] \in Requests
           /\ \A q \in Requests : [q EXCEPT !.at = "issue", !.token = NoToken] \in Requests
           /\ \A q \in Requests : [q EXCEPT !.origin.late = TRUE] \in Requests
           /\ \A q \in Requests, t \in Token :
                 [q.origin EXCEPT !.root = IF @ = NoToken THEN t ELSE @] \in Origins
           /\ Idle \in Requests
<1>. USE SessionsAssumption, Types DEF Typed, Requests, Steps, Origins
<1>1. Idle \in Requests
  BY NoOriginIs DEF Idle
<1>2. [Idle EXCEPT !.at = "issue", !.origin.password = password] \in Requests
  BY <1>1
<1>3. \A at \in Steps : [Idle EXCEPT !.at = at] \in Requests
  BY <1>1
<1>4. \A at \in Steps, t \in Token : [Idle EXCEPT !.at = at, !.token = t] \in Requests
  BY <1>1
<1>5. \A t \in Token : [at |-> "rotate", token |-> t, origin |-> origin[t]] \in Requests
  OBVIOUS
<1>6. \A q \in Requests : [q EXCEPT !.at = "issue", !.token = NoToken] \in Requests
  OBVIOUS
<1>7. \A q \in Requests : [q EXCEPT !.origin.late = TRUE] \in Requests
  OBVIOUS
<1>8. \A q \in Requests, t \in Token :
          [q.origin EXCEPT !.root = IF @ = NoToken THEN t ELSE @] \in Origins
  OBVIOUS
<1>. QED  BY <1>1, <1>2, <1>3, <1>4, <1>5, <1>6, <1>7, <1>8

LEMMA TypeStep ==
    ASSUME SessionInv, [Next]_vars
    PROVE  TypeOK'
<1>. TypeOK /\ Typed
  BY Types DEF SessionInv
<1>. SUFFICES Typed'
  BY Types
<1>. USE SessionsAssumption DEF Typed, userVars, pastVars
<1>1. ASSUME NEW r \in Tab, Login(r) \/ ChangeCheck(r)
      PROVE  Typed'
  <2>1. PICK n \in Requests : Begin(r, n)
    BY <1>1, RequestTypes DEF Login, ChangeCheck, Steps
  <2>2. req' \in [Tab -> Requests] /\ excused' \subseteq Device
    BY <2>1 DEF Begin
  <2>. QED  BY <1>1, <2>2 DEF Login, ChangeCheck, Fresh
<1>2. ASSUME NEW r \in Tab, Refresh(r)
      PROVE  Typed'
  <2>1. req' \in [Tab -> Requests] /\ excused' \subseteq Device
    BY <1>2, RequestTypes DEF Refresh, Begin, Steps
  <2>. QED  BY <1>2, <2>1 DEF Refresh, Fresh
<1>3. ASSUME NEW r \in Tab, Rotate(r)
      PROVE  Typed'
  <2>1. {req[r].token} \in SUBSET (Token \ Fresh)
    BY <1>3 DEF Rotate, SessionInv, TokensAreIssued
  <2>. QED  BY <1>3, <2>1, RevokeTypes, RequestTypes DEF Rotate, RevokedByRotation, Goto
<1>4. ASSUME NEW r \in Tab, Issue(r)
      PROVE  Typed'
  <2>1. PICK t \in Fresh :
            /\ row' = Saved(t)
            /\ origin' = [origin EXCEPT ![t] =
                  [req[r].origin EXCEPT !.root = IF @ = NoToken THEN t ELSE @]]
            /\ Goto(r, [Idle EXCEPT !.at = "answer", !.token = t])
    BY <1>4 DEF Issue
  <2>2. req' \in [Tab -> Requests]
    BY <2>1, RequestTypes DEF Goto, Steps, Fresh
  <2>3. origin' \in [Token -> Origins]
    BY <2>1, RequestTypes DEF Fresh
  <2>4. row' \in [Token -> {"none", "live", "expired", "revoked"}] /\ Fresh' = Fresh \ {t}
    BY <2>1 DEF Fresh, Saved
  <2>5. origin'[t].root # NoToken /\ \A u \in Token \ {t} : origin'[u] = origin[u]
    <3>1. req[r].origin \in Origins /\ t \in Token
      BY DEF Requests, Fresh
    <3>2. [req[r].origin EXCEPT !.root = IF @ = NoToken THEN t ELSE @].root # NoToken
      BY <3>1 DEF Origins
    <3>. QED  BY <2>1, <3>1, <3>2
  <2>. QED  BY <1>4, <2>2, <2>3, <2>4, <2>5 DEF Issue
<1>5. ASSUME NEW r \in Tab, SetCookie(r)
      PROVE  Typed'
  BY <1>5, RequestTypes DEF SetCookie, Goto, Fresh, SessionInv, TokensAreIssued
<1>6. ASSUME NEW r \in Tab, CloseAll(r)
      PROVE  Typed'
  <2>1. ClosesAll \in SUBSET (Token \ Fresh)
    BY DEF ClosesAll, Open, Fresh
  <2>. QED  BY <1>6, <2>1, RevokeTypes, RequestTypes DEF CloseAll, Goto
<1>7. ASSUME NEW r \in Tab, Logout(r)
      PROVE  Typed'
  <2>1. {cookie[DeviceOf[r]]} \in SUBSET (Token \ Fresh)
    BY <1>7 DEF Logout
  <2>2. req' \in [Tab -> Requests] /\ excused' \subseteq Device
    BY <1>7, RequestTypes DEF Logout, Begin, Steps
  <2>3. Revoke({cookie[DeviceOf[r]]}) /\ UNCHANGED <<userVars, cookie>>
    BY <1>7 DEF Logout
  <2>. QED  BY <2>1, <2>2, <2>3, RevokeTypes
<1>8. ASSUME NEW r \in Tab, ClearCookie(r) \/ StatementFails(r) \/ AnswerLost(r)
      PROVE  Typed'
  <2>1. req' \in [Tab -> Requests] /\ cookie' \in [Device -> (Token \ Fresh) \cup {NoToken}]
    BY <1>8, RequestTypes DEF ClearCookie, StatementFails, AnswerLost, Goto
  <2>. QED  BY <1>8, <2>1 DEF ClearCookie, StatementFails, AnswerLost, Fresh
<1>9. ASSUME NewPassword
      PROVE  /\ password' \in 0..MaxChanges
             /\ row' \in [Token -> {"none", "live", "expired", "revoked"}]
             /\ origin' \in [Token -> Origins]
             /\ Fresh' = Fresh
             /\ \A t \in Token : t \in Fresh' <=> origin'[t].root = NoToken
             /\ excused' \subseteq Device
  <2>1. ClosesAll \in SUBSET (Token \ Fresh)
    BY DEF ClosesAll, Open, Fresh
  <2>2. Revoke(ClosesAll) /\ password' \in 0..MaxChanges /\ excused' = Device
    BY <1>9 DEF NewPassword
  <2>. QED  BY <2>1, <2>2, RevokeTypes
<1>10. Overtaken \in [Tab -> Requests]
  BY RequestTypes DEF Overtaken
<1>11. ASSUME NEW r \in Tab, ChangePassword(r)
       PROVE  Typed'
  BY <1>9, <1>10, <1>11, RequestTypes DEF ChangePassword
<1>12. CASE SetPassword
  BY <1>9, <1>10, <1>12 DEF SetPassword
<1>13. ASSUME NEW t \in Token, Expires(t)
       PROVE  Typed'
  BY <1>13 DEF Expires, Fresh
<1>14. CASE Deactivate \/ UNCHANGED vars
  BY <1>14 DEF Deactivate, vars, Fresh
<1>15. ASSUME NEW d \in Device, TokenStolen(d)
       PROVE  Typed'
  BY <1>15 DEF TokenStolen, Fresh
<1>. QED
  BY <1>1, <1>2, <1>3, <1>4, <1>5, <1>6, <1>7, <1>8, <1>11, <1>12, <1>13, <1>14, <1>15
     DEF Next, Request

-----------------------------------------------------------------------------
(* What a step does to a token, and to a request.                          *)

\* A token is issued by a request, expires, or is revoked: with all the others,
\* by the rotation that holds it, or by a logout on its device.
TokenMoves(t) ==
    \/ row'[t] = row[t] /\ origin'[t] = origin[t]
    \/ /\ row[t] = "none" /\ row'[t] = "live"
       /\ \E r \in Tab :
             /\ req[r].at = "issue"
             /\ req'[r].at = "answer" /\ req'[r].token = t
             /\ origin'[t] = [req[r].origin EXCEPT !.root = IF @ = NoToken THEN t ELSE @]
    \/ row[t] = "live" /\ row'[t] = "expired" /\ origin'[t] = origin[t]
    \/ /\ row[t] # "none" /\ row'[t] = "revoked"
       /\ origin'[t] = [NoOrigin EXCEPT !.root = origin[t].root]
       /\ \/ excused' = Device
          \/ \E r \in Tab : req[r].at = "rotate" /\ req[r].token = t /\ req'[r].at = "issue"
          \/ \E r \in Tab : /\ cookie[DeviceOf[r]] = t
                            /\ req[r].at = "idle" /\ req'[r].at = "clear"

LEMMA TokensMove ==
    ASSUME SessionInv, [Next]_vars, NEW t \in Token
    PROVE  TokenMoves(t)
<1>. Typed /\ TokensAreIssued
  BY Types DEF SessionInv
<1>. USE SessionsAssumption DEF TokenMoves, userVars, pastVars
<1>1. CASE UNCHANGED <<row, origin>>
  BY <1>1
<1>2. ASSUME NEW r \in Tab, Rotate(r)
      PROVE  TokenMoves(t)
  <2>1. req'[r].at = "issue"
    BY <1>2 DEF Rotate, Goto, Typed, Requests
  <2>. QED
    BY <1>2, <2>1 DEF Rotate, RevokedByRotation, Revoke, TokensAreIssued, Typed, Fresh
<1>3. ASSUME NEW r \in Tab, Issue(r)
      PROVE  TokenMoves(t)
  <2>1. PICK u \in Fresh :
            /\ row' = Saved(u)
            /\ origin' = [origin EXCEPT ![u] =
                  [req[r].origin EXCEPT !.root = IF @ = NoToken THEN u ELSE @]]
            /\ Goto(r, [Idle EXCEPT !.at = "answer", !.token = u])
    BY <1>3 DEF Issue
  <2>2. req'[r].at = "answer" /\ req'[r].token = u
    BY <2>1 DEF Goto, Typed, Idle
  <2>. QED  BY <1>3, <2>1, <2>2 DEF Issue, Saved, Typed, Fresh
<1>4. ASSUME NEW r \in Tab, Logout(r)
      PROVE  TokenMoves(t)
  <2>1. req[r].at = "idle" /\ req'[r].at = "clear"
    BY <1>4 DEF Logout, Begin, Typed, Idle
  <2>. QED  BY <1>4, <2>1 DEF Logout, Revoke, Typed, Fresh
<1>5. ASSUME NEW r \in Tab, CloseAll(r) \/ ChangePassword(r)
      PROVE  TokenMoves(t)
  BY <1>5 DEF CloseAll, ChangePassword, NewPassword, Revoke, ClosesAll, Open
<1>6. CASE SetPassword
  BY <1>6 DEF SetPassword, NewPassword, Revoke, ClosesAll, Open
<1>7. ASSUME NEW u \in Token, Expires(u)
      PROVE  TokenMoves(t)
  BY <1>7 DEF Expires, Typed
<1>8. ASSUME NEW r \in Tab,
             \/ Login(r) \/ Refresh(r) \/ SetCookie(r) \/ ClearCookie(r) \/ ChangeCheck(r)
             \/ StatementFails(r) \/ AnswerLost(r)
      PROVE  TokenMoves(t)
  BY <1>1, <1>8 DEF Login, Refresh, SetCookie, ClearCookie, ChangeCheck, StatementFails,
                    AnswerLost
<1>9. CASE Deactivate \/ (\E d \in Device : TokenStolen(d)) \/ UNCHANGED vars
  BY <1>1, <1>9 DEF Deactivate, TokenStolen, vars
<1>. QED
  BY <1>2, <1>3, <1>4, <1>5, <1>6, <1>7, <1>8, <1>9 DEF Next, Request

OnlyGoesOn(r) == \A q \in Tab : q # r => req'[q] = req[q]

\* A request goes on as it was, is overtaken, ends, begins with what it reads,
\* or takes its next step.
RequestMoves(r) ==
    \/ req'[r] = req[r] /\ password' = password
    \/ /\ req'[r].at = req[r].at /\ req'[r].token = req[r].token
       /\ req'[r].origin.root = req[r].origin.root
       /\ req[r].at \in {"rotate", "issue"} => req'[r].origin.late
       /\ Live' = {}
    \/ req'[r] = Idle /\ req[r].at # "idle"
    \/ /\ password' = password /\ req[r].at = "idle"
       /\ InProgress(DeviceOf[r]) = {} \/ DeviceOf[r] \in excused'
       /\ \/ /\ req'[r].at = "issue" /\ req'[r].token = NoToken
             /\ req'[r].origin = [NoOrigin EXCEPT !.password = password]
          \/ /\ req'[r].at = "rotate" /\ req'[r].token = cookie[DeviceOf[r]]
             /\ req'[r].token \in Live /\ req'[r].origin = origin[req'[r].token]
          \/ /\ req'[r].at \in {"closeall", "clear", "change"} /\ req'[r].token = NoToken
             /\ req'[r].origin = NoOrigin
    \/ /\ password' = password /\ req[r].at = "rotate"
       /\ req'[r].at = "issue" /\ req'[r].token = NoToken /\ req'[r].origin = req[r].origin
    \/ /\ req[r].at = "issue" /\ req'[r].at = "answer" /\ OnlyGoesOn(r)
       /\ req'[r].token \in Fresh \cap Live' /\ req'[r].origin = NoOrigin

LEMMA RequestsMove ==
    ASSUME SessionInv, [Next]_vars, NEW r \in Tab
    PROVE  RequestMoves(r)
<1>. TypeOK /\ Typed
  BY Types DEF SessionInv
<1>. USE SessionsAssumption DEF RequestMoves, Typed, userVars, pastVars
<1>1. CASE req' = req /\ password' = password
  BY <1>1
<1>2. ASSUME NEW q \in Tab, Login(q)
      PROVE  RequestMoves(r)
  BY <1>2 DEF Login, Begin, Idle, NoOrigin
<1>3. ASSUME NEW q \in Tab, Refresh(q)
      PROVE  RequestMoves(r)
  BY <1>3 DEF Refresh, RefreshStep, Begin, Idle, Live, Fresh
<1>4. ASSUME NEW q \in Tab, Rotate(q)
      PROVE  RequestMoves(r)
  BY <1>4 DEF Rotate, Goto, Requests
<1>5. ASSUME NEW q \in Tab, Issue(q)
      PROVE  RequestMoves(r)
  <2>1. q = r => OnlyGoesOn(r)
    BY <1>5 DEF Issue, Goto, OnlyGoesOn
  <2>. QED  BY <1>5, <2>1 DEF Issue, Saved, Goto, Idle, Live, Fresh
<1>6. ASSUME NEW q \in Tab, Logout(q) \/ ChangeCheck(q)
      PROVE  RequestMoves(r)
  BY <1>6 DEF Logout, ChangeCheck, Begin, Idle
<1>7. ASSUME NEW q \in Tab, SetCookie(q) \/ CloseAll(q) \/ ClearCookie(q)
                              \/ StatementFails(q) \/ AnswerLost(q)
      PROVE  RequestMoves(r)
  BY <1>7 DEF SetCookie, CloseAll, ClearCookie, StatementFails, AnswerLost, Goto
<1>8. ASSUME NewPassword, req'[r] = Overtaken[r]
      PROVE  RequestMoves(r)
  <2>1. Live' = {}
    BY <1>8 DEF NewPassword, Revoke, ClosesAll, Open, Live
  <2>. QED  BY <1>8, <2>1 DEF Overtaken, Requests, Origins
<1>9. ASSUME NEW q \in Tab, ChangePassword(q)
      PROVE  RequestMoves(r)
  <2>1. CASE q = r
    BY <1>9, <2>1 DEF ChangePassword, Overtaken
  <2>2. CASE q # r
    BY <1>8, <1>9, <2>2 DEF ChangePassword, Overtaken
  <2>. QED  BY <2>1, <2>2
<1>10. CASE SetPassword
  BY <1>8, <1>10 DEF SetPassword
<1>11. CASE \/ Deactivate \/ UNCHANGED vars
            \/ (\E t \in Token : Expires(t)) \/ (\E d \in Device : TokenStolen(d))
  BY <1>1, <1>11 DEF Deactivate, Expires, TokenStolen, vars
<1>. QED
  BY <1>2, <1>3, <1>4, <1>5, <1>6, <1>7, <1>9, <1>10, <1>11 DEF Next, Request

\* The password changes only where no session is left.
LEMMA PasswordMoves ==
    ASSUME SessionInv, [Next]_vars
    PROVE  password' = password \/ Live' = {}
<1>1. ASSUME NewPassword
      PROVE  Live' = {}
  BY <1>1 DEF NewPassword, Revoke, ClosesAll, Open, Live
<1>2. (\E r \in Tab : ChangePassword(r)) \/ SetPassword \/ password' = password
  BY DEF Next, Request, Login, Refresh, Rotate, Issue, SetCookie, CloseAll, Logout,
         ClearCookie, ChangeCheck, StatementFails, AnswerLost, TokenStolen, Expires,
         Deactivate, vars, userVars
<1>. QED  BY <1>1, <1>2 DEF ChangePassword, SetPassword

\* What is issued stays issued.
LEMMA FreshShrinks ==
    ASSUME SessionInv, [Next]_vars
    PROVE  Fresh' \subseteq Fresh
  BY TokensMove, Types DEF TokenMoves, Fresh, SessionInv, Typed

LEMMA IssuedStep ==
    ASSUME SessionInv, [Next]_vars
    PROVE  TokensAreIssued'
<1>. SUFFICES ASSUME NEW r \in Tab
              PROVE  /\ req'[r].at \in {"rotate", "answer"} => req'[r].token \in Token \ Fresh'
                     /\ req'[r].at \notin {"rotate", "answer"} => req'[r].token = NoToken
  BY DEF TokensAreIssued
<1>1. RequestMoves(r) /\ Fresh' \subseteq Fresh /\ TokensAreIssued
  BY RequestsMove, FreshShrinks DEF SessionInv
<1>. QED  BY <1>1 DEF RequestMoves, TokensAreIssued, Idle, Live, Fresh

LEMMA KnownPasswordStep ==
    ASSUME SessionInv, [Next]_vars
    PROVE  RequestsKnowThePassword'
<1>. SUFFICES ASSUME NEW r \in Tab, req'[r].at \in {"rotate", "issue"}
              PROVE  req'[r].origin.password = password' \/ req'[r].origin.late
  BY DEF RequestsKnowThePassword
<1>1. RequestMoves(r) /\ RequestsKnowThePassword /\ PasswordEndsSessions
  BY RequestsMove DEF SessionInv
<1>2. [NoOrigin EXCEPT !.password = password].password = password
  BY DEF NoOrigin
<1>. QED  BY <1>1, <1>2 DEF RequestMoves, RequestsKnowThePassword, PasswordEndsSessions,
                                 Idle, NoOrigin

LEMMA OldPasswordStep ==
    ASSUME SessionInv, [Next]_vars
    PROVE  PasswordEndsSessions'
<1>. SUFFICES ASSUME NEW t \in Live', origin'[t].password # password'
              PROVE  origin'[t].late
  BY DEF PasswordEndsSessions
<1>1. t \in Token /\ row'[t] = "live" /\ TokenMoves(t) /\ Typed
  BY TokensMove, Types DEF Live, SessionInv
<1>2. password' = password
  BY PasswordMoves
<1>3. CASE row'[t] = row[t] /\ origin'[t] = origin[t]
  BY <1>1, <1>2, <1>3 DEF Live, SessionInv, PasswordEndsSessions
<1>4. ASSUME NEW r \in Tab, req[r].at = "issue",
             origin'[t] = [req[r].origin EXCEPT !.root = IF @ = NoToken THEN t ELSE @]
      PROVE  origin'[t].late
  <2>1. req[r].origin \in Origins
    BY <1>1 DEF Typed, Requests
  <2>2. origin'[t].password = req[r].origin.password /\ origin'[t].late = req[r].origin.late
    BY <1>4, <2>1 DEF Origins
  <2>. QED  BY <1>2, <1>4, <2>2 DEF SessionInv, RequestsKnowThePassword
<1>. QED  BY <1>1, <1>3, <1>4 DEF TokenMoves

-----------------------------------------------------------------------------
(* Tokens and devices.                                                     *)

\* What a step does to the devices that hold a token: the device that issues it
\* is the first, and the only one; a theft leaves the two devices an excuse.
HoldersMove(t) ==
    \/ \A d \in Device : Holds(d, t)' => Holds(d, t)
    \/ \E d, e \in Device :
          /\ excused' = excused \cup {d, e} /\ Holds(e, t)
          /\ \A f \in Device : Holds(f, t)' => f = d \/ Holds(f, t)
    \/ t \in Fresh /\ \E d \in Device : \A e \in Device : Holds(e, t)' => e = d

LEMMA FreshIsHeldByNone ==
    ASSUME TypeOK, TokensAreIssued, NEW t \in Fresh, NEW d \in Device
    PROVE  ~Holds(d, t)
  BY Types, SessionsAssumption DEF Typed, TokensAreIssued, Holds, Fresh

LEMMA HoldersMoves ==
    ASSUME SessionInv, [Next]_vars, NEW t \in Token
    PROVE  HoldersMove(t)
<1>. TypeOK /\ Typed /\ TokensAreIssued
  BY Types DEF SessionInv
<1>. USE SessionsAssumption DEF HoldersMove, Typed
<1>1. ASSUME \A r \in Tab : req'[r].token \in {req[r].token, NoToken, cookie[DeviceOf[r]]},
             \A d \in Device :
                \/ cookie'[d] \in {cookie[d], NoToken}
                \/ \E r \in Tab : DeviceOf[r] = d /\ cookie'[d] = req[r].token
      PROVE  HoldersMove(t)
  BY <1>1 DEF Holds
<1>2. ASSUME NEW r \in Tab, Issue(r)
      PROVE  HoldersMove(t)
  <2>1. PICK u \in Fresh : Goto(r, [Idle EXCEPT !.at = "answer", !.token = u])
    BY <1>2 DEF Issue
  <2>2. cookie' = cookie /\ OnlyGoesOn(r) /\ req'[r].token = u
    BY <1>2, <2>1 DEF Issue, Goto, OnlyGoesOn, Idle
  <2>3. CASE t = u
    <3>1. \A e \in Device : ~Holds(e, t)
      BY <2>3, FreshIsHeldByNone
    <3>2. \A e \in Device : Holds(e, t)' => e = DeviceOf[r]
      BY <2>2, <3>1 DEF Holds, OnlyGoesOn
    <3>. QED  BY <2>3, <3>2
  <2>4. CASE t # u
    BY <2>2, <2>4 DEF Holds, OnlyGoesOn
  <2>. QED  BY <2>3, <2>4
<1>3. ASSUME NEW r \in Tab, SetCookie(r)
      PROVE  HoldersMove(t)
  BY <1>1, <1>3 DEF SetCookie, Goto, Idle
<1>4. ASSUME NEW r \in Tab, UNCHANGED cookie \/ ClearCookie(r),
             req'[r].token \in {req[r].token, NoToken, cookie[DeviceOf[r]]}, OnlyGoesOn(r)
      PROVE  HoldersMove(t)
  BY <1>1, <1>4 DEF ClearCookie, OnlyGoesOn
<1>5. ASSUME NEW r \in Tab, Login(r) \/ Refresh(r) \/ Logout(r) \/ ChangeCheck(r)
      PROVE  HoldersMove(t)
  <2>1. OnlyGoesOn(r) /\ UNCHANGED cookie
    BY <1>5 DEF Login, Refresh, Logout, ChangeCheck, Begin, OnlyGoesOn
  <2>2. req'[r].token \in {NoToken, cookie[DeviceOf[r]]}
    <3>1. CASE Login(r)
      BY <3>1 DEF Login, Begin, Idle, NoOrigin
    <3>2. CASE Logout(r) \/ ChangeCheck(r)
      BY <3>2 DEF Logout, ChangeCheck, Begin, Idle
    <3>3. CASE Refresh(r)
      BY <3>3 DEF Refresh, Begin, Idle
    <3>. QED  BY <1>5, <3>1, <3>2, <3>3
  <2>. QED  BY <1>4, <2>1, <2>2
<1>6. ASSUME NEW r \in Tab,
             \/ Rotate(r) \/ CloseAll(r) \/ ClearCookie(r) \/ StatementFails(r) \/ AnswerLost(r)
      PROVE  HoldersMove(t)
  <2>1. OnlyGoesOn(r) /\ (UNCHANGED cookie \/ ClearCookie(r))
    BY <1>6 DEF Rotate, CloseAll, StatementFails, AnswerLost, Goto, OnlyGoesOn, ClearCookie
  <2>2. req'[r].token = NoToken
    <3>1. CASE Rotate(r)
      BY <3>1 DEF Rotate, Goto, Requests
    <3>2. CASE req' = [req EXCEPT ![r] = Idle]
      BY <3>2 DEF Idle
    <3>. QED  BY <1>6, <3>1, <3>2 DEF CloseAll, ClearCookie, StatementFails, AnswerLost, Goto
  <2>. QED  BY <1>4, <2>1, <2>2
<1>7. ASSUME NEW r \in Tab, ChangePassword(r)
      PROVE  HoldersMove(t)
  BY <1>1, <1>7 DEF ChangePassword, Overtaken, Idle, Requests
<1>8. CASE SetPassword
  BY <1>1, <1>8 DEF SetPassword, Overtaken, Requests
<1>9. CASE Deactivate \/ (\E u \in Token : Expires(u)) \/ UNCHANGED vars
  BY <1>1, <1>9 DEF Deactivate, Expires, vars
<1>10. ASSUME NEW d \in Device, TokenStolen(d)
       PROVE  HoldersMove(t)
  <2>1. PICK e \in Device : /\ cookie' = [cookie EXCEPT ![d] = cookie[e]]
                            /\ excused' = excused \cup {d, e} /\ req' = req
    BY <1>10 DEF TokenStolen
  <2>2. CASE cookie[e] = t
    <3>1. Holds(e, t) /\ \A f \in Device : Holds(f, t)' => f = d \/ Holds(f, t)
      BY <2>1, <2>2 DEF Holds
    <3>. QED  BY <2>1, <3>1
  <2>3. CASE cookie[e] # t
    BY <2>1, <2>3 DEF Holds
  <2>. QED  BY <2>2, <2>3
<1>. QED
  BY <1>2, <1>3, <1>5, <1>6, <1>7, <1>8, <1>9, <1>10 DEF Next, Request

\* A cookie is kept, cleared, copied from another device, or set by an answer;
\* a device loses its excuse only with its one request's answer.
CookiesMove(d) ==
    /\ \/ cookie'[d] = NoToken
       \/ \E e \in Device : cookie'[d] = cookie[e]
       \/ \E r \in Tab : /\ req[r].at = "answer" /\ cookie'[d] = req[r].token
                         /\ req'[r].at = "idle"
    /\ d \in excused /\ d \notin excused' =>
          \E r \in Tab : /\ InProgress(d) = {r} /\ req[r].at = "answer"
                         /\ req' = [req EXCEPT ![r] = Idle]
                         /\ cookie' = [cookie EXCEPT ![d] = req[r].token]

LEMMA CookiesMoves ==
    ASSUME SessionInv, [Next]_vars, NEW d \in Device
    PROVE  CookiesMove(d)
<1>. TypeOK /\ Typed
  BY Types DEF SessionInv
<1>. USE SessionsAssumption DEF CookiesMove, Typed, userVars, pastVars
<1>1. ASSUME cookie' = cookie, excused \subseteq excused'
      PROVE  CookiesMove(d)
  BY <1>1
<1>2. ASSUME NEW r \in Tab, SetCookie(r)
      PROVE  CookiesMove(d)
  <2>1. req'[r].at = "idle"
    BY <1>2 DEF SetCookie, Goto, Idle
  <2>2. CASE DeviceOf[r] = d
    BY <1>2, <2>1, <2>2 DEF SetCookie, Goto
  <2>3. CASE DeviceOf[r] # d
    BY <1>2, <2>3 DEF SetCookie
  <2>. QED  BY <2>2, <2>3
<1>3. ASSUME NEW r \in Tab, ClearCookie(r)
      PROVE  CookiesMove(d)
  BY <1>3 DEF ClearCookie
<1>4. ASSUME NEW e \in Device, TokenStolen(e)
      PROVE  CookiesMove(d)
  BY <1>4 DEF TokenStolen
<1>5. ASSUME NEW r \in Tab, Login(r) \/ Refresh(r) \/ Logout(r) \/ ChangeCheck(r)
      PROVE  CookiesMove(d)
  <2>1. cookie' = cookie /\ excused \subseteq excused'
    BY <1>5 DEF Login, Refresh, Logout, ChangeCheck, Begin
  <2>. QED  BY <1>1, <2>1
<1>6. ASSUME NEW r \in Tab, Rotate(r) \/ Issue(r) \/ CloseAll(r) \/ ChangePassword(r)
                              \/ StatementFails(r) \/ AnswerLost(r)
      PROVE  CookiesMove(d)
  <2>1. cookie' = cookie /\ excused \subseteq excused'
    BY <1>6 DEF Rotate, Issue, CloseAll, ChangePassword, NewPassword, StatementFails, AnswerLost
  <2>. QED  BY <1>1, <2>1
<1>7. CASE SetPassword \/ Deactivate \/ (\E t \in Token : Expires(t)) \/ UNCHANGED vars
  BY <1>1, <1>7 DEF SetPassword, NewPassword, Deactivate, Expires, vars
<1>. QED
  BY <1>2, <1>3, <1>4, <1>5, <1>6, <1>7 DEF Next, Request

LEMMA AnswersStep ==
    ASSUME SessionInv, [Next]_vars
    PROVE  AnswersAreNew'
<1>. SUFFICES ASSUME NEW r \in Tab, req'[r].at = "answer"
              PROVE  /\ \A d \in Device : cookie'[d] # req'[r].token
                     /\ \A q \in Tab : q # r => req'[q].token # req'[r].token
  BY DEF AnswersAreNew
<1>. TypeOK /\ Typed /\ TokensAreIssued /\ AnswersAreNew
  BY Types DEF SessionInv
<1>. USE SessionsAssumption DEF Typed
<1>1. \/ req[r].at = "answer" /\ req'[r].token = req[r].token
      \/ req'[r].token \in Fresh /\ OnlyGoesOn(r) /\ req[r].at = "issue"
  BY RequestsMove DEF RequestMoves, Idle
<1>2. req'[r].token \in Token
  BY <1>1 DEF TokensAreIssued, Fresh
<1>3. ASSUME NEW d \in Device
      PROVE  cookie'[d] # req'[r].token
  <2>1. ASSUME NEW q \in Tab, req[q].at = "answer", req'[q].at = "idle"
        PROVE  req[q].token # req'[r].token
    BY <1>1, <2>1 DEF TokensAreIssued, AnswersAreNew
  <2>2. \A e \in Device : cookie[e] # req'[r].token
    BY <1>1 DEF AnswersAreNew, Fresh
  <2>. QED  BY <1>2, <2>1, <2>2, CookiesMoves DEF CookiesMove
<1>4. ASSUME NEW q \in Tab, q # r
      PROVE  req'[q].token # req'[r].token
  <2>1. CASE req[r].at = "answer" /\ req'[r].token = req[r].token
    <3>1. req[q].token # req'[r].token /\ cookie[DeviceOf[q]] # req'[r].token
      BY <1>4, <2>1 DEF AnswersAreNew
    <3>2. req'[r].token \notin Fresh
      BY <2>1 DEF TokensAreIssued
    <3>3. RequestMoves(q)
      BY RequestsMove
    <3>. QED  BY <1>2, <3>1, <3>2, <3>3 DEF RequestMoves, Idle
  <2>2. CASE req'[r].token \in Fresh /\ OnlyGoesOn(r)
    BY <1>2, <1>4, <2>2 DEF OnlyGoesOn, TokensAreIssued
  <2>. QED  BY <1>1, <2>1, <2>2
<1>. QED  BY <1>3, <1>4

LEMMA OneDeviceStep ==
    ASSUME SessionInv, [Next]_vars
    PROVE  OneDeviceEach'
<1>. SUFFICES ASSUME NEW t \in Token, NEW d \in Device, d \notin excused', NEW e \in Device,
                     Holds(d, t)', Holds(e, t)'
              PROVE  d = e
  BY DEF OneDeviceEach
<1>. TypeOK /\ Typed /\ TokensAreIssued /\ AnswersAreNew
  BY Types DEF SessionInv
<1>1. CASE d \notin excused
  BY <1>1, HoldersMoves DEF HoldersMove, SessionInv, OneDeviceEach
<1>2. CASE d \in excused
  <2>1. PICK r \in Tab : /\ InProgress(d) = {r} /\ req[r].at = "answer"
                         /\ req' = [req EXCEPT ![r] = Idle]
                         /\ cookie' = [cookie EXCEPT ![d] = req[r].token]
    BY <1>2, CookiesMoves DEF CookiesMove
  <2>2. \A q \in Tab : DeviceOf[q] = d => req'[q].token = NoToken
    BY <2>1 DEF InProgress, TokensAreIssued, Typed, Idle
  <2>3. t = req[r].token
    BY <2>1, <2>2, SessionsAssumption DEF Holds, Typed
  <2>4. \A f \in Device : f # d => cookie'[f] # t
    BY <2>1, <2>3 DEF AnswersAreNew, Typed
  <2>5. \A q \in Tab : req'[q].token # t
    BY <2>1, <2>3, SessionsAssumption DEF AnswersAreNew, Typed, Idle
  <2>. QED  BY <2>4, <2>5 DEF Holds
<1>. QED  BY <1>1, <1>2

-----------------------------------------------------------------------------
(* Devices without an excuse.                                              *)

NothingNew(d) == \A r \in Tab : DeviceOf[r] = d => req'[r] = req[r]

\* What others do does not revoke the token of such a device.
LEMMA HeldStaysOpen ==
    ASSUME SessionInv, [Next]_vars, NEW d \in Device, d \notin excused \cup excused', NothingNew(d),
           NEW t \in Open, Holds(d, t)
    PROVE  t \in Open'
<1>1. t \in Token /\ TokenMoves(t) /\ row[t] \in {"live", "expired"}
  BY TokensMove DEF Open
<1>2. ASSUME NEW r \in Tab, req[r].at = "rotate", req[r].token = t, req'[r].at = "issue"
      PROVE  FALSE
  <2>1. DeviceOf[r] \in Device /\ Holds(DeviceOf[r], t)
    BY <1>2, SessionsAssumption DEF Holds
  <2>2. DeviceOf[r] = d
    BY <1>1, <2>1 DEF SessionInv, OneDeviceEach
  <2>. QED  BY <1>2, <2>2 DEF NothingNew
<1>3. ASSUME NEW r \in Tab, cookie[DeviceOf[r]] = t, req[r].at = "idle", req'[r].at = "clear"
      PROVE  FALSE
  <2>1. DeviceOf[r] \in Device /\ Holds(DeviceOf[r], t)
    BY <1>3, SessionsAssumption DEF Holds
  <2>2. DeviceOf[r] = d
    BY <1>1, <2>1 DEF SessionInv, OneDeviceEach
  <2>. QED  BY <1>3, <2>2 DEF NothingNew
<1>. QED  BY <1>1, <1>2, <1>3 DEF TokenMoves, Open

\* A device left without an excuse has seen nothing of the step, has its one
\* request go on, or has it end.
DeviceMoves(d) ==
    \/ /\ d \notin excused /\ NothingNew(d) /\ cookie'[d] = cookie[d]
    \/ /\ d \notin excused
       /\ \E r \in Tab :
             /\ InProgress(d)' = {r}
             /\ req'[r].at = "answer" => req'[r].token \in Open'
    \/ /\ InProgress(d)' = {}
       /\ cookie'[d] \in Open' \cup {NoToken}

LEMMA DevicesMove ==
    ASSUME SessionInv, [Next]_vars, NEW d \in Device, d \notin excused'
    PROVE  DeviceMoves(d)
<1>. TypeOK /\ Typed /\ LoneRequests
  BY Types DEF SessionInv
<1>. USE SessionsAssumption DEF Typed, userVars, pastVars
<1>1. CASE excused' = excused /\ req' = req /\ cookie' = cookie
  BY <1>1 DEF DeviceMoves, NothingNew
<1>2. ASSUME NEW r \in Tab, DeviceOf[r] # d, OnlyGoesOn(r), cookie'[d] = cookie[d],
             d \in excused => d \in excused'
      PROVE  DeviceMoves(d)
  BY <1>2 DEF DeviceMoves, NothingNew, OnlyGoesOn
<1>3. ASSUME NEW r \in Tab, DeviceOf[r] = d, req[r].at = "idle", req'[r].at # "idle",
             req'[r].at # "answer", OnlyGoesOn(r),
             excused' = IF InProgress(d) = {} THEN excused ELSE excused \cup {d}
      PROVE  DeviceMoves(d)
  <2>1. InProgress(d) = {} /\ excused' = excused
    BY <1>3
  <2>2. InProgress(d)' = {r}
    BY <1>3, <2>1 DEF InProgress, OnlyGoesOn
  <2>. QED  BY <1>3, <2>1, <2>2 DEF DeviceMoves
<1>4. ASSUME NEW r \in Tab, Login(r) \/ Refresh(r) \/ Logout(r) \/ ChangeCheck(r)
      PROVE  DeviceMoves(d)
  <2>1. /\ OnlyGoesOn(r) /\ UNCHANGED cookie /\ req[r].at = "idle"
        /\ excused' = IF InProgress(DeviceOf[r]) = {} THEN excused
                      ELSE excused \cup {DeviceOf[r]}
    BY <1>4 DEF Login, Refresh, Logout, ChangeCheck, Begin, OnlyGoesOn
  <2>2. req'[r].at \in {"issue", "rotate", "closeall", "clear", "change"}
    <3>1. CASE Login(r)
      BY <3>1 DEF Login, Begin, Idle, NoOrigin
    <3>2. CASE Logout(r) \/ ChangeCheck(r)
      BY <3>2 DEF Logout, ChangeCheck, Begin, Idle
    <3>3. CASE Refresh(r)
      BY <3>3 DEF Refresh, Begin, Idle
    <3>. QED  BY <1>4, <3>1, <3>2, <3>3
  <2>. QED  BY <1>2, <1>3, <2>1, <2>2
<1>5. ASSUME NEW r \in Tab, DeviceOf[r] = d, req[r].at # "idle", OnlyGoesOn(r), d \notin excused
      PROVE  /\ InProgress(d) = {r}
             /\ InProgress(d)' = IF req'[r].at = "idle" THEN {} ELSE {r}
  <2>1. InProgress(d) = {r}
    BY <1>5 DEF LoneRequests, InProgress
  <2>. QED  BY <1>5, <2>1 DEF InProgress, OnlyGoesOn
<1>6. ASSUME NEW r \in Tab, Rotate(r)
      PROVE  DeviceMoves(d)
  <2>1. /\ OnlyGoesOn(r) /\ UNCHANGED <<cookie, excused>> /\ req[r].at = "rotate"
        /\ req'[r].at = "issue"
    BY <1>6 DEF Rotate, Goto, OnlyGoesOn, Requests
  <2>. QED  BY <1>2, <1>5, <2>1 DEF DeviceMoves
<1>7. ASSUME NEW r \in Tab, Issue(r)
      PROVE  DeviceMoves(d)
  <2>1. PICK t \in Fresh : row' = Saved(t) /\ Goto(r, [Idle EXCEPT !.at = "answer", !.token = t])
    BY <1>7 DEF Issue
  <2>2. /\ OnlyGoesOn(r) /\ UNCHANGED <<cookie, excused>> /\ req[r].at = "issue"
        /\ req'[r].at = "answer" /\ req'[r].token = t
    BY <1>7, <2>1 DEF Issue, Goto, OnlyGoesOn, Idle
  <2>3. t \in Open'
    BY <2>1 DEF Saved, Fresh, Open
  <2>. QED  BY <1>2, <1>5, <2>2, <2>3 DEF DeviceMoves
<1>8. ASSUME NEW r \in Tab, SetCookie(r)
      PROVE  DeviceMoves(d)
  <2>1. /\ OnlyGoesOn(r) /\ req[r].at = "answer" /\ req'[r].at = "idle" /\ Open' = Open
        /\ cookie' = [cookie EXCEPT ![DeviceOf[r]] = req[r].token]
    BY <1>8 DEF SetCookie, Goto, OnlyGoesOn, Idle, Open
  <2>2. CASE DeviceOf[r] # d
    BY <1>2, <1>8, <2>1, <2>2 DEF SetCookie
  <2>3. CASE DeviceOf[r] = d
    <3>1. InProgress(d) = {r} /\ req[r].token \in Open
      <4>1. CASE d \in excused
        BY <1>8, <2>3, <4>1 DEF SetCookie, Live, Open
      <4>2. CASE d \notin excused
        BY <2>1, <2>3, <4>2 DEF LoneRequests, InProgress
      <4>. QED  BY <4>1, <4>2
    <3>2. InProgress(d)' = {}
      BY <2>1, <3>1 DEF InProgress, OnlyGoesOn
    <3>. QED  BY <2>1, <2>3, <3>1, <3>2 DEF DeviceMoves
  <2>. QED  BY <2>2, <2>3
<1>9. ASSUME NEW r \in Tab, ClearCookie(r)
      PROVE  DeviceMoves(d)
  <2>1. /\ OnlyGoesOn(r) /\ req[r].at = "clear" /\ req'[r].at = "idle" /\ UNCHANGED excused
        /\ cookie' = [cookie EXCEPT ![DeviceOf[r]] = NoToken]
    BY <1>9 DEF ClearCookie, Goto, OnlyGoesOn, Idle
  <2>. QED  BY <1>2, <1>5, <2>1 DEF DeviceMoves
<1>10. ASSUME NEW r \in Tab, StatementFails(r) \/ AnswerLost(r)
       PROVE  DeviceMoves(d)
  <2>1. OnlyGoesOn(r) /\ UNCHANGED cookie /\ excused' = excused \cup {DeviceOf[r]}
    BY <1>10 DEF StatementFails, AnswerLost, Goto, OnlyGoesOn
  <2>. QED  BY <1>2, <2>1
<1>11. ~(\E r \in Tab : CloseAll(r) \/ ChangePassword(r)) /\ ~SetPassword
  BY DEF CloseAll, ChangePassword, SetPassword, NewPassword
<1>12. CASE Deactivate \/ (\E t \in Token : Expires(t)) \/ UNCHANGED vars
  BY <1>1, <1>12 DEF Deactivate, Expires, vars
<1>13. ASSUME NEW e \in Device, TokenStolen(e)
       PROVE  DeviceMoves(d)
  BY <1>13 DEF TokenStolen, DeviceMoves, NothingNew
<1>. QED
  BY <1>4, <1>6, <1>7, <1>8, <1>9, <1>10, <1>11, <1>12, <1>13 DEF Next, Request

LEMMA LoneStep ==
    ASSUME SessionInv, [Next]_vars
    PROVE  LoneRequests' /\ LoneTabStaysIn'
<1>. SUFFICES ASSUME NEW d \in Device, d \notin excused'
              PROVE  /\ \A r \in InProgress(d)' :
                           /\ InProgress(d)' = {r}
                           /\ req'[r].at = "answer" => req'[r].token \in Open'
                     /\ InProgress(d)' = {} => cookie'[d] \in Open' \cup {NoToken}
  BY DEF LoneRequests, LoneTabStaysIn
<1>1. CASE d \notin excused /\ NothingNew(d) /\ cookie'[d] = cookie[d]
  <2>1. InProgress(d)' = InProgress(d) /\ \A r \in InProgress(d) : req'[r] = req[r]
    BY <1>1 DEF InProgress, NothingNew
  <2>2. \A t \in Open : Holds(d, t) => t \in Open'
    BY <1>1, HeldStaysOpen
  <2>3. \A r \in InProgress(d) : Holds(d, req[r].token)
    BY DEF InProgress, Holds
  <2>4. Holds(d, cookie[d])
    BY DEF Holds
  <2>. QED  BY <1>1, <2>1, <2>2, <2>3, <2>4 DEF SessionInv, LoneRequests, LoneTabStaysIn
<1>. QED  BY <1>1, DevicesMove DEF DeviceMoves

-----------------------------------------------------------------------------
(* The theorems.                                                           *)

LEMMA SessionInitially ==
    ASSUME Init
    PROVE  SessionInv
<1>. USE SessionsAssumption DEF Init
<1>1. Fresh = Token /\ Live = {} /\ \A r \in Tab : req[r].at = "idle" /\ req[r].token = NoToken
  BY DEF Fresh, Live, Idle
<1>2. TypeOK
  <2>1. req \in [Tab -> Requests] /\ origin \in [Token -> Origins]
    BY NoOriginIs DEF Idle, Requests, Steps
  <2>2. \A t \in Token : t \in Fresh <=> origin[t].root = NoToken
    BY <1>1 DEF NoOrigin
  <2>. QED  BY <1>1, <2>1, <2>2, Types DEF Typed
<1>3. TokensAreIssued /\ RequestsKnowThePassword
  BY <1>1 DEF TokensAreIssued, RequestsKnowThePassword
<1>4. OneDeviceEach /\ AnswersAreNew
  BY <1>1 DEF OneDeviceEach, AnswersAreNew, Holds
<1>5. LoneRequests /\ LoneTabStaysIn /\ PasswordEndsSessions
  BY <1>1 DEF LoneRequests, LoneTabStaysIn, InProgress, PasswordEndsSessions
<1>. QED  BY <1>2, <1>3, <1>4, <1>5 DEF SessionInv

LEMMA SessionStep ==
    ASSUME SessionInv, [Next]_vars
    PROVE  SessionInv'
  BY TypeStep, IssuedStep, KnownPasswordStep, OldPasswordStep, OneDeviceStep, AnswersStep, LoneStep
     DEF SessionInv

LEMMA SessionAlways == Spec => []SessionInv
  BY SessionInitially, SessionStep, PTL DEF Spec

\* The rows, cookies and requests are of their types; a token has a session
\* exactly when it was issued, and a cookie holds no token that was not.
THEOREM SessionTypes == Spec => []TypeOK
<1>1. SessionInv => TypeOK
  BY DEF SessionInv
<1>. QED  BY <1>1, SessionAlways, PTL

\* A change of the password ends every session of the old one, save those of
\* the logins and refreshes it overtook (changePassword, set-admin-password).
THEOREM PasswordChangeEndsSessions == Spec => []PasswordEndsSessions
<1>1. SessionInv => PasswordEndsSessions
  BY DEF SessionInv
<1>. QED  BY <1>1, SessionAlways, PTL

\* A device that asks one thing at a time, gets its answers and whose token no
\* other device has got hold of keeps a token that works until all sessions are
\* closed, for any number of other devices (refresh, completeSession).
THEOREM LoneDeviceStaysIn == Spec => []LoneTabStaysIn
<1>1. SessionInv => LoneTabStaysIn
  BY DEF SessionInv
<1>. QED  BY <1>1, SessionAlways, PTL

\* A request never gives an ended session a live token, nor a reader of one.
LEMMA EndedStep ==
    ASSUME SessionInv, [Next]_vars, NEW s \in Token, row[s] # "none", Ended(s)
    PROVE  Ended(s)'
<1>. TypeOK /\ Typed
  BY Types DEF SessionInv
<1>1. ASSUME NEW t \in Live'
      PROVE  origin'[t].root # s
  <2>1. t \in Token /\ row'[t] = "live" /\ TokenMoves(t)
    BY TokensMove DEF Live
  <2>2. CASE row'[t] = row[t] /\ origin'[t] = origin[t]
    BY <2>1, <2>2 DEF Ended, Live
  <2>3. ASSUME NEW r \in Tab, row[t] = "none",
               origin'[t] = [req[r].origin EXCEPT !.root = IF @ = NoToken THEN t ELSE @]
        PROVE  origin'[t].root # s
    <3>1. req[r].origin \in Origins /\ req[r].origin.root # s
      BY DEF Typed, Requests, Ended
    <3>. QED  BY <2>3, <3>1 DEF Origins
  <2>. QED  BY <2>1, <2>2, <2>3 DEF TokenMoves
<1>2. ASSUME NEW r \in Tab
      PROVE  req'[r].origin.root # s
  <2>1. RequestMoves(r) /\ req[r].origin.root # s /\ NoToken # s
    BY RequestsMove, SessionsAssumption DEF Ended
  <2>2. \A t \in Live : origin[t].root # s
    BY DEF Ended
  <2>. QED  BY <2>1, <2>2 DEF RequestMoves, Idle, NoOrigin
<1>. QED  BY <1>1, <1>2 DEF Ended

\* No login, refresh or failed rotation brings back a session that ended by a
\* logout, a reuse or a change of the password (revokeAllSessions, logout).
THEOREM SessionsEndForGood == Spec => EndedStaysEnded
<1>1. SessionInv /\ [Next]_vars => [\A s \in Token : row[s] # "none" /\ Ended(s) => Ended(s)']_vars
  BY EndedStep
<1>. QED  BY <1>1, SessionAlways, PTL DEF Spec, EndedStaysEnded
=============================================================================
