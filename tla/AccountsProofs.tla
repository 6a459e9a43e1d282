---------------------------- MODULE AccountsProofs ----------------------------
(* Theorems about Accounts, for any clients, accounts, addresses and bound on calls. *)
EXTENDS Accounts, TLAPS

LEMMA InitInv == Init => IInv
<1> SUFFICES ASSUME Init PROVE IInv
  OBVIOUS
<1> USE AccountsConstants DEF Users, Tokens, Ops, CallStates, RequestStates, Calls, Handlers, NoCall, NoExchange, NoRequest
<1> USE DEF Init
<1>1. TypeOK
  BY DEF TypeOK
<1>2. LoginView /\ RequestView
  BY DEF LoginView, RequestView, Refreshing
<1>3. StableUser /\ RowsHaveIntegration
  BY DEF StableUser, RowsHaveIntegration
<1>4. TokenView /\ StoredTokenUsable
  BY DEF TokenView, TokenOf, Refreshing, StoredTokenUsable
<1>5. QED
  BY <1>1, <1>2, <1>3, <1>4 DEF IInv

\* The user of an address is a row.
LEMMA UserWithIsUser ==
  ASSUME NEW c \in Callbacks, NEW e
  PROVE  UserWith(c, e) \in Users
BY DEF UserWith, Users

\* The steps of a callback and of a request change fields of their records.
LEMMA CallEdited ==
  ASSUME NEW r \in Calls
  PROVE  /\ \A at \in CallStates : [r EXCEPT !.at = at] \in Calls
         /\ \A s \in States : [r EXCEPT !.at = "exchange", !.state = s] \in Calls
         /\ \A a \in Accounts, e \in Emails \cup {NoEmail} :
              [r EXCEPT !.at = "find", !.account = a, !.mail = e] \in Calls
         /\ \A u \in Users \cup {None} : [r EXCEPT !.at = "update", !.user = u] \in Calls
         /\ [NoCall EXCEPT !.at = "failed"] \in Calls
BY DEF Calls, CallStates, NoCall

LEMMA HandlerEdited ==
  ASSUME NEW r \in Handlers
  PROVE  /\ \A at \in RequestStates : [r EXCEPT !.at = at] \in Handlers
         /\ \A at \in RequestStates, op \in Ops, u \in Users \cup {None} :
              [r EXCEPT !.at = at, !.op = op, !.user = u] \in Handlers
         /\ \A at \in RequestStates, a \in Accounts, t \in Tokens \cup {None} :
              [r EXCEPT !.account = a, !.read = t, !.at = at] \in Handlers
         /\ \A t \in Tokens : [r EXCEPT !.at = "save", !.got = t] \in Handlers
         /\ [NoRequest EXCEPT !.at = "done"] \in Handlers
<1> USE DEF Handlers, RequestStates
<1>1. \A at \in RequestStates : [r EXCEPT !.at = at] \in Handlers
  OBVIOUS
<1>2. \A at \in RequestStates, op \in Ops, u \in Users \cup {None} :
        [r EXCEPT !.at = at, !.op = op, !.user = u] \in Handlers
  OBVIOUS
<1>3. \A at \in RequestStates, a \in Accounts, t \in Tokens \cup {None} :
        [r EXCEPT !.account = a, !.read = t, !.at = at] \in Handlers
  OBVIOUS
<1>4. \A t \in Tokens : [r EXCEPT !.at = "save", !.got = t] \in Handlers
  OBVIOUS
<1>5. [NoRequest EXCEPT !.at = "done"] \in Handlers
  BY DEF NoRequest
<1>6. QED
  BY <1>1, <1>2, <1>3, <1>4, <1>5

\* The records and their fields.
LEMMA RecordsTyped ==
  ASSUME TypeOK
  PROVE  /\ \A c \in Callbacks : /\ cb[c] \in Calls
                                 /\ cb[c].account \in Accounts \cup {None}
                                 /\ cb[c].mail \in Emails \cup {NoEmail, None}
                                 /\ cb[c].user \in Users \cup {None}
         /\ \A q \in Requests : /\ req[q] \in Handlers
                                /\ req[q].user \in Users \cup {None}
                                /\ req[q].account \in Accounts \cup {None}
                                /\ req[q].read \in Tokens \cup {None}
                                /\ req[q].got \in Tokens \cup {None}
<1>1. /\ \A c \in Callbacks : cb[c] \in Calls
      /\ \A q \in Requests : req[q] \in Handlers
  BY DEF TypeOK
<1>2. QED
  BY <1>1 DEF Calls, Handlers

\* A handler that goes on, and one that has answered.
LEMMA GoesTyped ==
  ASSUME TypeOK, NEW q \in Requests, NEW at \in RequestStates, Goes(q, at)
  PROVE  req' \in [Requests -> Handlers]
<1>1. [req[q] EXCEPT !.at = at] \in Handlers
  BY RecordsTyped, HandlerEdited
<1>2. QED
  BY <1>1 DEF Goes, TypeOK

LEMMA AnswersTyped ==
  ASSUME TypeOK, NEW q \in Requests, Answers(q)
  PROVE  req' \in [Requests -> Handlers]
<1>1. [NoRequest EXCEPT !.at = "done"] \in Handlers
  BY RecordsTyped, HandlerEdited
<1>2. QED
  BY <1>1 DEF Answers, TypeOK

\* Every step keeps the types.
LEMMA StepType ==
  ASSUME TypeOK, LoginView, RequestView, [Next]_vars
  PROVE  TypeOK'
<1> USE AccountsConstants DEF Users, Tokens, Ops, CallStates, RequestStates, NoCall, NoExchange, NoRequest
<1> USE DEF logins, identities, resources, provider
<1> USE DEF TypeOK
<1> USE RecordsTyped
<1>1. ASSUME NEW s \in States, Begin(s) PROVE TypeOK'
  BY <1>1 DEF Begin
<1>2. ASSUME NEW c \in Callbacks, ConsumeOAuthState(c) PROVE TypeOK'
  <2> PICK s \in States : /\ cb' = [cb EXCEPT ![c] = [@ EXCEPT !.at = "exchange", !.state = s]]
                          /\ state' = [state EXCEPT ![s] = "gone"]
    BY <1>2 DEF ConsumeOAuthState
  <2>1. [cb[c] EXCEPT !.at = "exchange", !.state = s] \in Calls
    BY CallEdited
  <2>2. QED
    BY <1>2, <2>1 DEF ConsumeOAuthState
<1>3. ASSUME NEW c \in Callbacks, ProviderExchange(c) PROVE TypeOK'
  <2> PICK a \in Accounts, e \in Emails \cup {NoEmail} :
         cb' = [cb EXCEPT ![c] = [@ EXCEPT !.at = "find", !.account = a, !.mail = e]]
    BY <1>3 DEF ProviderExchange
  <2>1. [cb[c] EXCEPT !.at = "find", !.account = a, !.mail = e] \in Calls
    BY CallEdited
  <2>2. QED
    BY <1>3, <2>1 DEF ProviderExchange
<1>4. ASSUME NEW c \in Callbacks, FindOrCreateIdentity(c) PROVE TypeOK'
  <2> DEFINE u == UserWith(c, cb[c].mail)
  <2>1. u \in Callbacks
    BY UserWithIsUser
  <2> HIDE DEF u
  <2>2. mail' \in [Users -> Emails \cup {NoEmail, None}]
    BY <1>4, <2>1 DEF FindOrCreateIdentity, u
  <2>3. owner' \in [Accounts -> Users \cup {None}] /\ older' \subseteq Accounts \X Accounts
    <3>1. CASE owner[cb[c].account] = None
      <4>1. /\ owner' = [owner EXCEPT ![cb[c].account] = u]
            /\ older' = older \cup ({b \in Accounts : owner[b] # None} \X {cb[c].account})
        BY <1>4, <3>1 DEF FindOrCreateIdentity, u
      <4>2. cb[c].account \in Accounts
        BY <1>4 DEF FindOrCreateIdentity, LoginView
      <4>3. QED
        BY <2>1, <4>1, <4>2
    <3>2. CASE owner[cb[c].account] # None
      BY <1>4, <3>2 DEF FindOrCreateIdentity
    <3>3. QED
      BY <3>1, <3>2
  <2>4. cb' \in [Callbacks -> Calls]
    <3>1. cb' = [cb EXCEPT ![c] = [@ EXCEPT !.at = "update", !.user = owner'[cb[c].account]]]
      BY <1>4 DEF FindOrCreateIdentity
    <3>2. owner'[cb[c].account] \in Users \cup {None}
      BY <1>4, <2>3 DEF FindOrCreateIdentity, LoginView
    <3>3. [cb[c] EXCEPT !.at = "update", !.user = owner'[cb[c].account]] \in Calls
      BY CallEdited, <3>2
    <3>4. QED
      BY <3>1, <3>3
  <2>5. QED
    BY <1>4, <2>2, <2>3, <2>4 DEF FindOrCreateIdentity
<1>5. ASSUME NEW c \in Callbacks, UpdateTokens(c) PROVE TypeOK'
  <2>1. token' \in [Accounts -> Tokens \cup {None}]
    BY <1>5 DEF UpdateTokens, Stored
  <2>2. [cb[c] EXCEPT !.at = "code"] \in Calls
    BY CallEdited
  <2>3. cb' \in [Callbacks -> Calls]
    BY <1>5, <2>2 DEF UpdateTokens
  <2>4. QED
    BY <1>5, <2>1, <2>3 DEF UpdateTokens
<1>6. ASSUME NEW c \in Callbacks, CreateAuthCode(c) PROVE TypeOK'
  <2>1. [cb[c] EXCEPT !.at = "done"] \in Calls
    BY CallEdited
  <2>2. QED
    BY <1>6, <2>1 DEF CreateAuthCode
<1>7. ASSUME NEW c \in Callbacks, CallbackFails(c) PROVE TypeOK'
  <2>1. [NoCall EXCEPT !.at = "failed"] \in Calls
    BY CallEdited
  <2>2. QED
    BY <1>7, <2>1 DEF CallbackFails
<1>8. ASSUME NEW x \in Exchanges, ConsumeAuthCode(x) PROVE TypeOK'
  BY <1>8 DEF ConsumeAuthCode
<1>9. ASSUME NEW x \in Exchanges, CreateSession(x) PROVE TypeOK'
  <2>1. ex' = [ex EXCEPT ![x] = [ex[x] EXCEPT !.at = "done"]]
    BY <1>9 DEF CreateSession
  <2>2. ex' \in [Exchanges -> [at : {"none", "create", "done", "failed"}, from : Callbacks \cup {None}]]
    BY <2>1
  <2>3. QED
    BY <1>9, <2>2 DEF CreateSession
<1>10. ASSUME NEW x \in Exchanges, CreateSessionFails(x) PROVE TypeOK'
  BY <1>10 DEF CreateSessionFails
<1>11. ASSUME NEW x \in Exchanges, Logout(x) PROVE TypeOK'
  BY <1>11 DEF Logout
<1>12. ASSUME NEW q \in Requests, Authenticate(q) PROVE TypeOK'
  <2> PICK x \in Exchanges, op \in Ops :
         req' = [req EXCEPT ![q] = [@ EXCEPT !.at = IF op = "provider" THEN "token" ELSE "act",
                                             !.op = op, !.user = UserOf(x)]]
         /\ session[x] = "live"
    BY <1>12 DEF Authenticate
  <2>1. UserOf(x) \in Users \cup {None}
    BY DEF UserOf, LoginView
  <2>2. [req[q] EXCEPT !.at = IF op = "provider" THEN "token" ELSE "act",
                       !.op = op, !.user = UserOf(x)] \in Handlers
    BY HandlerEdited, <2>1
  <2>3. QED
    BY <1>12, <2>2 DEF Authenticate
<1>13. ASSUME NEW q \in Requests, ReadToken(q) PROVE TypeOK'
  <2>1. CASE Answers(q)
    BY <1>13, <2>1, AnswersTyped DEF ReadToken
  <2>2. ASSUME NEW a \in Accounts, NEW at \in {"refresh", "act"},
               req' = [req EXCEPT ![q] = [@ EXCEPT !.account = a, !.read = token[a], !.at = at]]
        PROVE  TypeOK'
    <3>1. [req[q] EXCEPT !.account = a, !.read = token[a], !.at = at] \in Handlers
      BY HandlerEdited
    <3>2. QED
      BY <1>13, <2>2, <3>1 DEF ReadToken
  <2>3. QED
    BY <1>13, <2>1, <2>2 DEF ReadToken
<1>14. ASSUME NEW q \in Requests, Refresh(q) PROVE TypeOK'
  <2>1. PICK t \in Tokens : req' = [req EXCEPT ![q] = [@ EXCEPT !.at = "save", !.got = t]]
    BY <1>14 DEF Refresh, RequestView, Refreshing
  <2>2. [req[q] EXCEPT !.at = "save", !.got = t] \in Handlers
    BY HandlerEdited
  <2>3. req' \in [Requests -> Handlers]
    BY <2>1, <2>2
  <2>4. age' \in [Tokens -> {"none", "fresh", "near", "over"}] /\ spent' \subseteq Tokens
    <3>1. req[q].read \in Tokens
      BY <1>14 DEF Refresh, RequestView, Refreshing
    <3>2. age' \in {age, [age EXCEPT ![q] = "fresh"]} /\ spent' \in {spent, spent \cup {req[q].read}}
      BY <1>14 DEF Refresh
    <3>3. QED
      BY <3>1, <3>2
  <2>5. QED
    BY <1>14, <2>3, <2>4 DEF Refresh
<1>15. ASSUME NEW q \in Requests, RefreshFails(q) PROVE TypeOK'
  <2>1. req' \in [Requests -> Handlers]
    BY <1>15, AnswersTyped DEF RefreshFails
  <2>2. QED
    BY <1>15, <2>1 DEF RefreshFails, RequestView, Refreshing
<1>16. ASSUME NEW q \in Requests, SaveToken(q) PROVE TypeOK'
  <2>1. req' \in [Requests -> Handlers]
    BY <1>16, GoesTyped DEF SaveToken
  <2>2. token' \in [Accounts -> Tokens \cup {None}]
    BY <1>16, RecordsTyped DEF SaveToken, Stored
  <2>3. req[q].read \in Tokens
    BY <1>16, RecordsTyped DEF SaveToken, RequestView, Refreshing
  <2>4. rewritten' \subseteq Tokens
    BY <1>16, <2>3 DEF SaveToken
  <2>5. QED
    BY <1>16, <2>1, <2>2, <2>4 DEF SaveToken
<1>17. ASSUME NEW q \in Requests, SaveTokenFails(q) PROVE TypeOK'
  <2>1. req' \in [Requests -> Handlers]
    BY <1>17, AnswersTyped DEF SaveTokenFails
  <2>2. QED
    BY <1>17, <2>1 DEF SaveTokenFails, RequestView, Refreshing
<1>18. ASSUME NEW q \in Requests, Track(q) PROVE TypeOK'
  <2>1. req' \in [Requests -> Handlers]
    BY <1>18, AnswersTyped DEF Track
  <2>2. QED
    BY <1>18, <2>1 DEF Track, RequestView
<1>19. ASSUME NEW q \in Requests, Untrack(q) PROVE TypeOK'
  <2>1. req' \in [Requests -> Handlers]
    BY <1>19, AnswersTyped DEF Untrack
  <2>2. QED
    BY <1>19, <2>1 DEF Untrack
<1>20. ASSUME NEW q \in Requests, Link(q) PROVE TypeOK'
  <2>1. req' \in [Requests -> Handlers]
    BY <1>20, AnswersTyped DEF Link
  <2>2. QED
    BY <1>20, <2>1 DEF Link, RequestView
<1>21. ASSUME NEW q \in Requests, Read(q) PROVE TypeOK'
  <2>1. req' \in [Requests -> Handlers]
    BY <1>21, AnswersTyped DEF Read
  <2>2. QED
    BY <1>21, <2>1 DEF Read
<1>22. ASSUME NEW q \in Requests, Disconnect(q) PROVE TypeOK'
  <2>1. req' \in [Requests -> Handlers]
    BY <1>22, AnswersTyped, GoesTyped DEF Disconnect
  <2>2. QED
    BY <1>22, <2>1 DEF Disconnect, DropIntegration, DropTracked
<1>23. ASSUME NEW q \in Requests, RemoveIdentity(q) PROVE TypeOK'
  <2>1. req' \in [Requests -> Handlers]
    BY <1>23, AnswersTyped DEF RemoveIdentity
  <2>2. QED
    BY <1>23, <2>1 DEF RemoveIdentity
<1>24. ASSUME NEW q \in Requests, RequestFails(q) PROVE TypeOK'
  <2>1. req' \in [Requests -> Handlers]
    BY <1>24, AnswersTyped DEF RequestFails
  <2>2. QED
    BY <1>24, <2>1 DEF RequestFails, RequestView
<1>25. ASSUME NEW t \in Tokens, Age(t) PROVE TypeOK'
  BY <1>25 DEF Age
<1>26. CASE UNCHANGED vars
  BY <1>26 DEF vars
<1>27. QED
  BY <1>1, <1>2, <1>3, <1>4, <1>5, <1>6, <1>7, <1>8, <1>9, <1>10, <1>11, <1>12, <1>13,
     <1>14, <1>15, <1>16, <1>17, <1>18, <1>19, <1>20, <1>21, <1>22, <1>23, <1>24,
     <1>25, <1>26 DEF Next

\* Every step keeps what the steps of a login have done.
LEMMA StepLogin ==
  ASSUME TypeOK, LoginView, [Next]_vars
  PROVE  LoginView'
<1> USE AccountsConstants DEF Users, Tokens, Ops, CallStates, RequestStates, Calls, Handlers, NoCall, NoExchange, NoRequest
<1> USE DEF logins, identities, resources, provider
<1> USE DEF TypeOK, LoginView
<1>1. ASSUME NEW s \in States, Begin(s) PROVE LoginView'
  BY <1>1 DEF Begin
<1>2. ASSUME NEW c \in Callbacks, ConsumeOAuthState(c) PROVE LoginView'
  BY <1>2 DEF ConsumeOAuthState
<1>3. ASSUME NEW c \in Callbacks, ProviderExchange(c) PROVE LoginView'
  BY <1>3 DEF ProviderExchange
<1>4. ASSUME NEW c \in Callbacks, FindOrCreateIdentity(c) PROVE LoginView'
  BY <1>4 DEF FindOrCreateIdentity, UserWith
<1>5. ASSUME NEW c \in Callbacks, UpdateTokens(c) PROVE LoginView'
  BY <1>5 DEF UpdateTokens, Stored
<1>6. ASSUME NEW c \in Callbacks, CreateAuthCode(c) PROVE LoginView'
  BY <1>6 DEF CreateAuthCode
<1>7. ASSUME NEW c \in Callbacks, CallbackFails(c) PROVE LoginView'
  BY <1>7 DEF CallbackFails
<1>8. ASSUME NEW x \in Exchanges, ConsumeAuthCode(x) PROVE LoginView'
  BY <1>8 DEF ConsumeAuthCode
<1>9. ASSUME NEW x \in Exchanges, CreateSession(x) PROVE LoginView'
  BY <1>9 DEF CreateSession
<1>10. ASSUME NEW x \in Exchanges, CreateSessionFails(x) PROVE LoginView'
  BY <1>10 DEF CreateSessionFails
<1>11. ASSUME NEW x \in Exchanges, Logout(x) PROVE LoginView'
  BY <1>11 DEF Logout
<1>12. ASSUME NEW q \in Requests, Authenticate(q) PROVE LoginView'
  BY <1>12 DEF Authenticate, UserOf
<1>13. ASSUME NEW q \in Requests, ReadToken(q) PROVE LoginView'
  <2>1. UNCHANGED <<logins, identities, resources, provider>>
    BY <1>13 DEF ReadToken
  <2>2. QED
    BY <2>1
<1>14. ASSUME NEW q \in Requests, Refresh(q) PROVE LoginView'
  BY <1>14 DEF Refresh
<1>15. ASSUME NEW q \in Requests, RefreshFails(q) PROVE LoginView'
  BY <1>15 DEF RefreshFails, Answers
<1>16. ASSUME NEW q \in Requests, SaveToken(q) PROVE LoginView'
  BY <1>16 DEF SaveToken, Stored, Goes
<1>17. ASSUME NEW q \in Requests, SaveTokenFails(q) PROVE LoginView'
  BY <1>17 DEF SaveTokenFails, Answers
<1>18. ASSUME NEW q \in Requests, Track(q) PROVE LoginView'
  BY <1>18 DEF Track, Answers
<1>19. ASSUME NEW q \in Requests, Untrack(q) PROVE LoginView'
  BY <1>19 DEF Untrack, Answers
<1>20. ASSUME NEW q \in Requests, Link(q) PROVE LoginView'
  BY <1>20 DEF Link, Answers
<1>21. ASSUME NEW q \in Requests, Read(q) PROVE LoginView'
  BY <1>21 DEF Read, Answers
<1>22. ASSUME NEW q \in Requests, Disconnect(q) PROVE LoginView'
  BY <1>22 DEF Disconnect, DropIntegration, DropTracked, Goes, Answers
<1>23. ASSUME NEW q \in Requests, RemoveIdentity(q) PROVE LoginView'
  BY <1>23 DEF RemoveIdentity, Answers
<1>24. ASSUME NEW q \in Requests, RequestFails(q) PROVE LoginView'
  BY <1>24 DEF RequestFails, Answers
<1>25. ASSUME NEW t \in Tokens, Age(t) PROVE LoginView'
  BY <1>25 DEF Age
<1>26. CASE UNCHANGED vars
  BY <1>26 DEF vars
<1>27. QED
  BY <1>1, <1>2, <1>3, <1>4, <1>5, <1>6, <1>7, <1>8, <1>9, <1>10, <1>11, <1>12, <1>13,
     <1>14, <1>15, <1>16, <1>17, <1>18, <1>19, <1>20, <1>21, <1>22, <1>23, <1>24,
     <1>25, <1>26 DEF Next

\* A request that has begun acts for a user.
LEMMA StepRequest ==
  ASSUME TypeOK, LoginView, RequestView, [Next]_vars
  PROVE  RequestView'
<1> USE AccountsConstants DEF Users, Tokens, Ops, CallStates, RequestStates, Calls, Handlers, NoCall, NoExchange, NoRequest
<1> USE DEF logins, identities, resources, provider
<1> USE DEF TypeOK, RequestView, Refreshing
<1>1. ASSUME NEW s \in States, Begin(s) PROVE RequestView'
  BY <1>1 DEF Begin
<1>2. ASSUME NEW c \in Callbacks, ConsumeOAuthState(c) PROVE RequestView'
  BY <1>2 DEF ConsumeOAuthState
<1>3. ASSUME NEW c \in Callbacks, ProviderExchange(c) PROVE RequestView'
  BY <1>3 DEF ProviderExchange
<1>4. ASSUME NEW c \in Callbacks, FindOrCreateIdentity(c) PROVE RequestView'
  BY <1>4 DEF FindOrCreateIdentity, UserWith
<1>5. ASSUME NEW c \in Callbacks, UpdateTokens(c) PROVE RequestView'
  BY <1>5 DEF UpdateTokens, Stored
<1>6. ASSUME NEW c \in Callbacks, CreateAuthCode(c) PROVE RequestView'
  BY <1>6 DEF CreateAuthCode
<1>7. ASSUME NEW c \in Callbacks, CallbackFails(c) PROVE RequestView'
  BY <1>7 DEF CallbackFails
<1>8. ASSUME NEW x \in Exchanges, ConsumeAuthCode(x) PROVE RequestView'
  BY <1>8 DEF ConsumeAuthCode
<1>9. ASSUME NEW x \in Exchanges, CreateSession(x) PROVE RequestView'
  BY <1>9 DEF CreateSession
<1>10. ASSUME NEW x \in Exchanges, CreateSessionFails(x) PROVE RequestView'
  BY <1>10 DEF CreateSessionFails
<1>11. ASSUME NEW x \in Exchanges, Logout(x) PROVE RequestView'
  BY <1>11 DEF Logout
<1>12. ASSUME NEW q \in Requests, Authenticate(q) PROVE RequestView'
  <2> PICK x \in Exchanges, op \in Ops :
         req' = [req EXCEPT ![q] = [@ EXCEPT !.at = IF op = "provider" THEN "token" ELSE "act",
                                             !.op = op, !.user = UserOf(x)]]
         /\ session[x] = "live"
    BY <1>12 DEF Authenticate
  <2>1. UserOf(x) # None
    BY DEF UserOf, LoginView
  <2>2. req'[q].user # None /\ req'[q].at \notin {"refresh", "save"}
    BY <2>1, RecordsTyped DEF Handlers
  <2>3. QED
    BY <1>12, <2>2
<1>13. ASSUME NEW q \in Requests, ReadToken(q) PROVE RequestView'
  <2>1. CASE Answers(q)
    BY <2>1 DEF Answers
  <2>2. ASSUME NEW a \in Accounts,
               req' = [req EXCEPT ![q] = [@ EXCEPT !.account = a, !.read = token[a],
                 !.at = IF token[a] # None /\ age[token[a]] # "fresh" THEN "refresh" ELSE "act"]]
        PROVE  RequestView'
    <3>1. /\ req'[q].user = req[q].user /\ req'[q].account = a /\ req'[q].at \in {"refresh", "act"}
          /\ req'[q].at = "refresh" => req'[q].read # None
      BY <2>2, RecordsTyped DEF Handlers
    <3>2. \A r \in Requests \ {q} : req'[r] = req[r]
      BY <2>2
    <3>3. req[q].user # None
      BY <1>13 DEF ReadToken
    <3>4. QED
      BY <3>1, <3>2, <3>3
  <2>3. QED
    BY <1>13, <2>1, <2>2 DEF ReadToken
<1>14. ASSUME NEW q \in Requests, Refresh(q) PROVE RequestView'
  <2>1. PICK t \in {q, req[q].read} : req' = [req EXCEPT ![q] = [@ EXCEPT !.at = "save", !.got = t]]
    BY <1>14 DEF Refresh
  <2>2. /\ req'[q].user = req[q].user /\ req'[q].read = req[q].read
        /\ req'[q].account = req[q].account /\ req'[q].got = t
    BY <2>1, RecordsTyped DEF Handlers
  <2>3. QED
    BY <1>14, <2>1, <2>2 DEF Refresh
<1>15. ASSUME NEW q \in Requests, RefreshFails(q) PROVE RequestView'
  BY <1>15 DEF RefreshFails, Answers
<1>16. ASSUME NEW q \in Requests, SaveToken(q) PROVE RequestView'
  BY <1>16 DEF SaveToken, Stored, Goes
<1>17. ASSUME NEW q \in Requests, SaveTokenFails(q) PROVE RequestView'
  BY <1>17 DEF SaveTokenFails, Answers
<1>18. ASSUME NEW q \in Requests, Track(q) PROVE RequestView'
  BY <1>18 DEF Track, Answers
<1>19. ASSUME NEW q \in Requests, Untrack(q) PROVE RequestView'
  BY <1>19 DEF Untrack, Answers
<1>20. ASSUME NEW q \in Requests, Link(q) PROVE RequestView'
  BY <1>20 DEF Link, Answers
<1>21. ASSUME NEW q \in Requests, Read(q) PROVE RequestView'
  BY <1>21 DEF Read, Answers
<1>22. ASSUME NEW q \in Requests, Disconnect(q) PROVE RequestView'
  <2>1. req[q].user # None
    BY <1>22 DEF Disconnect
  <2>2. CASE Goes(q, "cascade")
    BY <2>1, <2>2 DEF Goes
  <2>3. CASE Answers(q)
    BY <2>3 DEF Answers
  <2>4. QED
    BY <1>22, <2>2, <2>3 DEF Disconnect
<1>23. ASSUME NEW q \in Requests, RemoveIdentity(q) PROVE RequestView'
  BY <1>23 DEF RemoveIdentity, Answers
<1>24. ASSUME NEW q \in Requests, RequestFails(q) PROVE RequestView'
  BY <1>24 DEF RequestFails, Answers
<1>25. ASSUME NEW t \in Tokens, Age(t) PROVE RequestView'
  BY <1>25 DEF Age
<1>26. CASE UNCHANGED vars
  BY <1>26 DEF vars
<1>27. QED
  BY <1>1, <1>2, <1>3, <1>4, <1>5, <1>6, <1>7, <1>8, <1>9, <1>10, <1>11, <1>12, <1>13,
     <1>14, <1>15, <1>16, <1>17, <1>18, <1>19, <1>20, <1>21, <1>22, <1>23, <1>24,
     <1>25, <1>26 DEF Next

\* What keeps tokens at one account, and one that is not stored yet at none.
LEMMA TokensAtHome ==
  ASSUME TokenView, spent' = spent,
         \A a \in Accounts : owner'[a] = None => token'[a] = None,
         \A t \in Tokens, a \in Accounts : TokenOf(t, a)' => TokenOf(t, a),
         \A t \in Tokens : Unstored(t)' => Unstored(t)
  PROVE  TokenView'
BY DEF TokenView

\* A step that stores and spends no token, and moves nobody to where one is got or saved.
LEMMA TokensRest ==
  ASSUME TypeOK, TokenView, StoredTokenUsable,
         UNCHANGED <<token, spent, lost, rewritten>>,
         \A a \in Accounts : owner'[a] = None => owner[a] = None,
         \A c \in Callbacks : cb'[c].at \in {"none", "exchange", "find", "update"} =>
                                cb[c].at \in {"none", "exchange", "find", "update"},
         \A q \in Requests :
           \/ req'[q] = req[q]
           \/ ~Refreshing(q) /\ ~Refreshing(q)' /\ req'[q].at # "none"
              /\ (req'[q].at = "token" => req[q].at = "none")
  PROVE  TokenView' /\ StoredTokenUsable'
<1>1. \A t \in Tokens, a \in Accounts : TokenOf(t, a)' => TokenOf(t, a)
  <2>1. \A q \in Requests : Refreshing(q)' => Refreshing(q) /\ req'[q] = req[q]
    BY DEF Refreshing
  <2>2. QED
    BY <2>1 DEF TokenOf
<1>2. \A t \in Tokens : Unstored(t)' => Unstored(t)
  BY DEF Unstored, Refreshing
<1>3. TokenView'
  BY <1>1, <1>2 DEF TokenView
<1>4. \A q \in Requests : req[q].at = "save" => req'[q] = req[q]
  BY DEF Refreshing
<1>5. StoredTokenUsable'
  BY <1>4 DEF StoredTokenUsable
<1>6. QED
  BY <1>3, <1>5

\* A token that a callback or a request stores is new: it is at no other account, and
\* unspent.
LEMMA TokenStored ==
  ASSUME TypeOK, TokenView, StoredTokenUsable, NEW a \in Accounts, NEW t \in Tokens,
         token' = [token EXCEPT ![a] = t], Unstored(t), ~Unstored(t)',
         UNCHANGED <<owner, spent, lost, rewritten>>, owner[a] # None,
         \A u \in Tokens : Unstored(u)' => Unstored(u),
         \A q \in Requests :
           \/ req'[q] = req[q]
           \/ ~Refreshing(q)' /\ (Refreshing(q) => req[q].account = a)
  PROVE  TokenView' /\ StoredTokenUsable'
<1>1. \A b \in Accounts : token'[b] = IF b = a THEN t ELSE token[b]
  BY DEF TypeOK
<1>2. \A u \in Tokens, b \in Accounts : TokenOf(u, b)' => TokenOf(u, b) \/ (u = t /\ b = a)
  <2>1. \A q \in Requests : Refreshing(q)' => Refreshing(q) /\ req'[q] = req[q]
    BY DEF Refreshing
  <2>2. QED
    BY <1>1, <2>1 DEF TokenOf
<1>3. t \notin spent /\ \A b \in Accounts : ~TokenOf(t, b)
  BY DEF TokenView
<1>4. TokenView'
  <2>1. \A b \in Accounts : owner'[b] = None => token'[b] = None
    BY <1>1 DEF TokenView
  <2>2. \A u \in Tokens, b, d \in Accounts : TokenOf(u, b)' /\ TokenOf(u, d)' => b = d
    BY <1>2, <1>3 DEF TokenView
  <2>3. \A u \in Tokens : Unstored(u)' => u \notin spent' /\ \A b \in Accounts : ~TokenOf(u, b)'
    BY <1>2 DEF TokenView
  <2>4. QED
    BY <2>1, <2>2, <2>3 DEF TokenView
<1>5. StoredTokenUsable'
  <2> SUFFICES ASSUME NEW b \in Accounts, token'[b] \in spent'
               PROVE  \/ token'[b] \in lost' \cup rewritten'
                      \/ \E q \in Requests : /\ req'[q].at = "save" /\ req'[q].account = b
                                            /\ req'[q].read = token'[b] /\ req'[q].got = q
    BY DEF StoredTokenUsable
  <2>1. b # a /\ token'[b] = token[b]
    BY <1>1, <1>3
  <2>2. CASE token[b] \in lost \cup rewritten
    BY <2>1, <2>2
  <2>3. ASSUME NEW q \in Requests, req[q].at = "save", req[q].account = b,
               req[q].read = token[b], req[q].got = q
        PROVE  req'[q] = req[q]
    BY <2>1, <2>3 DEF Refreshing
  <2>4. QED
    BY <2>1, <2>2, <2>3 DEF StoredTokenUsable
<1>6. QED
  BY <1>4, <1>5

\* Every step keeps tokens at one account, and those that are stored usable.
LEMMA StepTokens ==
  ASSUME TypeOK, LoginView, RequestView, TokenView, StoredTokenUsable, [Next]_vars
  PROVE  TokenView' /\ StoredTokenUsable'
<1> DEFINE Goal == TokenView' /\ StoredTokenUsable'
           Early == {"none", "exchange", "find", "update"}
<1> USE DEF logins, identities, resources, provider
<1> HIDE DEF Goal
<1>0. None \notin Tokens /\ Callbacks \cap Requests = {} /\ \A c \in Callbacks : c \in Tokens
  BY AccountsConstants DEF Tokens
\* A step that concerns no token, of a login or of a request.
<1>1. ASSUME UNCHANGED <<identities, cb, req, spent, lost, rewritten>> PROVE Goal
  BY <1>1, TokensRest DEF Goal
<1>2. ASSUME NEW c \in Callbacks, UNCHANGED <<token, req, spent, lost, rewritten>>,
             \A a \in Accounts : owner'[a] = None => owner[a] = None,
             \A d \in Callbacks \ {c} : cb'[d] = cb[d],
             cb'[c].at \in Early => cb[c].at \in Early
      PROVE  Goal
  <2>1. \A d \in Callbacks : cb'[d].at \in Early => cb[d].at \in Early
    BY <1>2
  <2>2. QED
    BY <1>2, <2>1, TokensRest DEF Goal
<1>3. ASSUME NEW q \in Requests, UNCHANGED <<token, owner, cb, spent, lost, rewritten>>,
             ~Refreshing(q), \A r \in Requests \ {q} : req'[r] = req[r],
             \/ req[q].at = "none" /\ req'[q].at = "token"
             \/ req'[q].at \in {"act", "cascade", "done"}
      PROVE  Goal
  <2>1. ~Refreshing(q)' /\ req'[q].at # "none" /\ (req'[q].at = "token" => req[q].at = "none")
    BY <1>3 DEF Refreshing
  <2>2. QED
    BY <1>3, <2>1, TokensRest DEF Goal
<1>4. ASSUME NEW q \in Requests, Answers(q)
      PROVE  /\ req'[q].at = "done" /\ \A r \in Requests \ {q} : req'[r] = req[r]
             /\ ~Refreshing(q)'
  BY <1>4 DEF Answers, NoRequest, TypeOK, Refreshing
<1>5. ASSUME NEW q \in Requests, NEW at \in RequestStates, Goes(q, at)
      PROVE  /\ req'[q].at = at /\ \A r \in Requests \ {q} : req'[r] = req[r]
             /\ req'[q].account = req[q].account /\ req'[q].read = req[q].read
  BY <1>5, RecordsTyped DEF Goes, TypeOK, Handlers
\* Logins
<1>6. ASSUME NEW s \in States, Begin(s) PROVE Goal
  BY <1>1, <1>6 DEF Begin
<1>7. ASSUME NEW c \in Callbacks, ConsumeOAuthState(c) PROVE Goal
  <2>1. cb[c].at \in Early
    BY <1>7 DEF ConsumeOAuthState
  <2>2. QED
    BY <1>2, <1>7, <2>1 DEF ConsumeOAuthState
<1>8. ASSUME NEW c \in Callbacks, ProviderExchange(c) PROVE Goal
  <2>1. cb[c].at \in Early
    BY <1>8 DEF ProviderExchange
  <2>2. UNCHANGED <<token, owner, req, spent, lost, rewritten>> /\ \A d \in Callbacks \ {c} : cb'[d] = cb[d]
    BY <1>8 DEF ProviderExchange
  <2>3. QED
    BY <1>2, <2>1, <2>2
<1>9. ASSUME NEW c \in Callbacks, FindOrCreateIdentity(c) PROVE Goal
  <2>1. cb[c].at \in Early
    BY <1>9 DEF FindOrCreateIdentity
  <2>2. UNCHANGED <<token, req, spent, lost, rewritten>> /\ \A d \in Callbacks \ {c} : cb'[d] = cb[d]
    BY <1>9 DEF FindOrCreateIdentity
  <2>3. UserWith(c, cb[c].mail) # None
    BY <1>0, UserWithIsUser DEF Users, Tokens
  <2>4. \A a \in Accounts : owner'[a] = None => owner[a] = None
    BY <1>9, <2>3 DEF FindOrCreateIdentity, TypeOK
  <2>5. QED
    BY <1>2, <2>1, <2>2, <2>4
<1>10. ASSUME NEW c \in Callbacks, UpdateTokens(c) PROVE Goal
  <2>1. /\ cb[c].at = "update" /\ cb'[c].at = "code" /\ cb[c].account \in Accounts
        /\ \A d \in Callbacks \ {c} : cb'[d] = cb[d]
        /\ UNCHANGED <<owner, req, spent, lost, rewritten>>
    BY <1>10, RecordsTyped DEF UpdateTokens, LoginView, TypeOK, Calls
  <2>2. CASE owner[cb[c].account] = None
    BY <1>2, <1>10, <2>1, <2>2 DEF UpdateTokens, Stored
  <2>3. CASE owner[cb[c].account] # None
    <3>1. token' = [token EXCEPT ![cb[c].account] = c]
      BY <1>10, <2>3 DEF UpdateTokens, Stored
    <3>2. Unstored(c) /\ ~Unstored(c)' /\ \A u \in Tokens : Unstored(u)' => Unstored(u)
      BY <1>0, <2>1 DEF Unstored
    <3>3. QED
      BY <1>0, <2>1, <2>3, <3>1, <3>2, TokenStored DEF Goal
  <2>4. QED
    BY <2>2, <2>3
<1>11. ASSUME NEW c \in Callbacks, CreateAuthCode(c) \/ CallbackFails(c) PROVE Goal
  <2>1. /\ cb'[c].at \in {"done", "failed"} /\ \A d \in Callbacks \ {c} : cb'[d] = cb[d]
        /\ UNCHANGED <<identities, req, spent, lost, rewritten>>
    BY <1>11 DEF CreateAuthCode, CallbackFails, TypeOK, Calls, NoCall
  <2>2. QED
    BY <1>2, <2>1
<1>12. ASSUME NEW x \in Exchanges,
              ConsumeAuthCode(x) \/ CreateSession(x) \/ CreateSessionFails(x) \/ Logout(x)
       PROVE  Goal
  BY <1>1, <1>12 DEF ConsumeAuthCode, CreateSession, CreateSessionFails, Logout
\* Requests
<1>13. ASSUME NEW q \in Requests, Authenticate(q) PROVE Goal
  <2>1. /\ req[q].at = "none" /\ req'[q].at \in {"token", "act"}
        /\ \A r \in Requests \ {q} : req'[r] = req[r]
        /\ UNCHANGED <<identities, cb, spent, lost, rewritten>>
    BY <1>13, RecordsTyped DEF Authenticate, TypeOK, Handlers
  <2>2. QED
    BY <1>3, <2>1 DEF Refreshing
<1>14. ASSUME NEW q \in Requests, ReadToken(q) PROVE Goal
  <2>1. req[q].at = "token" /\ UNCHANGED <<identities, cb, spent, lost, rewritten>>
    BY <1>14 DEF ReadToken
  <2>2. CASE Answers(q)
    BY <1>3, <1>4, <2>1, <2>2 DEF Refreshing
  <2>3. ASSUME NEW a \in Accounts,
               req' = [req EXCEPT ![q] = [@ EXCEPT !.account = a, !.read = token[a],
                 !.at = IF token[a] # None /\ age[token[a]] # "fresh" THEN "refresh" ELSE "act"]]
        PROVE  Goal
    <3>1. /\ req'[q].account = a /\ req'[q].read = token[a] /\ req'[q].at \in {"refresh", "act"}
          /\ \A r \in Requests \ {q} : req'[r] = req[r]
      BY <2>3, RecordsTyped DEF TypeOK, Handlers
    <3>2. \A t \in Tokens, b \in Accounts : TokenOf(t, b)' => TokenOf(t, b)
      BY <2>1, <3>1 DEF TokenOf, Refreshing
    <3>3. \A t \in Tokens : Unstored(t)' => Unstored(t)
      BY <2>1, <3>1 DEF Unstored
    <3>4. TokenView'
      BY <2>1, <3>2, <3>3, TokensAtHome DEF TokenView
    <3>5. StoredTokenUsable'
      BY <2>1, <3>1 DEF StoredTokenUsable
    <3>6. QED
      BY <3>4, <3>5 DEF Goal
  <2>4. QED
    BY <1>14, <2>2, <2>3 DEF ReadToken
<1>15. ASSUME NEW q \in Requests, Refresh(q) PROVE Goal
  <2> DEFINE t == req[q].read
  <2>1. /\ req[q].at = "refresh" /\ t \in Tokens /\ req[q].account \in Accounts
        /\ TokenOf(t, req[q].account)
        /\ UNCHANGED <<identities, cb, lost, rewritten>>
    BY <1>15, RecordsTyped DEF Refresh, RequestView, Refreshing, TokenOf
  <2>2. PICK g : req' = [req EXCEPT ![q] = [@ EXCEPT !.at = "save", !.got = g]]
    BY <1>15 DEF Refresh
  <2>3. /\ req'[q].at = "save" /\ req'[q].got = g
        /\ req'[q].account = req[q].account /\ req'[q].read = t
        /\ \A r \in Requests \ {q} : req'[r] = req[r]
    BY <2>2, RecordsTyped DEF TypeOK, Handlers
  <2>4. \A u \in Tokens, b \in Accounts : TokenOf(u, b)' => TokenOf(u, b)
    BY <2>1, <2>3 DEF TokenOf, Refreshing
  <2>5. \A u \in Tokens : Unstored(u)' => Unstored(u)
    BY <2>1, <2>3 DEF Unstored
  <2>6. \A r \in Requests : req[r].at = "save" => req'[r] = req[r]
    BY <2>1, <2>3
  <2>7. CASE UNCHANGED spent
    <3>1. TokenView'
      BY <2>1, <2>4, <2>5, <2>7, TokensAtHome DEF TokenView
    <3>2. StoredTokenUsable'
      BY <2>1, <2>6, <2>7 DEF StoredTokenUsable
    <3>3. QED
      BY <3>1, <3>2 DEF Goal
  <2>8. CASE spent' = spent \cup {t} /\ req' = [req EXCEPT ![q] = [@ EXCEPT !.at = "save", !.got = q]]
    <3>1. req'[q].got = q
      BY <2>8, RecordsTyped DEF TypeOK, Handlers
    <3>2. \A u \in Tokens : Unstored(u)' => u # t
      BY <2>1, <2>5 DEF TokenView
    <3>3. TokenView'
      BY <2>1, <2>4, <2>5, <2>8, <3>2 DEF TokenView
    <3>4. ASSUME NEW b \in Accounts, token[b] = t PROVE b = req[q].account
      <4>1. TokenOf(t, b)
        BY <3>4 DEF TokenOf
      <4>2. QED
        BY <2>1, <4>1 DEF TokenView
    <3>5. StoredTokenUsable'
      BY <2>1, <2>3, <2>6, <2>8, <3>1, <3>4 DEF StoredTokenUsable
    <3>6. QED
      BY <3>3, <3>5 DEF Goal
  <2>9. QED
    BY <1>15, <2>7, <2>8 DEF Refresh
<1>16. ASSUME NEW q \in Requests, Refreshing(q), Answers(q), UNCHANGED <<identities, cb>>
       PROVE  /\ \A u \in Tokens, b \in Accounts : TokenOf(u, b)' => TokenOf(u, b)
              /\ \A u \in Tokens : Unstored(u)' => Unstored(u)
  <2>1. \A u \in Tokens, b \in Accounts : TokenOf(u, b)' => TokenOf(u, b)
    BY <1>4, <1>16 DEF TokenOf, Refreshing
  <2>2. QED
    BY <1>4, <1>16, <2>1 DEF Unstored
<1>17. ASSUME NEW q \in Requests, RefreshFails(q) PROVE Goal
  <2>1. req[q].at = "refresh" /\ Answers(q) /\ UNCHANGED <<identities, cb, rewritten>>
    BY <1>17 DEF RefreshFails
  <2>2. /\ \A u \in Tokens, b \in Accounts : TokenOf(u, b)' => TokenOf(u, b)
        /\ \A u \in Tokens : Unstored(u)' => Unstored(u)
    BY <1>16, <2>1 DEF Refreshing
  <2>3. \A r \in Requests : req[r].at = "save" => req'[r] = req[r]
    BY <1>4, <2>1
  <2>4. \/ UNCHANGED <<spent, lost>>
        \/ spent' = spent \cup {req[q].read} /\ lost' = lost \cup {req[q].read}
    BY <1>17 DEF RefreshFails
  <2>5. TokenOf(req[q].read, req[q].account) /\ req[q].read \in Tokens /\ req[q].account \in Accounts
    BY <2>1, RecordsTyped DEF TokenOf, Refreshing, RequestView
  <2>6. TokenView'
    <3>1. \A u \in Tokens : Unstored(u)' => u # req[q].read
      BY <2>2, <2>5 DEF TokenView
    <3>2. QED
      BY <2>1, <2>2, <2>4, <3>1 DEF TokenView
  <2>7. StoredTokenUsable'
    BY <2>1, <2>3, <2>4 DEF StoredTokenUsable
  <2>8. QED
    BY <2>6, <2>7 DEF Goal
<1>18. ASSUME NEW q \in Requests, SaveToken(q) PROVE Goal
  <2> DEFINE a == req[q].account
             t == req[q].read
  <2>1. /\ req[q].at = "save" /\ Refreshing(q) /\ t \in Tokens /\ a \in Accounts /\ q \in Tokens
        /\ req[q].got \in {q, t} /\ TokenOf(t, a) /\ Unstored(q)
        /\ UNCHANGED <<owner, cb, spent, lost>>
    BY <1>18, RecordsTyped DEF SaveToken, RequestView, Refreshing, TokenOf, Unstored, Tokens
  <2>2. q # t
    BY <2>1 DEF TokenView
  <2>3. req'[q].at = "act" /\ \A r \in Requests \ {q} : req'[r] = req[r]
    BY <1>5, <1>18 DEF SaveToken, RequestStates
  <2>4. ~Unstored(q)' /\ \A u \in Tokens : Unstored(u)' => Unstored(u)
    BY <1>0, <2>1, <2>3 DEF Unstored
  <2>5. ~Refreshing(q)' /\ \A r \in Requests : Refreshing(r)' => Refreshing(r) /\ req'[r] = req[r]
    BY <2>3 DEF Refreshing
  <2>6. CASE owner[a] = None
    <3>1. token' = token /\ token[a] = None
      BY <1>18, <2>1, <2>6 DEF SaveToken, Stored, TokenView
    <3>2. \A u \in Tokens, b \in Accounts : TokenOf(u, b)' => TokenOf(u, b)
      BY <2>5, <3>1 DEF TokenOf
    <3>3. TokenView'
      BY <2>1, <2>4, <3>1, <3>2, TokensAtHome DEF TokenView
    <3>4. None \notin spent
      BY <1>0 DEF TypeOK
    <3>5. StoredTokenUsable'
      <4> SUFFICES ASSUME NEW b \in Accounts, token[b] \in spent
                   PROVE  \/ token[b] \in lost \cup rewritten'
                          \/ \E r \in Requests : /\ req'[r].at = "save" /\ req'[r].account = b
                                                /\ req'[r].read = token[b] /\ req'[r].got = r
        BY <2>1, <3>1 DEF StoredTokenUsable
      <4>1. b # a
        BY <3>1, <3>4
      <4>2. rewritten \subseteq rewritten'
        BY <1>18 DEF SaveToken
      <4>3. QED
        BY <2>3, <4>1, <4>2 DEF StoredTokenUsable
    <3>6. QED
      BY <3>3, <3>5 DEF Goal
  <2>7. CASE owner[a] # None /\ req[q].got = q
    <3>1. token' = [token EXCEPT ![a] = q] /\ rewritten' = rewritten
      BY <1>18, <2>2, <2>7 DEF SaveToken, Stored
    <3>2. \A r \in Requests : \/ req'[r] = req[r]
                              \/ ~Refreshing(r)' /\ (Refreshing(r) => req[r].account = a)
      BY <2>3, <2>5
    <3>3. QED
      BY <2>1, <2>4, <2>7, <3>1, <3>2, TokenStored DEF Goal
  <2>8. CASE owner[a] # None /\ req[q].got = t
    <3>1. token' = [token EXCEPT ![a] = t] /\ rewritten' = rewritten \cup {t}
      BY <1>18, <2>8 DEF SaveToken, Stored
    <3>2. \A b \in Accounts : token'[b] = IF b = a THEN t ELSE token[b]
      BY <3>1 DEF TypeOK
    <3>3. \A u \in Tokens, b \in Accounts : TokenOf(u, b)' => TokenOf(u, b)
      BY <2>1, <2>5, <3>2 DEF TokenOf
    <3>4. \A b \in Accounts : owner'[b] = None => token'[b] = None
      BY <2>1, <2>8, <3>2 DEF TokenView
    <3>5. TokenView'
      BY <2>1, <2>4, <3>3, <3>4, TokensAtHome
    <3>6. StoredTokenUsable'
      BY <2>1, <2>3, <3>1, <3>2 DEF StoredTokenUsable
    <3>7. QED
      BY <3>5, <3>6 DEF Goal
  <2>9. QED
    BY <2>1, <2>6, <2>7, <2>8
<1>19. ASSUME NEW q \in Requests, SaveTokenFails(q) PROVE Goal
  <2>1. /\ req[q].at = "save" /\ Refreshing(q) /\ Answers(q)
        /\ lost' = (IF req[q].got = req[q].read THEN lost ELSE lost \cup {req[q].read})
        /\ UNCHANGED <<identities, cb, spent, rewritten>>
    BY <1>19 DEF SaveTokenFails, Refreshing
  <2>2. /\ \A u \in Tokens, b \in Accounts : TokenOf(u, b)' => TokenOf(u, b)
        /\ \A u \in Tokens : Unstored(u)' => Unstored(u)
    BY <1>16, <2>1
  <2>3. TokenView'
    BY <2>1, <2>2, TokensAtHome DEF TokenView
  <2>4. req[q].read # q
    <3>1. TokenOf(req[q].read, req[q].account) /\ req[q].account \in Accounts
      BY <2>1, RecordsTyped DEF TokenOf, RequestView
    <3>2. Unstored(q) /\ q \in Tokens
      BY <2>1 DEF Unstored, Tokens
    <3>3. QED
      BY <3>1, <3>2 DEF TokenView
  <2>5. \A r \in Requests \ {q} : req'[r] = req[r]
    BY <1>4, <2>1
  <2>6. StoredTokenUsable'
    BY <2>1, <2>4, <2>5 DEF StoredTokenUsable
  <2>7. QED
    BY <2>3, <2>6 DEF Goal
<1>20. ASSUME NEW q \in Requests, Track(q) \/ Untrack(q) \/ Link(q) \/ Read(q) \/ RequestFails(q)
       PROVE  Goal
  <2>1. /\ req[q].at \in {"token", "act", "cascade"} /\ Answers(q)
        /\ UNCHANGED <<identities, cb, spent, lost, rewritten>>
    BY <1>20 DEF Track, Untrack, Link, Read, RequestFails
  <2>2. QED
    BY <1>3, <1>4, <2>1 DEF Refreshing
<1>21. ASSUME NEW q \in Requests, Disconnect(q) PROVE Goal
  <2>1. /\ req[q].at \in {"act", "cascade"} /\ UNCHANGED <<identities, cb, spent, lost, rewritten>>
        /\ Goes(q, "cascade") \/ Answers(q)
    BY <1>21 DEF Disconnect
  <2>2. req'[q].at \in {"cascade", "done"} /\ \A r \in Requests \ {q} : req'[r] = req[r]
    BY <1>4, <1>5, <2>1 DEF RequestStates
  <2>3. QED
    BY <1>3, <2>1, <2>2 DEF Refreshing
<1>22. ASSUME NEW q \in Requests, RemoveIdentity(q) PROVE Goal
  <2>1. /\ req[q].at = "act" /\ Answers(q)
        /\ UNCHANGED <<cb, spent, lost, rewritten>>
        /\ \A a \in Accounts : /\ owner'[a] = (IF owner[a] = req[q].user THEN None ELSE owner[a])
                               /\ token'[a] = (IF owner[a] = req[q].user THEN None ELSE token[a])
    BY <1>22 DEF RemoveIdentity
  <2>2. req'[q].at = "done" /\ ~Refreshing(q)' /\ \A r \in Requests \ {q} : req'[r] = req[r]
    BY <1>4, <2>1
  <2>3. \A r \in Requests : Refreshing(r)' => req'[r] = req[r] /\ Refreshing(r)
    BY <2>2 DEF Refreshing
  <2>4. \A u \in Tokens, b \in Accounts : TokenOf(u, b)' => TokenOf(u, b)
    BY <1>0, <2>1, <2>3 DEF TokenOf
  <2>5. \A u \in Tokens : Unstored(u)' => Unstored(u)
    BY <2>1, <2>2 DEF Unstored
  <2>6. TokenView'
    BY <2>1, <2>4, <2>5, TokensAtHome DEF TokenView
  <2>7. None \notin spent
    BY <1>0 DEF TypeOK
  <2>8. StoredTokenUsable'
    BY <2>1, <2>2, <2>7 DEF StoredTokenUsable
  <2>9. QED
    BY <2>6, <2>8 DEF Goal
<1>23. ASSUME NEW t \in Tokens, Age(t) PROVE Goal
  BY <1>1, <1>23 DEF Age
<1>24. CASE UNCHANGED vars
  <2>1. UNCHANGED <<identities, cb, req, spent, lost, rewritten>>
    BY <1>24 DEF vars
  <2>2. QED
    BY <1>1, <2>1 DEF Goal
<1>25. QED
  BY <1>6, <1>7, <1>8, <1>9, <1>10, <1>11, <1>12, <1>13, <1>14, <1>15, <1>17, <1>18, <1>19,
     <1>20, <1>21, <1>22, <1>23, <1>24 DEF Next, Goal

\* Every step keeps the account of a login with its user.
LEMMA StepStable ==
  ASSUME TypeOK, LoginView, StableUser, [Next]_vars
  PROVE  StableUser'
<1> USE AccountsConstants DEF Users, Tokens, Ops, CallStates, RequestStates, Calls, Handlers, NoCall, NoExchange, NoRequest
<1> USE DEF logins, identities, resources, provider
<1> USE DEF TypeOK, LoginView, StableUser
<1>1. ASSUME NEW s \in States, Begin(s) PROVE StableUser'
  BY <1>1 DEF Begin
<1>2. ASSUME NEW c \in Callbacks, ConsumeOAuthState(c) PROVE StableUser'
  BY <1>2 DEF ConsumeOAuthState
<1>3. ASSUME NEW c \in Callbacks, ProviderExchange(c) PROVE StableUser'
  BY <1>3 DEF ProviderExchange
<1>4. ASSUME NEW c \in Callbacks, FindOrCreateIdentity(c) PROVE StableUser'
  BY <1>4 DEF FindOrCreateIdentity, UserWith
<1>5. ASSUME NEW c \in Callbacks, UpdateTokens(c) PROVE StableUser'
  BY <1>5 DEF UpdateTokens, Stored
<1>6. ASSUME NEW c \in Callbacks, CreateAuthCode(c) PROVE StableUser'
  BY <1>6 DEF CreateAuthCode
<1>7. ASSUME NEW c \in Callbacks, CallbackFails(c) PROVE StableUser'
  BY <1>7 DEF CallbackFails
<1>8. ASSUME NEW x \in Exchanges, ConsumeAuthCode(x) PROVE StableUser'
  BY <1>8 DEF ConsumeAuthCode
<1>9. ASSUME NEW x \in Exchanges, CreateSession(x) PROVE StableUser'
  BY <1>9 DEF CreateSession
<1>10. ASSUME NEW x \in Exchanges, CreateSessionFails(x) PROVE StableUser'
  BY <1>10 DEF CreateSessionFails
<1>11. ASSUME NEW x \in Exchanges, Logout(x) PROVE StableUser'
  BY <1>11 DEF Logout
<1>12. ASSUME NEW q \in Requests, Authenticate(q) PROVE StableUser'
  BY <1>12 DEF Authenticate, UserOf
<1>13. ASSUME NEW q \in Requests, ReadToken(q) PROVE StableUser'
  BY <1>13 DEF ReadToken, Answers
<1>14. ASSUME NEW q \in Requests, Refresh(q) PROVE StableUser'
  BY <1>14 DEF Refresh
<1>15. ASSUME NEW q \in Requests, RefreshFails(q) PROVE StableUser'
  BY <1>15 DEF RefreshFails, Answers
<1>16. ASSUME NEW q \in Requests, SaveToken(q) PROVE StableUser'
  BY <1>16 DEF SaveToken, Stored, Goes
<1>17. ASSUME NEW q \in Requests, SaveTokenFails(q) PROVE StableUser'
  BY <1>17 DEF SaveTokenFails, Answers
<1>18. ASSUME NEW q \in Requests, Track(q) PROVE StableUser'
  BY <1>18 DEF Track, Answers
<1>19. ASSUME NEW q \in Requests, Untrack(q) PROVE StableUser'
  BY <1>19 DEF Untrack, Answers
<1>20. ASSUME NEW q \in Requests, Link(q) PROVE StableUser'
  BY <1>20 DEF Link, Answers
<1>21. ASSUME NEW q \in Requests, Read(q) PROVE StableUser'
  BY <1>21 DEF Read, Answers
<1>22. ASSUME NEW q \in Requests, Disconnect(q) PROVE StableUser'
  BY <1>22 DEF Disconnect, DropIntegration, DropTracked, Goes, Answers
<1>23. ASSUME NEW q \in Requests, RemoveIdentity(q) PROVE StableUser'
  BY <1>23 DEF RemoveIdentity, Answers
<1>24. ASSUME NEW q \in Requests, RequestFails(q) PROVE StableUser'
  BY <1>24 DEF RequestFails, Answers
<1>25. ASSUME NEW t \in Tokens, Age(t) PROVE StableUser'
  BY <1>25 DEF Age
<1>26. CASE UNCHANGED vars
  BY <1>26 DEF vars
<1>27. QED
  BY <1>1, <1>2, <1>3, <1>4, <1>5, <1>6, <1>7, <1>8, <1>9, <1>10, <1>11, <1>12, <1>13,
     <1>14, <1>15, <1>16, <1>17, <1>18, <1>19, <1>20, <1>21, <1>22, <1>23, <1>24,
     <1>25, <1>26 DEF Next

\* Every step keeps the account of rows without an integration.
LEMMA StepRows ==
  ASSUME TypeOK, RowsHaveIntegration, [Next]_vars
  PROVE  RowsHaveIntegration'
<1> USE AccountsConstants DEF Users, Tokens, Ops, CallStates, RequestStates, Calls, Handlers, NoCall, NoExchange, NoRequest
<1> USE DEF logins, identities, resources, provider
<1> USE DEF TypeOK, RowsHaveIntegration
<1>1. ASSUME NEW s \in States, Begin(s) PROVE RowsHaveIntegration'
  BY <1>1 DEF Begin
<1>2. ASSUME NEW c \in Callbacks, ConsumeOAuthState(c) PROVE RowsHaveIntegration'
  BY <1>2 DEF ConsumeOAuthState
<1>3. ASSUME NEW c \in Callbacks, ProviderExchange(c) PROVE RowsHaveIntegration'
  BY <1>3 DEF ProviderExchange
<1>4. ASSUME NEW c \in Callbacks, FindOrCreateIdentity(c) PROVE RowsHaveIntegration'
  BY <1>4 DEF FindOrCreateIdentity, UserWith
<1>5. ASSUME NEW c \in Callbacks, UpdateTokens(c) PROVE RowsHaveIntegration'
  BY <1>5 DEF UpdateTokens, Stored
<1>6. ASSUME NEW c \in Callbacks, CreateAuthCode(c) PROVE RowsHaveIntegration'
  BY <1>6 DEF CreateAuthCode
<1>7. ASSUME NEW c \in Callbacks, CallbackFails(c) PROVE RowsHaveIntegration'
  BY <1>7 DEF CallbackFails
<1>8. ASSUME NEW x \in Exchanges, ConsumeAuthCode(x) PROVE RowsHaveIntegration'
  BY <1>8 DEF ConsumeAuthCode
<1>9. ASSUME NEW x \in Exchanges, CreateSession(x) PROVE RowsHaveIntegration'
  BY <1>9 DEF CreateSession
<1>10. ASSUME NEW x \in Exchanges, CreateSessionFails(x) PROVE RowsHaveIntegration'
  BY <1>10 DEF CreateSessionFails
<1>11. ASSUME NEW x \in Exchanges, Logout(x) PROVE RowsHaveIntegration'
  BY <1>11 DEF Logout
<1>12. ASSUME NEW q \in Requests, Authenticate(q) PROVE RowsHaveIntegration'
  BY <1>12 DEF Authenticate, UserOf
<1>13. ASSUME NEW q \in Requests, ReadToken(q) PROVE RowsHaveIntegration'
  <2>1. req[q].at # "cascade" /\ \A r \in Requests \ {q} : req'[r] = req[r]
    <3>0. req[q].at = "token"
      BY <1>13 DEF ReadToken
    <3>1. CASE Answers(q)
      BY <3>0, <3>1 DEF Answers
    <3>2. CASE ~Answers(q)
      <4>1. PICK n : req' = [req EXCEPT ![q] = n]
        BY <1>13, <3>2 DEF ReadToken
      <4>2. QED
        BY <3>0, <4>1
    <3>3. QED
      BY <3>1, <3>2
  <2>2. UNCHANGED resources
    BY <1>13 DEF ReadToken
  <2>3. QED
    BY <2>1, <2>2
<1>14. ASSUME NEW q \in Requests, Refresh(q) PROVE RowsHaveIntegration'
  BY <1>14 DEF Refresh
<1>15. ASSUME NEW q \in Requests, RefreshFails(q) PROVE RowsHaveIntegration'
  BY <1>15 DEF RefreshFails, Answers
<1>16. ASSUME NEW q \in Requests, SaveToken(q) PROVE RowsHaveIntegration'
  BY <1>16 DEF SaveToken, Stored, Goes
<1>17. ASSUME NEW q \in Requests, SaveTokenFails(q) PROVE RowsHaveIntegration'
  BY <1>17 DEF SaveTokenFails, Answers
<1>18. ASSUME NEW q \in Requests, Track(q) PROVE RowsHaveIntegration'
  BY <1>18 DEF Track, Answers
<1>19. ASSUME NEW q \in Requests, Untrack(q) PROVE RowsHaveIntegration'
  BY <1>19 DEF Untrack, Answers
<1>20. ASSUME NEW q \in Requests, Link(q) PROVE RowsHaveIntegration'
  BY <1>20 DEF Link, Answers
<1>21. ASSUME NEW q \in Requests, Read(q) PROVE RowsHaveIntegration'
  BY <1>21 DEF Read, Answers
<1>22. ASSUME NEW q \in Requests, Disconnect(q) PROVE RowsHaveIntegration'
  <2> SUFFICES ASSUME NEW u \in tracked', u \notin integrated', u \notin stray'
               PROVE  \E r \in Requests : req'[r].at = "cascade" /\ req'[r].user = u
    OBVIOUS
  <2>1. \A r \in Requests \ {q} : req'[r] = req[r]
    BY <1>22 DEF Disconnect, Goes, Answers
  <2>2. CASE req[q].at = "act" /\ DropIntegration(q) /\ Goes(q, "cascade")
    <3>1. req'[q].at = "cascade" /\ req'[q].user = req[q].user
      BY <2>2, RecordsTyped DEF Goes, Handlers
    <3>2. u \in tracked /\ u \notin stray /\ (u = req[q].user \/ u \notin integrated)
      BY <2>2 DEF DropIntegration
    <3>3. CASE u = req[q].user
      BY <3>1, <3>3
    <3>4. CASE u \notin integrated
      BY <2>1, <2>2, <3>2, <3>4
    <3>5. QED
      BY <3>2, <3>3, <3>4
  <2>3. CASE DropTracked(q) /\ Answers(q)
    <3>1. u \in tracked /\ u \notin stray /\ u # req[q].user /\ u \notin integrated
      BY <2>3 DEF DropTracked
    <3>2. PICK r \in Requests : req[r].at = "cascade" /\ req[r].user = u
      BY <3>1
    <3>3. QED
      BY <2>1, <3>1, <3>2
  <2>4. QED
    BY <1>22, <2>2, <2>3 DEF Disconnect
<1>23. ASSUME NEW q \in Requests, RemoveIdentity(q) PROVE RowsHaveIntegration'
  BY <1>23 DEF RemoveIdentity, Answers
<1>24. ASSUME NEW q \in Requests, RequestFails(q) PROVE RowsHaveIntegration'
  BY <1>24 DEF RequestFails, Answers
<1>25. ASSUME NEW t \in Tokens, Age(t) PROVE RowsHaveIntegration'
  BY <1>25 DEF Age
<1>26. CASE UNCHANGED vars
  BY <1>26 DEF vars
<1>27. QED
  BY <1>1, <1>2, <1>3, <1>4, <1>5, <1>6, <1>7, <1>8, <1>9, <1>10, <1>11, <1>12, <1>13,
     <1>14, <1>15, <1>16, <1>17, <1>18, <1>19, <1>20, <1>21, <1>22, <1>23, <1>24,
     <1>25, <1>26 DEF Next

\* The inductive invariant holds of every reachable state.
THEOREM Invariance == Spec => []IInv
<1>1. IInv /\ [Next]_vars => IInv'
  BY StepType, StepLogin, StepRequest, StepTokens, StepStable, StepRows DEF IInv
<1>2. QED
  BY InitInv, <1>1, PTL DEF Spec

\* A login that was begun once gives at most one session.
THEOREM LoginsAreSingle == Spec => []OneSessionPerLogin
<1>1. IInv => OneSessionPerLogin
  <2> SUFFICES ASSUME IInv, NEW x \in Exchanges, NEW y \in Exchanges,
                      session[x] # "none", session[y] # "none", x # y
               PROVE  cb[ex[x].from].state # cb[ex[y].from].state
    BY DEF OneSessionPerLogin
  <2>1. ex[x].from \in Callbacks /\ ex[y].from \in Callbacks /\ ex[x].from # ex[y].from
    BY DEF IInv, TypeOK, LoginView
  <2>2. cb[ex[x].from].at = "done" /\ cb[ex[y].from].at = "done"
    BY <2>1 DEF IInv, LoginView
  <2>3. cb[ex[x].from].state # None
    BY <2>1, <2>2 DEF IInv, LoginView
  <2>4. QED
    BY <2>1, <2>3 DEF IInv, LoginView
<1>2. QED
  BY Invariance, <1>1, PTL

\* An account keeps its user, whatever becomes of the addresses.
THEOREM AccountsKeepTheirUser == Spec => []StableUser
<1>1. IInv => StableUser
  BY DEF IInv
<1>2. QED
  BY Invariance, <1>1, PTL

\* Service.Token and GitHub's Refresh: the token stored for an account still has its
\* refresh token, unless its successor is about to be stored, got lost, or a request
\* stored a token again that another had refreshed meanwhile.
THEOREM TokensStayUsable == Spec => []StoredTokenUsable
<1>1. IInv => StoredTokenUsable
  BY DEF IInv
<1>2. QED
  BY Invariance, <1>1, PTL

\* A row that is tracked without an integration was added without one, or its
\* removal is under way or failed.
THEOREM RowsAreExplained == Spec => []RowsHaveIntegration
<1>1. IInv => RowsHaveIntegration
  BY DEF IInv
<1>2. QED
  BY Invariance, <1>1, PTL
=============================================================================
