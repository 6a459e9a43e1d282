------------------------------- MODULE Accounts -------------------------------
(***************************************************************************)
(* Logins and accounts of the daemon (internal/auth, internal/store): an   *)
(* OAuth state is consumed by a callback, which finds or creates the user, *)
(* stores the provider's token and issues a one-time code; the code is     *)
(* exchanged for a session; requests of the session use the stored token   *)
(* and refresh it, and change what the user has linked and tracked.       *)
(*                                                                         *)
(* Handlers run concurrently, each a few database statements and calls to  *)
(* GitHub: every statement and call is a step.  A step that fails, whose   *)
(* answer is lost, or that meets the end of the process, ends its handler. *)
(* A user is named by the callback that inserted the row, a provider token *)
(* by the callback or request that got it, a code by its callback and a    *)
(* session by its exchange.  GitHub's refresh tokens work once.            *)
(***************************************************************************)
EXTENDS Naturals, FiniteSets

CONSTANTS
  States, Callbacks, Exchanges, Requests,   \* what clients may start
  Accounts,                                 \* accounts at GitHub
  Emails, NoEmail,                          \* verified addresses, or none shown
  MaxCalls,                                 \* callbacks, exchanges and requests that begin
  None

ASSUME AccountsConstants ==
  /\ None \notin States \cup Callbacks \cup Requests \cup Accounts \cup Emails \cup {NoEmail}
  /\ NoEmail \notin Emails
  /\ Callbacks \cap Requests = {}   \* a token is named by whichever of them got it
  /\ MaxCalls \in Nat

Users == Callbacks
Tokens == Callbacks \cup Requests
Ops == {"provider", "rows"}   \* handlers that ask for the provider's token, and others

VARIABLES
  state,      \* oauth_states: none, live, gone
  cb,         \* each callback: where it is, its account and the user it found
  mail,       \* users: the address of each row, None without a row
  owner,      \* user_identities: the user of each account, None without a row
  older,      \* which row of two accounts was created before the other
  token,      \* user_identities: the token of each row
  code,       \* auth_codes: none, live, gone
  ex,         \* each exchange: where it is and the callback its code is from
  session,    \* sessions: none, live, gone (revoked or expired)
  req,        \* each request: where it is, its kind and what it has read
  tracked,    \* tracked_repositories: the users with a row
  integrated, \* user_integrations: the users with a row
  age,        \* of each provider token: none, fresh, near its end, over
  spent,      \* provider tokens whose refresh token was used
  parted,     \* history: callbacks whose account was unlinked since
  lost,       \* history: tokens whose successor was not stored
  rewritten,  \* history: tokens that a request read and stored again
  stray       \* history: users with rows tracked without, or left by, an integration

vars == <<state, cb, mail, owner, older, token, code, ex, session, req, tracked, integrated,
          age, spent, parted, lost, rewritten, stray>>

logins == <<state, cb, code, ex, session>>
identities == <<mail, owner, older, token, parted>>
resources == <<tracked, integrated, stray>>
provider == <<age, spent, lost, rewritten>>

NoCall == [at |-> "none", account |-> None, mail |-> None, user |-> None, state |-> None]
NoExchange == [at |-> "none", from |-> None]
NoRequest == [at |-> "none", op |-> None, user |-> None, account |-> None, read |-> None, got |-> None]

Init ==
  /\ state = [s \in States |-> "none"]
  /\ cb = [c \in Callbacks |-> NoCall]
  /\ mail = [u \in Users |-> None]
  /\ owner = [a \in Accounts |-> None]
  /\ older = {}
  /\ token = [a \in Accounts |-> None]
  /\ code = [c \in Callbacks |-> "none"]
  /\ ex = [x \in Exchanges |-> NoExchange]
  /\ session = [x \in Exchanges |-> "none"]
  /\ req = [q \in Requests |-> NoRequest]
  /\ tracked = {} /\ integrated = {}
  /\ age = [t \in Tokens |-> "none"]
  /\ spent = {} /\ parted = {} /\ lost = {} /\ rewritten = {} /\ stray = {}

\* The bound on what clients start.
Begun ==
  Cardinality({c \in Callbacks : cb[c].at # "none"})
  + Cardinality({x \in Exchanges : ex[x].at # "none"})
  + Cardinality({q \in Requests : req[q].at # "none"})

-----------------------------------------------------------------------------
(* Login *)

Begin(s) ==
  /\ state[s] = "none"
  /\ state' = [state EXCEPT ![s] = "live"]
  /\ UNCHANGED <<cb, code, ex, session, identities, req, resources, provider>>

\* One statement deletes the row and returns it: a second callback with the same
\* state, or one that comes too late, is refused and changes nothing.
ConsumeOAuthState(c) ==
  /\ cb[c].at = "none" /\ Begun < MaxCalls
  /\ \E s \in States :
       /\ state[s] = "live"
       /\ state' = [state EXCEPT ![s] = "gone"]
       /\ cb' = [cb EXCEPT ![c] = [@ EXCEPT !.at = "exchange", !.state = s]]
  /\ UNCHANGED <<code, ex, session, identities, req, resources, provider>>

\* The provider exchanges its code for a token and says whose it is.
ProviderExchange(c) ==
  /\ cb[c].at = "exchange"
  /\ \E a \in Accounts, e \in Emails \cup {NoEmail} :
       cb' = [cb EXCEPT ![c] = [@ EXCEPT !.at = "find", !.account = a, !.mail = e]]
  /\ age' = [age EXCEPT ![c] = "fresh"]
  /\ UNCHANGED <<state, code, ex, session, identities, req, resources, spent, lost, rewritten>>

\* The user with this address, or a new row.
UserWith(c, e) ==
  IF e # NoEmail /\ \E u \in Users : mail[u] = e THEN CHOOSE u \in Users : mail[u] = e ELSE c

\* Mutant of FindOrCreateIdentity: the user of the address is returned.
FindByEmail(c) ==
  LET a == cb[c].account
      u == UserWith(c, cb[c].mail)
  IN
  /\ cb[c].at = "find"
  /\ mail' = [mail EXCEPT ![u] = cb[c].mail]
  /\ IF owner[a] = None
     THEN /\ owner' = [owner EXCEPT ![a] = u]
          /\ older' = older \cup ({b \in Accounts : owner[b] # None} \X {a})
     ELSE UNCHANGED <<owner, older>>
  /\ cb' = [cb EXCEPT ![c] = [@ EXCEPT !.at = "update", !.user = u]]
  /\ UNCHANGED <<state, code, ex, session, token, parted, req, resources, provider>>

\* One transaction, whose inserts wait for those of another on the same row: a row
\* for the address, then the identity unless the account has one; the user is the
\* one the identity belongs to, so a new row may be left without an identity.
FindOrCreateIdentity(c) ==
  LET a == cb[c].account
      u == UserWith(c, cb[c].mail)
  IN
  /\ cb[c].at = "find"
  /\ mail' = [mail EXCEPT ![u] = cb[c].mail]
  /\ IF owner[a] = None
     THEN /\ owner' = [owner EXCEPT ![a] = u]
          /\ older' = older \cup ({b \in Accounts : owner[b] # None} \X {a})
     ELSE UNCHANGED <<owner, older>>
  /\ cb' = [cb EXCEPT ![c] = [@ EXCEPT !.at = "update", !.user = owner'[a]]]
  /\ UNCHANGED <<state, code, ex, session, token, parted, req, resources, provider>>

\* UPDATE ... WHERE provider_user_id: no row, no error.
Stored(a, t) == token' = IF owner[a] = None THEN token ELSE [token EXCEPT ![a] = t]

UpdateTokens(c) ==
  /\ cb[c].at = "update"
  /\ Stored(cb[c].account, c)
  /\ cb' = [cb EXCEPT ![c].at = "code"]
  /\ UNCHANGED <<state, code, ex, session, mail, owner, older, parted, req, resources, provider>>

CreateAuthCode(c) ==
  /\ cb[c].at = "code"
  /\ code' = [code EXCEPT ![c] = "live"]
  /\ cb' = [cb EXCEPT ![c].at = "done"]
  /\ UNCHANGED <<state, ex, session, identities, req, resources, provider>>

\* The state is consumed all the same: the login has to begin again.
CallbackFails(c) ==
  /\ cb[c].at \in {"exchange", "find", "update", "code"}
  /\ cb' = [cb EXCEPT ![c] = [NoCall EXCEPT !.at = "failed"]]
  /\ UNCHANGED <<state, code, ex, session, identities, req, resources, provider>>

\* Mutant of ConsumeAuthCode: the code is read and left.
ReadAuthCode(x) ==
  /\ ex[x].at = "none" /\ Begun < MaxCalls
  /\ \E c \in Callbacks : code[c] = "live" /\ ex' = [ex EXCEPT ![x] = [at |-> "create", from |-> c]]
  /\ UNCHANGED <<state, cb, code, session, identities, req, resources, provider>>

ConsumeAuthCode(x) ==
  /\ ex[x].at = "none" /\ Begun < MaxCalls
  /\ \E c \in Callbacks :
       /\ code[c] = "live"
       /\ code' = [code EXCEPT ![c] = "gone"]
       /\ ex' = [ex EXCEPT ![x] = [at |-> "create", from |-> c]]
  /\ UNCHANGED <<state, cb, session, identities, req, resources, provider>>

CreateSession(x) ==
  /\ ex[x].at = "create"
  /\ session' = [session EXCEPT ![x] = "live"]
  /\ ex' = [ex EXCEPT ![x].at = "done"]
  /\ UNCHANGED <<state, cb, code, identities, req, resources, provider>>

CreateSessionFails(x) ==
  /\ ex[x].at = "create"
  /\ ex' = [ex EXCEPT ![x].at = "failed"]
  /\ UNCHANGED <<state, cb, code, session, identities, req, resources, provider>>

\* The session is revoked, or reaches its expires_at.  A state or a code that
\* expires is one that is never consumed.
Logout(x) ==
  /\ session[x] = "live"
  /\ session' = [session EXCEPT ![x] = "gone"]
  /\ UNCHANGED <<state, cb, code, ex, identities, req, resources, provider>>

-----------------------------------------------------------------------------
(* Requests *)

UserOf(x) == cb[ex[x].from].user

\* The Authentication middleware.  The session may end before the handler goes on.
\* Which handler it is, of its kind, is left open until it acts.
Authenticate(q) ==
  /\ req[q].at = "none" /\ Begun < MaxCalls
  /\ \E x \in Exchanges, op \in Ops :
       /\ session[x] = "live"
       /\ req' = [req EXCEPT ![q] = [@ EXCEPT !.at = IF op = "provider" THEN "token" ELSE "act",
                                              !.op = op, !.user = UserOf(x)]]
  /\ UNCHANGED <<logins, identities, resources, provider>>

Goes(q, at) == req' = [req EXCEPT ![q].at = at]

\* The handler answers and forgets what it has read.
Answers(q) == req' = [req EXCEPT ![q] = [NoRequest EXCEPT !.at = "done"]]

\* GetUserIdentities orders by creation, and the first of the provider is taken.
FirstOf(u, a) == owner[a] = u /\ \A b \in Accounts \ {a} : owner[b] = u => <<a, b>> \in older

\* Token: no identity, or one whose token is good for five minutes, or has no end.
ReadToken(q) ==
  /\ req[q].at = "token"
  /\ \/ (\A a \in Accounts : owner[a] # req[q].user) /\ Answers(q)
     \/ \E a \in Accounts :
          /\ FirstOf(req[q].user, a)
          /\ req' = [req EXCEPT ![q] =
               [@ EXCEPT !.account = a, !.read = token[a],
                         !.at = IF token[a] # None /\ age[token[a]] # "fresh" THEN "refresh" ELSE "act"]]
  /\ UNCHANGED <<logins, identities, resources, provider>>

\* The oauth2 library hands back a token that is good for another ten seconds; else
\* GitHub takes the refresh token, once.
Refresh(q) ==
  LET t == req[q].read IN
  /\ req[q].at = "refresh"
  /\ \/ /\ age[t] = "near"
        /\ req' = [req EXCEPT ![q] = [@ EXCEPT !.at = "save", !.got = t]]
        /\ UNCHANGED <<age, spent>>
     \/ /\ age[t] = "over" /\ t \notin spent
        /\ req' = [req EXCEPT ![q] = [@ EXCEPT !.at = "save", !.got = q]]
        /\ age' = [age EXCEPT ![q] = "fresh"]
        /\ spent' = spent \cup {t}
  /\ UNCHANGED <<logins, identities, resources, lost, rewritten>>

\* GitHub refuses, is not reached, or its answer does not come back.
RefreshFails(q) ==
  LET t == req[q].read IN
  /\ req[q].at = "refresh"
  /\ Answers(q)
  /\ \/ UNCHANGED <<spent, lost>>
     \/ age[t] = "over" /\ t \notin spent /\ spent' = spent \cup {t} /\ lost' = lost \cup {t}
  /\ UNCHANGED <<logins, identities, resources, age, rewritten>>

\* Mutant of SaveToken: the token is used and not stored.
TokenUnsaved(q) ==
  /\ req[q].at = "save"
  /\ Goes(q, "act")
  /\ UNCHANGED <<logins, identities, resources, provider>>

SaveToken(q) ==
  /\ req[q].at = "save"
  /\ Stored(req[q].account, req[q].got)
  /\ rewritten' = IF req[q].got = req[q].read THEN rewritten \cup {req[q].read} ELSE rewritten
  /\ Goes(q, "act")
  /\ UNCHANGED <<logins, mail, owner, older, parted, resources, age, spent, lost>>

SaveTokenFails(q) ==
  /\ req[q].at = "save"
  /\ Answers(q)
  /\ lost' = IF req[q].got = req[q].read THEN lost ELSE lost \cup {req[q].read}
  /\ UNCHANGED <<logins, identities, resources, age, spent, rewritten>>

\* TrackRepository inserts a row, once per user, and does not ask for an integration.
Track(q) ==
  LET u == req[q].user IN
  /\ req[q].at = "act" /\ req[q].op = "provider" /\ u \notin tracked
  /\ tracked' = tracked \cup {u}
  /\ stray' = IF u \in integrated THEN stray ELSE stray \cup {u}
  /\ Answers(q)
  /\ UNCHANGED <<integrated, logins, identities, provider>>

Untrack(q) ==
  /\ req[q].at = "act" /\ req[q].op = "rows"
  /\ tracked' = tracked \ {req[q].user}
  /\ stray' = stray \ {req[q].user}
  /\ Answers(q)
  /\ UNCHANGED <<integrated, logins, identities, provider>>

\* LinkUserIntegration inserts or updates the row.
Link(q) ==
  /\ req[q].at = "act" /\ req[q].op = "provider"
  /\ integrated' = integrated \cup {req[q].user}
  /\ Answers(q)
  /\ UNCHANGED <<tracked, stray, logins, identities, provider>>

\* The lists of branches, repositories and installations change nothing.
Read(q) ==
  /\ req[q].at = "act" /\ req[q].op = "provider"
  /\ Answers(q)
  /\ UNCHANGED <<logins, identities, resources, provider>>

DropIntegration(q) == integrated' = integrated \ {req[q].user} /\ UNCHANGED <<tracked, stray>>

DropTracked(q) ==
  /\ tracked' = tracked \ {req[q].user}
  /\ stray' = stray \ {req[q].user}
  /\ UNCHANGED integrated

\* Mutant of Disconnect: the tracked repositories go first.
DisconnectRowsFirst(q) ==
  /\ \/ req[q].at = "act" /\ req[q].op = "rows" /\ DropTracked(q) /\ Goes(q, "cascade")
     \/ req[q].at = "cascade" /\ DropIntegration(q) /\ Answers(q)
  /\ UNCHANGED <<logins, identities, provider>>

\* UnlinkUserIntegration: two statements, no transaction.
Disconnect(q) ==
  /\ \/ req[q].at = "act" /\ req[q].op = "rows" /\ DropIntegration(q) /\ Goes(q, "cascade")
     \/ req[q].at = "cascade" /\ DropTracked(q) /\ Answers(q)
  /\ UNCHANGED <<logins, identities, provider>>

\* RemoveIdentity deletes every identity of the user at the provider.
RemoveIdentity(q) ==
  LET u == req[q].user IN
  /\ req[q].at = "act" /\ req[q].op = "rows"
  /\ owner' = [a \in Accounts |-> IF owner[a] = u THEN None ELSE owner[a]]
  /\ older' = {p \in older : owner[p[1]] # u /\ owner[p[2]] # u}
  /\ token' = [a \in Accounts |-> IF owner[a] = u THEN None ELSE token[a]]
  /\ parted' = parted \cup {c \in Callbacks : cb[c].user = u}
  /\ Answers(q)
  /\ UNCHANGED <<logins, mail, resources, provider>>

\* A statement or a call to GitHub fails: the handler answers with the error.
RequestFails(q) ==
  /\ req[q].at \in {"token", "act", "cascade"}
  /\ Answers(q)
  /\ stray' = IF req[q].at = "cascade" THEN stray \cup {req[q].user} ELSE stray
  /\ UNCHANGED <<logins, identities, tracked, integrated, provider>>

\* Time passes for a token that is stored or in use; nobody looks at another.
Age(t) ==
  /\ age[t] \in {"fresh", "near"}
  /\ (\E a \in Accounts : token[a] = t) \/ (\E q \in Requests : req[q].at = "refresh" /\ req[q].read = t)
  /\ age' = [age EXCEPT ![t] = IF @ = "fresh" THEN "near" ELSE "over"]
  /\ UNCHANGED <<logins, identities, req, resources, spent, lost, rewritten>>

-----------------------------------------------------------------------------

Next ==
  \/ \E s \in States : Begin(s)
  \/ \E c \in Callbacks : ConsumeOAuthState(c) \/ ProviderExchange(c) \/ FindOrCreateIdentity(c)
                          \/ UpdateTokens(c) \/ CreateAuthCode(c) \/ CallbackFails(c)
  \/ \E x \in Exchanges : ConsumeAuthCode(x) \/ CreateSession(x) \/ CreateSessionFails(x) \/ Logout(x)
  \/ \E q \in Requests : Authenticate(q) \/ ReadToken(q) \/ Refresh(q) \/ RefreshFails(q)
                         \/ SaveToken(q) \/ SaveTokenFails(q) \/ Track(q) \/ Untrack(q) \/ Link(q)
                         \/ Read(q) \/ Disconnect(q) \/ RemoveIdentity(q) \/ RequestFails(q)
  \/ \E t \in Tokens : Age(t)

Spec == Init /\ [][Next]_vars

-----------------------------------------------------------------------------
(* Properties *)

CallStates == {"none", "exchange", "find", "update", "code", "done", "failed"}
RequestStates == {"none", "token", "refresh", "save", "act", "cascade", "done"}
Calls == [at : CallStates, account : Accounts \cup {None}, state : States \cup {None},
          mail : Emails \cup {NoEmail, None}, user : Users \cup {None}]
Handlers == [at : RequestStates, op : Ops \cup {None}, user : Users \cup {None},
             account : Accounts \cup {None}, read : Tokens \cup {None}, got : Tokens \cup {None}]

\* The type invariant.
TypeOK ==
  /\ state \in [States -> {"none", "live", "gone"}]
  /\ cb \in [Callbacks -> Calls]
  /\ mail \in [Users -> Emails \cup {NoEmail, None}]
  /\ owner \in [Accounts -> Users \cup {None}]
  /\ older \subseteq Accounts \X Accounts
  /\ token \in [Accounts -> Tokens \cup {None}]
  /\ code \in [Callbacks -> {"none", "live", "gone"}]
  /\ ex \in [Exchanges -> [at : {"none", "create", "done", "failed"}, from : Callbacks \cup {None}]]
  /\ session \in [Exchanges -> {"none", "live", "gone"}]
  /\ req \in [Requests -> Handlers]
  /\ tracked \subseteq Users /\ integrated \subseteq Users /\ stray \subseteq Users
  /\ age \in [Tokens -> {"none", "fresh", "near", "over"}]
  /\ spent \subseteq Tokens /\ lost \subseteq Tokens /\ rewritten \subseteq Tokens
  /\ parted \subseteq Callbacks

\* A login that was begun once gives at most one session, however often its
\* callback and its code are presented and however the handlers interleave.
OneSessionPerLogin ==
  \A x, y \in Exchanges :
    session[x] # "none" /\ session[y] # "none" /\ x # y =>
      cb[ex[x].from].state # cb[ex[y].from].state

\* Whoever logs in with an account gets the user the account belongs to, also when
\* the address at GitHub changed, is hidden or belongs to another user by now; only
\* removing the identity parts them.
StableUser ==
  \A c \in Callbacks :
    cb[c].user # None /\ c \notin parted => owner[cb[c].account] = cb[c].user

\* The token stored for an account still has its refresh token, unless a request
\* is about to store the successor, the successor was lost on the way, or a
\* request stored the token again that it had read before another refreshed it.
StoredTokenUsable ==
  \A a \in Accounts :
    token[a] \in spent =>
      \/ token[a] \in lost \cup rewritten
      \/ \E q \in Requests : /\ req[q].at = "save" /\ req[q].account = a
                            /\ req[q].read = token[a] /\ req[q].got = q

\* Rows stay tracked without an integration only while it is being removed, after
\* the removal failed halfway, or when they were added without one: a row that is
\* added while an integration is removed does not outlive it.
RowsHaveIntegration ==
  tracked \ integrated \subseteq stray \cup {req[q].user : q \in {r \in Requests : req[r].at = "cascade"}}

\* What each step of a login has done: the state it consumed is nobody else's, and
\* so is the code it issued.
LoginView ==
  /\ \A c \in Callbacks :
       /\ cb[c].at \in {"none", "failed"} <=> cb[c].state = None
       /\ cb[c].state # None => state[cb[c].state] = "gone"
       /\ cb[c].at \in {"update", "code", "done"} <=> cb[c].user # None
       /\ cb[c].at \in {"find", "update", "code", "done"} => cb[c].account # None
       /\ code[c] # "none" => cb[c].at = "done"
  /\ \A c, d \in Callbacks : cb[c].state = cb[d].state /\ cb[c].state # None => c = d
  /\ \A x \in Exchanges :
       /\ ex[x].at = "none" <=> ex[x].from = None
       /\ ex[x].from # None => code[ex[x].from] = "gone"
       /\ session[x] # "none" => ex[x].at = "done"
  /\ \A x, y \in Exchanges : ex[x].from = ex[y].from /\ ex[x].from # None => x = y

Refreshing(q) == req[q].at \in {"refresh", "save"}

\* A request acts for a user, and refreshes a token that it has read: it saves the
\* successor it got, or the same token again.
RequestView ==
  \A q \in Requests :
    /\ req[q].at \notin {"none", "done"} => req[q].user # None
    /\ Refreshing(q) => req[q].read # None /\ req[q].account # None
    /\ req[q].at = "save" => req[q].got \in {q, req[q].read}

\* t is the token of account a: in its row, or as read by a request that refreshes it.
TokenOf(t, a) ==
  token[a] = t \/ \E q \in Requests : Refreshing(q) /\ req[q].account = a /\ req[q].read = t

\* The callback or request named by t has not stored the token it may get.
Unstored(t) ==
  \/ t \in Callbacks /\ cb[t].at \in {"none", "exchange", "find", "update"}
  \/ t \in Requests /\ req[t].at \in {"none", "token", "refresh", "save"}

\* A token is at one account, and one that is not stored yet is at none and unspent.
TokenView ==
  /\ \A a \in Accounts : owner[a] = None => token[a] = None
  /\ \A t \in Tokens, a, b \in Accounts : TokenOf(t, a) /\ TokenOf(t, b) => a = b
  /\ \A t \in Tokens : Unstored(t) => t \notin spent /\ \A a \in Accounts : ~TokenOf(t, a)

\* The inductive invariant.
IInv ==
  /\ TypeOK /\ LoginView /\ RequestView /\ TokenView
  /\ StableUser /\ StoredTokenUsable /\ RowsHaveIntegration
=============================================================================
