------------------------------ MODULE Accounts ------------------------------
(***************************************************************************)
(* Accounts: sign-up, e-mail verification, sessions and the deletion of an  *)
(* account.  A request is interruptible at every await.                     *)
(*                                                                         *)
(* A refresh token is a signed text that says no more than the user and the *)
(* second it was signed in, so <<user, iat>> is the token; the session it   *)
(* belongs to is ours, nothing in the code knows it.                        *)
(***************************************************************************)
EXTENDS Naturals

CONSTANTS
  Users,        \* e-mail addresses; an address signs up once
  Handlers,     \* requests that may be in flight at once
  None,
  TokenLife,    \* JWT_REFRESH_EXPIRES_IN
  AccessLife,   \* JWT_ACCESS_EXPIRES_IN
  LinkLife,     \* the 24 hours of an activation link
  Day,
  MaxTime,      \* bound: the clock
  MaxLinks,     \* bound: activation links issued
  MaxSessions   \* bound: sessions opened

Tokens == [user : Users, iat : 0..MaxTime, session : 1..MaxSessions]
Links == [id : 1..MaxLinks, token : 1..MaxLinks, exp : 0..(MaxTime + LinkLife)]

ASSUME AccountsAssumption ==
  /\ None \notin Users \cup Tokens \cup Links
  /\ Day \in Nat \ {0}
  /\ {TokenLife, AccessLife, LinkLife, MaxTime, MaxLinks, MaxSessions} \subseteq Nat

VARIABLES
  now,          \* the clock, in seconds
  \* The database.
  account,      \* "none", "open" or "deleted"
  created,      \* User.createdAt
  verified,     \* User.isVerified
  tokens,       \* RefreshToken rows
  link,         \* the user's VerificationToken row, or None
  \* Requests in flight.
  at,           \* the await a request is at
  who,          \* its user
  held,         \* the refresh token it read, or is about to store
  ref,          \* the activation link it read, or is about to mail
  \* What clients have.
  access,       \* until when the user's last access token is accepted
  mailed,       \* the links that were mailed
  \* Counters, for fresh values.
  issued, opened,
  \* What happened so far; no code reads these.
  latest,       \* the user's newest link
  ended,        \* sessions that are over, see LogsOut and DeleteAccount
  forked,       \* sessions refreshed by two calls at once
  crossed       \* links stored while a call was about to delete the row as expired

userVars    == <<account, created, verified>>
callVars    == <<at, who, held, ref>>
linkVars    == <<link, mailed, issued, latest, crossed>>
sessionVars == <<tokens, access, opened, ended, forked>>
vars == <<now, userVars, callVars, linkVars, sessionVars>>

Steps == {"idle", "create", "sign", "save", "mail", "drop", "purge", "expire", "mark",
          "erase", "upsert"}

TypeOK ==
  /\ now \in 0..MaxTime
  /\ account \in [Users -> {"none", "open", "deleted"}]
  /\ created \in [Users -> 0..MaxTime]
  /\ verified \in [Users -> BOOLEAN]
  /\ tokens \subseteq Tokens
  /\ link \in [Users -> Links \cup {None}]
  /\ at \in [Handlers -> Steps]
  /\ who \in [Handlers -> Users \cup {None}]
  /\ held \in [Handlers -> Tokens \cup {None}]
  /\ ref \in [Handlers -> Links \cup {None}]
  /\ access \in [Users -> 0..(MaxTime + AccessLife)]
  /\ mailed \subseteq 1..MaxLinks
  /\ issued \in 0..MaxLinks
  /\ opened \in 0..MaxSessions
  /\ latest \in [Users -> Links \cup {None}]
  /\ ended \subseteq 1..MaxSessions
  /\ forked \subseteq 1..MaxSessions
  /\ crossed \subseteq 1..MaxLinks

Init ==
  /\ now = 0
  /\ account = [u \in Users |-> "none"]
  /\ created = [u \in Users |-> 0]
  /\ verified = [u \in Users |-> FALSE]
  /\ tokens = {}
  /\ link = [u \in Users |-> None]
  /\ at = [h \in Handlers |-> "idle"]
  /\ who = [h \in Handlers |-> None]
  /\ held = [h \in Handlers |-> None]
  /\ ref = [h \in Handlers |-> None]
  /\ access = [u \in Users |-> 0]
  /\ mailed = {}
  /\ issued = 0
  /\ opened = 0
  /\ latest = [u \in Users |-> None]
  /\ ended = {}
  /\ forked = {}
  /\ crossed = {}

Tick == now < MaxTime /\ now' = now + 1 /\ UNCHANGED <<userVars, callVars, linkVars, sessionVars>>

Call(h, step, u, t, l) ==
  /\ at' = [at EXCEPT ![h] = step]
  /\ who' = [who EXCEPT ![h] = u]
  /\ held' = [held EXCEPT ![h] = t]
  /\ ref' = [ref EXCEPT ![h] = l]
Begin(h, step, u) == at[h] = "idle" /\ Call(h, step, u, None, None)
Goto(h, step) == Call(h, step, who[h], held[h], ref[h])
Return(h) == Call(h, "idle", None, None, None)

-----------------------------------------------------------------------------
(* generateTokens: sign, then store.                                        *)

MintedLate(u, session) == [user |-> u, iat |-> now + 1, session |-> session]
Minted(u, session) == [user |-> u, iat |-> now, session |-> session]

\* A refresh goes on with the session of the token it used up.
Sign(h) ==
  /\ at[h] = "sign"
  /\ LET session == IF held[h] = None THEN opened + 1 ELSE held[h].session IN
       /\ session <= MaxSessions
       /\ opened' = IF held[h] = None THEN session ELSE opened
       /\ Call(h, "save", who[h], Minted(who[h], session), ref[h])
  /\ UNCHANGED <<now, userVars, linkVars, tokens, access, ended, forked>>

\* The column is unique, and the row refers to its user.
Storable(t) == account[t.user] = "open" /\ \A s \in tokens : <<s.user, s.iat>> # <<t.user, t.iat>>

\* Only sign-up has a link to mail afterwards; a refused insert ends the call with an error.
saveRefreshToken(h) ==
  /\ at[h] = "save"
  /\ LET t == held[h] IN
       \/ /\ Storable(t)
          /\ tokens' = tokens \cup {t}
          /\ access' = [access EXCEPT ![t.user] =
                          IF @ < t.iat + AccessLife THEN t.iat + AccessLife ELSE @]
          /\ IF ref[h] = None THEN Return(h) ELSE Call(h, "mail", who[h], None, ref[h])
       \/ ~Storable(t) /\ Return(h) /\ UNCHANGED <<tokens, access>>
  /\ UNCHANGED <<now, userVars, linkVars, opened, ended, forked>>

-----------------------------------------------------------------------------
(* Sign-up and log-in.                                                      *)

\* An address that is taken, a wrong password, an unknown user: the call leaves nothing.
SignUp(h, u) ==
  /\ account[u] = "none" /\ Begin(h, "create", u)
  /\ UNCHANGED <<now, userVars, linkVars, sessionVars>>

\* The row, or None, that an upsert for the user leaves.
upsertForUserKeeps(u, new) == IF link[u] = None THEN new ELSE link[u]
upsertForUser(u, new) ==
  IF link[u] = None THEN new ELSE [link[u] EXCEPT !.token = new.token, !.exp = new.exp]

NewLink == [id |-> issued + 1, token |-> issued + 1, exp |-> now + LinkLife]

StoreLink(u, l) ==
  /\ issued < MaxLinks /\ issued' = issued + 1
  /\ link' = [link EXCEPT ![u] = l]
  /\ latest' = [latest EXCEPT ![u] = [l EXCEPT !.token = issued + 1, !.exp = now + LinkLife]]
  /\ crossed' = IF \E g \in Handlers : at[g] = "expire" /\ who[g] = u /\ ref[g].id = l.id
                THEN crossed \cup {issued + 1} ELSE crossed

\* The address is unique: the second of two sign-ups fails here.
createUser(h) ==
  /\ at[h] = "create"
  /\ LET u == who[h] IN
       \/ /\ account[u] = "none"
          /\ account' = [account EXCEPT ![u] = "open"]
          /\ created' = [created EXCEPT ![u] = now]
          /\ StoreLink(u, NewLink)
          /\ Call(h, "sign", u, None, NewLink)
       \/ account[u] # "none" /\ Return(h) /\ UNCHANGED <<account, created, link, issued, latest, crossed>>
  /\ UNCHANGED <<now, verified, mailed, sessionVars>>

\* The page with the link.  One that is refused is as one whose link nobody follows.
sendEmailAccountCreation(h) ==
  /\ at[h] = "mail"
  /\ mailed' = mailed \cup {ref[h].token}
  /\ Return(h)
  /\ UNCHANGED <<now, userVars, link, issued, latest, crossed, sessionVars>>

isSameDay(a, b) == a \div Day = b \div Day

\* The password is compared with the row read here; a wrong one ends the call.
Login(h, u) ==
  /\ account[u] = "open"
  /\ verified[u] \/ ~isSameDay(created[u], now)
  /\ Begin(h, "sign", u)
  /\ UNCHANGED <<now, userVars, linkVars, sessionVars>>

authenticate(u) == now < access[u]

Me(h, u) ==
  /\ authenticate(u) /\ account[u] = "open" /\ Begin(h, "sign", u)
  /\ UNCHANGED <<now, userVars, linkVars, sessionVars>>

-----------------------------------------------------------------------------
(* Refresh and log-out.                                                     *)

Expired(t) == t.iat + TokenLife < now
\* The sessions whose token some call holds, to be replaced or stored.
SessionsOf(T) == {t.session : t \in T}
Held == {held[h] : h \in Handlers} \ {None}
Carried == SessionsOf(Held)

deleteRefreshToken(t) == {s \in tokens : <<s.user, s.iat>> # <<t.user, t.iat>>}
deleteManyRefreshToken(u) == {t \in tokens : ~(t.user = u /\ Expired(t))}
deleteAllUserRefreshTokensExpired(u) == deleteManyRefreshToken(u)
deleteAllUserRefreshTokens(u) == {t \in tokens : t.user # u}

RefreshFind(h, t) ==
  /\ at[h] = "idle"
  /\ ~Expired(t)
  /\ Call(h, "drop", t.user, t, None)
  /\ forked' = IF t.session \in Carried THEN forked \cup {t.session} ELSE forked
  /\ UNCHANGED <<now, userVars, linkVars, tokens, access, opened, ended>>

RefreshDropForgotten(h) ==
  /\ at[h] = "drop" /\ Goto(h, "purge") /\ UNCHANGED <<now, userVars, linkVars, sessionVars>>
RefreshDrop(h) ==
  /\ at[h] = "drop"
  /\ tokens' = deleteRefreshToken(held[h])
  /\ Goto(h, "purge")
  /\ UNCHANGED <<now, userVars, linkVars, access, opened, ended, forked>>

RefreshPurge(h) ==
  /\ at[h] = "purge"
  /\ tokens' = deleteManyRefreshToken(who[h])
  /\ Goto(h, "sign")
  /\ UNCHANGED <<now, userVars, linkVars, access, opened, ended, forked>>

\* Logging out of these tokens ends the sessions that have no other and no call to carry on.
LogsOut(T, rest) ==
  /\ tokens' = rest
  /\ ended' = ended \cup (SessionsOf(T) \ (SessionsOf(tokens \ T) \cup Carried))

Logout(t) ==
  /\ LogsOut({t}, deleteRefreshToken(t))
  /\ UNCHANGED <<now, userVars, callVars, linkVars, access, opened, forked>>

LogoutAll(u) ==
  /\ authenticate(u)
  /\ LogsOut({t \in tokens : t.user = u}, deleteAllUserRefreshTokens(u))
  /\ UNCHANGED <<now, userVars, callVars, linkVars, access, opened, forked>>

\* The rows of the user go with it; not even a call that carries one of its sessions may
\* bring it back.
DeleteAccount(u) ==
  /\ authenticate(u) /\ account[u] = "open"
  /\ account' = [account EXCEPT ![u] = "deleted"]
  /\ tokens' = {t \in tokens : t.user # u}
  /\ ended' = ended \cup SessionsOf({t \in tokens \cup Held : t.user = u})
  /\ link' = [link EXCEPT ![u] = None]
  /\ UNCHANGED <<now, created, verified, callVars, mailed, issued, latest, crossed, access,
                 opened, forked>>

-----------------------------------------------------------------------------
(* E-mail verification.                                                     *)

VerifyFind(h, u) ==
  /\ at[h] = "idle" /\ link[u] # None /\ link[u].token \in mailed
  /\ Call(h, IF link[u].exp < now THEN "expire" ELSE "mark", u, None, link[u])
  /\ UNCHANGED <<now, userVars, linkVars, sessionVars>>

\* By id, whatever token the row has by then; without a row the call fails, and is over too.
deleteLink(h) ==
  /\ at[h] \in {"expire", "erase"}
  /\ link' = [link EXCEPT ![who[h]] = IF @ # None /\ @.id = ref[h].id THEN None ELSE @]
  /\ Return(h)
  /\ UNCHANGED <<now, userVars, mailed, issued, latest, crossed, sessionVars>>

markVerified(h) ==
  /\ at[h] = "mark"
  /\ \/ /\ account[who[h]] = "open"
        /\ verified' = [verified EXCEPT ![who[h]] = TRUE]
        /\ Goto(h, "erase")
     \/ account[who[h]] # "open" /\ Return(h) /\ UNCHANGED verified
  /\ UNCHANGED <<now, account, created, linkVars, sessionVars>>

ResendFind(h, u) ==
  /\ account[u] = "open" /\ ~verified[u]
  /\ Begin(h, "upsert", u)
  /\ UNCHANGED <<now, userVars, linkVars, sessionVars>>

ResendUpsert(h) ==
  /\ at[h] = "upsert"
  /\ LET u == who[h] IN
       \/ /\ account[u] = "open"
          /\ StoreLink(u, upsertForUser(u, NewLink))
          /\ Call(h, "mail", u, None, NewLink)
       \/ account[u] # "open" /\ Return(h) /\ UNCHANGED <<link, issued, latest, crossed>>
  /\ UNCHANGED <<now, userVars, mailed, sessionVars>>

-----------------------------------------------------------------------------
SessionStep(h) ==
  \/ Sign(h) \/ saveRefreshToken(h) \/ RefreshDrop(h) \/ RefreshPurge(h)
  \/ \E t \in tokens : RefreshFind(h, t)
  \/ \E u \in Users : Login(h, u) \/ Me(h, u)
LinkStep(h) ==
  \/ createUser(h) \/ sendEmailAccountCreation(h) \/ deleteLink(h) \/ markVerified(h)
  \/ ResendUpsert(h)
  \/ \E u \in Users : SignUp(h, u) \/ VerifyFind(h, u) \/ ResendFind(h, u)

Next ==
  \/ Tick
  \/ \E h \in Handlers : SessionStep(h) \/ LinkStep(h)
  \/ \E t \in tokens : Logout(t)
  \/ \E u \in Users : LogoutAll(u) \/ DeleteAccount(u)

Spec == Init /\ [][Next]_vars

-----------------------------------------------------------------------------
\* Log-out and log-out of all sessions are final for every session no call is carrying at
\* that moment, and the deletion of an account for all of them, although calls that looked
\* the user or a token up before go on to store tokens afterwards.
LogoutIsFinal == \A t \in tokens : t.session \notin ended

\* The rotation keeps one token per session: unless two refreshes of a session overlap
\* (both then find the token, and both get a new one), the token that was used up is never
\* accepted beside its successor, whatever is minted in the same second.
OneTokenPerSession ==
  \A s, t \in tokens : s.session = t.session /\ s.session \notin forked => s = t

\* "This activation link expires in 24 hours": until then the newest link of a user who is
\* not verified works, however many old links are tried or links sent in the meantime;
\* except that a link stored just while an expired one is cleared away is lost with it.
NewestLinkWorks ==
  \A u \in Users :
    account[u] = "open" /\ ~verified[u] /\ latest[u].exp >= now /\ latest[u].token \notin crossed
      => link[u] = latest[u]
=============================================================================
