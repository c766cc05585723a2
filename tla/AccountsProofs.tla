--------------------------- MODULE AccountsProofs ---------------------------
(* Theorems about Accounts.                                                 *)
EXTENDS Accounts, TLAPS

\* A call that is not idle has a user, and what it is to store or mail.
CallOK ==
  \A h \in Handlers :
    /\ at[h] # "idle" => who[h] # None
    /\ at[h] \in {"drop", "purge", "save"} => held[h] # None
    /\ held[h] # None => at[h] \in {"drop", "purge", "sign", "save"} /\ held[h].user = who[h]
    /\ at[h] \in {"mail", "expire", "mark", "erase"} => ref[h] # None

TypeInv == TypeOK /\ CallOK

LEMMA TypeInit == Init => TypeInv
BY AccountsAssumption DEF Init, TypeInv, TypeOK, CallOK, Steps

\* A row of the two tables, and what a call carries, have the fields of their type.
LEMMA TokenType ==
  ASSUME NEW t \in Tokens
  PROVE  t.user \in Users /\ t.iat \in 0..MaxTime /\ t.session \in 1..MaxSessions
BY DEF Tokens

LEMMA NewLinkType ==
  ASSUME TypeOK, issued < MaxLinks
  PROVE  /\ NewLink \in Links /\ issued + 1 \in 1..MaxLinks
         /\ now + LinkLife \in 0..(MaxTime + LinkLife)
<1>1. issued \in Nat /\ issued + 1 \in 1..MaxLinks /\ now \in 0..MaxTime
  BY AccountsAssumption DEF TypeOK
<1>2. now + LinkLife \in 0..(MaxTime + LinkLife)
  BY <1>1, AccountsAssumption
<1> QED BY <1>1, <1>2 DEF NewLink, Links

LEMMA UpsertType ==
  ASSUME TypeOK, NEW u \in Users, NEW new \in Links
  PROVE  upsertForUser(u, new) \in Links
BY DEF TypeOK, upsertForUser, Links

\* What CallOK asks of the arguments of Call, and the types of the variables it writes.
CallShape(step, u, t, l) ==
  /\ step \in Steps /\ u \in Users \cup {None}
  /\ t \in Tokens \cup {None} /\ l \in Links \cup {None}
  /\ step # "idle" => u # None
  /\ step \in {"drop", "purge", "save"} => t # None
  /\ t # None => step \in {"drop", "purge", "sign", "save"} /\ t.user = u
  /\ step \in {"mail", "expire", "mark", "erase"} => l # None

CallTypeOK ==
  /\ at \in [Handlers -> Steps]
  /\ who \in [Handlers -> Users \cup {None}]
  /\ held \in [Handlers -> Tokens \cup {None}]
  /\ ref \in [Handlers -> Links \cup {None}]

LEMMA CallStep ==
  ASSUME TypeInv, NEW h \in Handlers, NEW step, NEW u, NEW t, NEW l,
         CallShape(step, u, t, l), Call(h, step, u, t, l)
  PROVE  CallTypeOK' /\ CallOK'
<1>1. CallTypeOK'
  BY DEF TypeInv, TypeOK, Call, CallShape, CallTypeOK
<1>2. ASSUME NEW g \in Handlers
      PROVE  /\ at'[g] # "idle" => who'[g] # None
             /\ at'[g] \in {"drop", "purge", "save"} => held'[g] # None
             /\ held'[g] # None => at'[g] \in {"drop", "purge", "sign", "save"}
                                   /\ held'[g].user = who'[g]
             /\ at'[g] \in {"mail", "expire", "mark", "erase"} => ref'[g] # None
  <2>1. CASE g = h
    <3>1. at'[g] = step /\ who'[g] = u /\ held'[g] = t /\ ref'[g] = l
      BY <2>1 DEF TypeInv, TypeOK, Call
    <3> QED BY <3>1 DEF CallShape
  <2>2. CASE g # h
    <3>1. at'[g] = at[g] /\ who'[g] = who[g] /\ held'[g] = held[g] /\ ref'[g] = ref[g]
      BY <2>2 DEF TypeInv, TypeOK, Call
    <3> QED BY <3>1 DEF TypeInv, CallOK
  <2> QED BY <2>1, <2>2
<1> QED BY <1>1, <1>2 DEF CallOK

LEMMA CallIdle == TypeInv /\ UNCHANGED callVars => CallTypeOK' /\ CallOK'
BY DEF TypeInv, TypeOK, CallTypeOK, CallOK, callVars

LEMMA ReturnShape == CallShape("idle", None, None, None)
BY DEF CallShape, Steps

LEMMA BeginShape ==
  ASSUME NEW step \in {"create", "sign", "upsert"}, NEW u \in Users
  PROVE  CallShape(step, u, None, None)
BY AccountsAssumption DEF CallShape, Steps

\* The rest of the state.
DataTypeOK ==
  /\ now \in 0..MaxTime
  /\ account \in [Users -> {"none", "open", "deleted"}]
  /\ created \in [Users -> 0..MaxTime]
  /\ verified \in [Users -> BOOLEAN]
  /\ tokens \subseteq Tokens
  /\ link \in [Users -> Links \cup {None}]
  /\ access \in [Users -> 0..(MaxTime + AccessLife)]
  /\ mailed \subseteq 1..MaxLinks
  /\ issued \in 0..MaxLinks
  /\ opened \in 0..MaxSessions
  /\ latest \in [Users -> Links \cup {None}]
  /\ ended \subseteq 1..MaxSessions
  /\ forked \subseteq 1..MaxSessions
  /\ crossed \subseteq 1..MaxLinks

LEMMA TypeParts == TypeOK <=> DataTypeOK /\ CallTypeOK
BY DEF TypeOK, DataTypeOK, CallTypeOK

LEMMA TypeSession ==
  ASSUME TypeInv, NEW h \in Handlers, SessionStep(h)
  PROVE  TypeInv'
<1> USE DEF userVars, linkVars, sessionVars
<1>0. DataTypeOK /\ CallTypeOK /\ CallOK
  BY TypeParts DEF TypeInv
<1> SUFFICES DataTypeOK' /\ CallTypeOK' /\ CallOK'
  BY TypeParts DEF TypeInv, TypeOK, DataTypeOK, CallTypeOK
<1>1. CASE Sign(h)
  <2> DEFINE s == IF held[h] = None THEN opened + 1 ELSE held[h].session
  <2>1. /\ at[h] = "sign" /\ s <= MaxSessions
        /\ opened' = IF held[h] = None THEN s ELSE opened
        /\ Call(h, "save", who[h], Minted(who[h], s), ref[h])
        /\ UNCHANGED <<now, userVars, linkVars, tokens, access, ended, forked>>
    BY <1>1 DEF Sign
  <2>2. s \in 1..MaxSessions
    BY <1>0, <2>1, TokenType, AccountsAssumption DEF DataTypeOK, CallTypeOK
  <2>3. who[h] \in Users /\ ref[h] \in Links \cup {None} /\ now \in 0..MaxTime
    BY <1>0, <2>1 DEF CallOK, CallTypeOK, DataTypeOK
  <2>4. Minted(who[h], s) \in Tokens /\ Minted(who[h], s).user = who[h]
    BY <2>2, <2>3 DEF Minted, Tokens
  <2>5. Minted(who[h], s) # None
    BY <2>4, AccountsAssumption
  <2>6. CallShape("save", who[h], Minted(who[h], s), ref[h])
    BY <2>3, <2>4, <2>5, AccountsAssumption DEF CallShape, Steps
  <2>7. opened' \in 0..MaxSessions
    BY <1>0, <2>1, <2>2 DEF DataTypeOK
  <2>8. DataTypeOK'
    BY <1>0, <2>1, <2>7 DEF DataTypeOK
  <2> HIDE DEF s
  <2> QED BY <2>1, <2>6, <2>8, CallStep
<1>2. CASE saveRefreshToken(h)
  <2>1. held[h] \in Tokens /\ who[h] \in Users /\ ref[h] \in Links \cup {None}
    BY <1>0, <1>2 DEF saveRefreshToken, CallOK, CallTypeOK
  <2>2. held[h].user \in Users /\ held[h].iat + AccessLife \in 0..(MaxTime + AccessLife)
    BY <2>1, TokenType, AccountsAssumption
  <2>3. DataTypeOK'
    BY <1>0, <1>2, <2>1, <2>2 DEF saveRefreshToken, DataTypeOK
  <2>4. Return(h) \/ (ref[h] # None /\ Call(h, "mail", who[h], None, ref[h]))
    BY <1>2 DEF saveRefreshToken
  <2>5. ref[h] # None => CallShape("mail", who[h], None, ref[h])
    BY <2>1, AccountsAssumption DEF CallShape, Steps
  <2> QED BY <2>3, <2>4, <2>5, CallStep, ReturnShape DEF Return
<1>3. CASE RefreshDrop(h) \/ RefreshPurge(h)
  <2>1. DataTypeOK'
    BY <1>0, <1>3 DEF RefreshDrop, RefreshPurge, deleteRefreshToken, deleteManyRefreshToken, DataTypeOK
  <2>2. PICK step \in {"purge", "sign"} : Call(h, step, who[h], held[h], ref[h])
    BY <1>3 DEF RefreshDrop, RefreshPurge, Goto
  <2>3. CallShape(step, who[h], held[h], ref[h])
    BY <1>0, <1>3 DEF RefreshDrop, RefreshPurge, CallOK, CallTypeOK, CallShape, Steps
  <2> QED BY <2>1, <2>2, <2>3, CallStep
<1>4. CASE \E t \in tokens : RefreshFind(h, t)
  <2>1. PICK t \in tokens : RefreshFind(h, t)
    BY <1>4
  <2>2. t \in Tokens /\ t # None /\ t.user \in Users /\ t.session \in 1..MaxSessions
    BY <1>0, TokenType, AccountsAssumption DEF DataTypeOK
  <2>3. CallShape("drop", t.user, t, None)
    BY <2>2, AccountsAssumption DEF CallShape, Steps
  <2>4. DataTypeOK'
    BY <1>0, <2>1, <2>2 DEF RefreshFind, DataTypeOK
  <2> QED BY <2>1, <2>3, <2>4, CallStep DEF RefreshFind
<1>5. CASE \E u \in Users : Login(h, u) \/ Me(h, u)
  <2>1. DataTypeOK'
    BY <1>0, <1>5 DEF Login, Me, DataTypeOK
  <2> QED BY <1>5, <2>1, CallStep, BeginShape DEF Login, Me, Begin
<1> QED BY <1>1, <1>2, <1>3, <1>4, <1>5 DEF SessionStep

LEMMA StoreLinkType ==
  ASSUME TypeOK, NEW u \in Users, NEW l \in Links, StoreLink(u, l)
  PROVE  /\ link' \in [Users -> Links \cup {None}] /\ latest' \in [Users -> Links \cup {None}]
         /\ issued' \in 0..MaxLinks /\ crossed' \subseteq 1..MaxLinks
<1>1. /\ issued < MaxLinks /\ issued' = issued + 1
      /\ link' = [link EXCEPT ![u] = l]
      /\ latest' = [latest EXCEPT ![u] = [l EXCEPT !.token = issued + 1, !.exp = now + LinkLife]]
      /\ crossed' \in {crossed, crossed \cup {issued + 1}}
  BY DEF StoreLink
<1>2. issued + 1 \in 1..MaxLinks /\ now + LinkLife \in 0..(MaxTime + LinkLife)
  BY <1>1, NewLinkType
<1>3. [l EXCEPT !.token = issued + 1, !.exp = now + LinkLife] \in Links
  BY <1>2 DEF Links
<1>4. issued' \in 0..MaxLinks
  BY <1>1, <1>2
<1> QED BY <1>1, <1>2, <1>3, <1>4 DEF TypeOK

LEMMA TypeLink ==
  ASSUME TypeInv, NEW h \in Handlers, LinkStep(h)
  PROVE  TypeInv'
<1> USE DEF userVars, linkVars, sessionVars
<1>0. DataTypeOK /\ CallTypeOK /\ CallOK /\ TypeOK
  BY TypeParts DEF TypeInv
<1> SUFFICES DataTypeOK' /\ CallTypeOK' /\ CallOK'
  BY TypeParts DEF TypeInv, TypeOK, DataTypeOK, CallTypeOK
<1>1. CASE createUser(h)
  <2>1. who[h] \in Users /\ now \in 0..MaxTime
    BY <1>0, <1>1 DEF createUser, CallOK, CallTypeOK, DataTypeOK
  <2>2. CASE account[who[h]] = "none" /\ StoreLink(who[h], NewLink)
             /\ Call(h, "sign", who[h], None, NewLink)
    <3>1. NewLink \in Links
      BY <1>0, <2>2, NewLinkType DEF StoreLink
    <3>2. CallShape("sign", who[h], None, NewLink)
      BY <2>1, <3>1, AccountsAssumption DEF CallShape, Steps
    <3>3. /\ account' \in [Users -> {"none", "open", "deleted"}]
          /\ created' \in [Users -> 0..MaxTime]
      BY <1>0, <1>1, <2>1 DEF createUser, DataTypeOK
    <3>4. UNCHANGED <<now, verified, mailed, sessionVars>>
      BY <1>1 DEF createUser
    <3>5. DataTypeOK'
      BY <1>0, <2>1, <2>2, <3>1, <3>3, <3>4, StoreLinkType DEF DataTypeOK
    <3> QED BY <2>2, <3>2, <3>5, CallStep
  <2>3. CASE Return(h) /\ UNCHANGED <<account, created, link, issued, latest, crossed>>
    <3>1. DataTypeOK'
      BY <1>0, <1>1, <2>3 DEF createUser, DataTypeOK
    <3> QED BY <2>3, <3>1, CallStep, ReturnShape DEF Return
  <2> QED BY <1>1, <2>2, <2>3 DEF createUser
<1>2. CASE sendEmailAccountCreation(h)
  <2>1. ref[h] \in Links
    BY <1>0, <1>2 DEF sendEmailAccountCreation, CallOK, CallTypeOK
  <2>2. ref[h].token \in 1..MaxLinks
    BY <2>1 DEF Links
  <2>3. DataTypeOK'
    BY <1>0, <1>2, <2>2 DEF sendEmailAccountCreation, DataTypeOK
  <2> QED BY <1>2, <2>3, CallStep, ReturnShape DEF sendEmailAccountCreation, Return
<1>3. CASE deleteLink(h)
  <2>1. DataTypeOK'
    BY <1>0, <1>3 DEF deleteLink, DataTypeOK
  <2> QED BY <1>3, <2>1, CallStep, ReturnShape DEF deleteLink, Return
<1>4. CASE markVerified(h)
  <2>1. DataTypeOK'
    BY <1>0, <1>4 DEF markVerified, DataTypeOK
  <2>2. CallShape("erase", who[h], held[h], ref[h])
    BY <1>0, <1>4 DEF markVerified, CallOK, CallTypeOK, CallShape, Steps
  <2> QED BY <1>4, <2>1, <2>2, CallStep, ReturnShape DEF markVerified, Return, Goto
<1>5. CASE ResendUpsert(h)
  <2>1. who[h] \in Users
    BY <1>0, <1>5 DEF ResendUpsert, CallOK, CallTypeOK
  <2>2. CASE StoreLink(who[h], upsertForUser(who[h], NewLink))
             /\ Call(h, "mail", who[h], None, NewLink)
    <3>1. NewLink \in Links /\ upsertForUser(who[h], NewLink) \in Links
      BY <1>0, <2>1, <2>2, NewLinkType, UpsertType DEF StoreLink
    <3>2. CallShape("mail", who[h], None, NewLink)
      BY <2>1, <3>1, AccountsAssumption DEF CallShape, Steps
    <3>3. UNCHANGED <<now, userVars, mailed, sessionVars>>
      BY <1>5 DEF ResendUpsert
    <3>4. DataTypeOK'
      BY <1>0, <2>1, <2>2, <3>1, <3>3, StoreLinkType DEF DataTypeOK
    <3> QED BY <2>2, <3>2, <3>4, CallStep
  <2>3. CASE Return(h) /\ UNCHANGED <<link, issued, latest, crossed>>
    <3>1. DataTypeOK'
      BY <1>0, <1>5, <2>3 DEF ResendUpsert, DataTypeOK
    <3> QED BY <2>3, <3>1, CallStep, ReturnShape DEF Return
  <2> QED BY <1>5, <2>2, <2>3 DEF ResendUpsert
<1>6. CASE \E u \in Users : SignUp(h, u) \/ ResendFind(h, u)
  <2>1. DataTypeOK'
    BY <1>0, <1>6 DEF SignUp, ResendFind, DataTypeOK
  <2> QED BY <1>6, <2>1, CallStep, BeginShape DEF SignUp, ResendFind, Begin
<1>7. CASE \E u \in Users : VerifyFind(h, u)
  <2>1. PICK u \in Users : VerifyFind(h, u)
    BY <1>7
  <2>2. PICK step \in {"expire", "mark"} : Call(h, step, u, None, link[u])
    BY <2>1 DEF VerifyFind
  <2>3. link[u] \in Links
    BY <1>0, <2>1 DEF VerifyFind, DataTypeOK
  <2>4. CallShape(step, u, None, link[u])
    BY <2>3, AccountsAssumption DEF CallShape, Steps
  <2>5. DataTypeOK'
    BY <1>0, <2>1 DEF VerifyFind, DataTypeOK
  <2> QED BY <2>2, <2>4, <2>5, CallStep
<1> QED BY <1>1, <1>2, <1>3, <1>4, <1>5, <1>6, <1>7 DEF LinkStep

LEMMA TypeLogout ==
  ASSUME TypeInv, \/ \E t \in tokens : Logout(t)
                  \/ \E u \in Users : LogoutAll(u) \/ DeleteAccount(u)
  PROVE  TypeInv'
<1> USE DEF userVars, linkVars, callVars
<1>0. DataTypeOK /\ CallTypeOK /\ CallOK
  BY TypeParts DEF TypeInv
<1>1. \A T \in SUBSET Tokens : SessionsOf(T) \subseteq 1..MaxSessions
  BY TokenType DEF SessionsOf
<1>2. Held \subseteq Tokens
  BY <1>0 DEF Held, CallTypeOK
<1>3. UNCHANGED callVars
  BY DEF Logout, LogoutAll, DeleteAccount
<1>4. DataTypeOK'
  <2>1. CASE \E t \in tokens : Logout(t)
    BY <1>0, <1>1, <2>1 DEF Logout, LogsOut, deleteRefreshToken, DataTypeOK
  <2>2. CASE \E u \in Users : LogoutAll(u)
    <3>1. PICK u \in Users : LogoutAll(u)
      BY <2>2
    <3>2. {t \in tokens : t.user = u} \in SUBSET Tokens
      BY <1>0 DEF DataTypeOK
    <3> QED BY <1>0, <1>1, <3>1, <3>2 DEF LogoutAll, LogsOut, deleteAllUserRefreshTokens, DataTypeOK
  <2>3. CASE \E u \in Users : DeleteAccount(u)
    <3>1. PICK u \in Users : DeleteAccount(u)
      BY <2>3
    <3>2. {t \in tokens \cup Held : t.user = u} \in SUBSET Tokens
      BY <1>0, <1>2 DEF DataTypeOK
    <3> QED BY <1>0, <1>1, <3>1, <3>2 DEF DeleteAccount, DataTypeOK
  <2> QED BY <2>1, <2>2, <2>3
<1> QED BY <1>3, <1>4, CallIdle, TypeParts DEF TypeInv, TypeOK, DataTypeOK, CallTypeOK

LEMMA TypeStep == TypeInv /\ [Next]_vars => TypeInv'
<1> SUFFICES ASSUME TypeInv, [Next]_vars PROVE TypeInv'
  OBVIOUS
<1>1. CASE Tick
  <2>1. now' \in 0..MaxTime /\ UNCHANGED <<userVars, callVars, linkVars, sessionVars>>
    BY <1>1, AccountsAssumption DEF Tick, TypeInv, TypeOK
  <2> QED BY <2>1 DEF TypeInv, TypeOK, CallOK, userVars, callVars, linkVars, sessionVars
<1>2. CASE UNCHANGED vars
  BY <1>2 DEF TypeInv, TypeOK, CallOK, vars, userVars, callVars, linkVars, sessionVars
<1> QED BY <1>1, <1>2, TypeSession, TypeLink, TypeLogout DEF Next

\* Every reachable state has the declared types, and a call in flight has what its next
\* step stores or mails.
LEMMA TypeInvHolds == Spec => []TypeInv
<1>1. Init => TypeInv
  BY TypeInit
<1>2. TypeInv /\ [Next]_vars => TypeInv'
  BY TypeStep
<1> QED BY <1>1, <1>2, PTL DEF Spec

\* For every set of users and requests and all lifetimes, the rows, the tokens and the calls
\* keep their types: no token is minted in the future, no link has a number not given out.
THEOREM TypeCorrect == Spec => []TypeOK
<1>1. TypeInv => TypeOK
  BY DEF TypeInv
<1> QED BY <1>1, TypeInvHolds, PTL

-----------------------------------------------------------------------------
(* Log-out and deletion are final.                                          *)

\* A session belongs to one user; one that is over is carried by no call, except for a
\* deleted account, whose tokens cannot be stored.
SessionInv ==
  /\ \A t \in tokens : account[t.user] = "open"
  /\ \A t \in tokens \cup Held : t.session <= opened
  /\ \A s \in ended : s <= opened
  /\ \A s, t \in tokens \cup Held : s.session = t.session => s.user = t.user
  /\ \A t \in Held : t.session \in ended => account[t.user] = "deleted"
  /\ LogoutIsFinal

LEMMA HeldOnCall ==
  ASSUME TypeInv, NEW h \in Handlers, NEW step, NEW u, NEW t, NEW l, Call(h, step, u, t, l)
  PROVE  \A x \in Held' : x \in Held \/ x = t
<1> SUFFICES ASSUME NEW g \in Handlers, held'[g] # None
             PROVE  held'[g] \in Held \/ held'[g] = t
  BY DEF Held
<1>1. held' = [held EXCEPT ![h] = t] /\ held \in [Handlers -> Tokens \cup {None}]
  BY DEF Call, TypeInv, TypeOK
<1> QED BY <1>1 DEF Held

LEMMA HeldFacts ==
  ASSUME TypeInv
  PROVE  /\ Held \subseteq Tokens
         /\ \A h \in Handlers : held[h] # None => held[h] \in Held /\ held[h].user = who[h]
BY DEF TypeInv, TypeOK, CallOK, Held

\* Steps that open and end no session, and mint and store no token.
LEMMA SessionShrink ==
  ASSUME SessionInv, tokens' \subseteq tokens, \A x \in Held' : x \in Held,
         UNCHANGED <<opened, ended>>,
         \A t \in tokens \cup Held : account[t.user] \in {"open", "deleted"}
                                       => account'[t.user] = account[t.user]
  PROVE  SessionInv'
<1>1. \A t \in tokens' : account'[t.user] = "open" /\ t.session \notin ended'
  BY DEF SessionInv, LogoutIsFinal
<1>2. \A t \in tokens' \cup Held' : t \in tokens \cup Held
  OBVIOUS
<1>3. \A t \in Held' : t.session \in ended' => account'[t.user] = "deleted"
  BY DEF SessionInv
<1> QED BY <1>1, <1>2, <1>3 DEF SessionInv, LogoutIsFinal

LEMMA SessionOfSession ==
  ASSUME TypeInv, SessionInv, NEW h \in Handlers, SessionStep(h)
  PROVE  SessionInv'
<1> USE DEF userVars, linkVars, sessionVars
<1>0. /\ tokens \subseteq Tokens /\ held \in [Handlers -> Tokens \cup {None}]
      /\ opened \in Nat /\ opened + 1 \in Nat /\ ended \subseteq Nat
  BY AccountsAssumption DEF TypeInv, TypeOK
<1>a. \A t \in Tokens : t.session \in Nat
  BY TokenType
<1>1. CASE Sign(h)
  <2> DEFINE s == IF held[h] = None THEN opened + 1 ELSE held[h].session
             m == Minted(who[h], s)
  <2>1. /\ opened' = IF held[h] = None THEN s ELSE opened
        /\ Call(h, "save", who[h], m, ref[h])
        /\ UNCHANGED <<tokens, ended, account>>
    BY <1>1 DEF Sign
  <2>2. \A x \in Held' : x \in Held \/ x = m
    BY <2>1, HeldOnCall
  <2>3. m.user = who[h] /\ m.session = s
    BY DEF Minted
  <2>4. CASE held[h] = None
    <3>1. opened' = opened + 1 /\ m.session = opened + 1
      BY <2>1, <2>3, <2>4
    <3>2. \A x \in tokens \cup Held : x.session <= opened /\ x.session \in Nat
      BY <1>0, <1>a, HeldFacts DEF SessionInv
    <3>3. \A x \in tokens \cup Held : x.session # m.session /\ x.session <= opened'
      BY <1>0, <3>1, <3>2
    <3>4. m.session \notin ended /\ m.session <= opened'
      BY <1>0, <3>1 DEF SessionInv
    <3>5. \A x \in ended : x <= opened'
      BY <1>0, <3>1 DEF SessionInv
    <3> HIDE DEF m
    <3> QED BY <2>1, <2>2, <3>3, <3>4, <3>5 DEF SessionInv, LogoutIsFinal
  <2>5. CASE held[h] # None
    <3>1. held[h] \in Held /\ held[h].user = m.user /\ held[h].session = m.session
      BY <2>3, <2>5, HeldFacts
    <3>2. opened' = opened
      BY <2>1, <2>5
    <3> HIDE DEF m
    <3> QED BY <2>1, <2>2, <3>1, <3>2 DEF SessionInv, LogoutIsFinal
  <2> QED BY <2>4, <2>5
<1>2. CASE saveRefreshToken(h)
  <2>1. /\ UNCHANGED <<account, opened, ended>>
        /\ Return(h) \/ Call(h, "mail", who[h], None, ref[h])
    BY <1>2 DEF saveRefreshToken
  <2>2. \A x \in Held' : x \in Held \/ x = None
    BY <2>1, HeldOnCall DEF Return
  <2>3. None \notin Held'
    BY DEF Held
  <2>4. CASE Storable(held[h]) /\ tokens' = tokens \cup {held[h]}
    <3>1. held[h] \in Held
      BY <1>2, HeldFacts DEF saveRefreshToken, TypeInv, CallOK
    <3>2. account[held[h].user] = "open"
      BY <2>4 DEF Storable
    <3>3. held[h].session \notin ended
      BY <3>1, <3>2 DEF SessionInv
    <3> QED BY <2>1, <2>2, <2>3, <2>4, <3>1, <3>2, <3>3 DEF SessionInv, LogoutIsFinal
  <2>5. CASE UNCHANGED tokens
    BY <2>1, <2>2, <2>3, <2>5, SessionShrink
  <2> QED BY <1>2, <2>4, <2>5 DEF saveRefreshToken
<1>3. CASE RefreshDrop(h) \/ RefreshPurge(h)
  <2>1. /\ tokens' \subseteq tokens /\ UNCHANGED <<account, opened, ended>>
        /\ \E step : Call(h, step, who[h], held[h], ref[h])
    BY <1>3 DEF RefreshDrop, RefreshPurge, deleteRefreshToken, deleteManyRefreshToken, Goto
  <2>2. \A x \in Held' : x \in Held \/ x = held[h]
    BY <2>1, HeldOnCall
  <2>3. held[h] \in Held
    BY <1>3, HeldFacts DEF RefreshDrop, RefreshPurge, TypeInv, CallOK
  <2> QED BY <2>1, <2>2, <2>3, SessionShrink
<1>4. CASE \E t \in tokens : RefreshFind(h, t)
  <2>1. PICK t \in tokens : RefreshFind(h, t)
    BY <1>4
  <2>2. \A x \in Held' : x \in Held \/ x = t
    BY <2>1, HeldOnCall DEF RefreshFind
  <2>3. UNCHANGED <<tokens, account, opened, ended>>
    BY <2>1 DEF RefreshFind
  <2> QED BY <2>1, <2>2, <2>3 DEF SessionInv, LogoutIsFinal
<1>5. CASE \E u \in Users : Login(h, u) \/ Me(h, u)
  <2>1. /\ UNCHANGED <<tokens, account, opened, ended>>
        /\ \E u : Call(h, "sign", u, None, None)
    BY <1>5 DEF Login, Me, Begin
  <2>2. \A x \in Held' : x \in Held \/ x = None
    BY <2>1, HeldOnCall
  <2>3. None \notin Held'
    BY DEF Held
  <2> QED BY <2>1, <2>2, <2>3, SessionShrink
<1> QED BY <1>1, <1>2, <1>3, <1>4, <1>5 DEF SessionStep

LEMMA SessionOfLink ==
  ASSUME TypeInv, SessionInv, NEW h \in Handlers, LinkStep(h)
  PROVE  SessionInv'
<1> USE DEF userVars, linkVars, sessionVars
<1>1. UNCHANGED <<tokens, opened, ended>>
  BY DEF LinkStep, createUser, sendEmailAccountCreation, deleteLink, markVerified, ResendUpsert,
         SignUp, VerifyFind, ResendFind
<1>2. \E step, u, t, l : Call(h, step, u, t, l) /\ t \in {None, held[h]}
  BY DEF LinkStep, createUser, sendEmailAccountCreation, deleteLink, markVerified, ResendUpsert,
         SignUp, VerifyFind, ResendFind, Begin, Goto, Return
<1>3. \A x \in Held' : x \in Held \/ x \in {None, held[h]}
  BY <1>2, HeldOnCall
<1>4. None \notin Held'
  BY DEF Held
<1>5. \A x \in Held' : x \in Held
  BY <1>3, <1>4, HeldFacts
<1>6. \A u \in Users : account[u] \in {"open", "deleted"} => account'[u] = account[u]
  <2>1. CASE createUser(h)
    BY <2>1 DEF createUser, TypeInv, TypeOK
  <2>2. CASE UNCHANGED account
    BY <2>2
  <2> QED BY <2>1, <2>2 DEF LinkStep, sendEmailAccountCreation, deleteLink, markVerified,
             ResendUpsert, SignUp, VerifyFind, ResendFind
<1>7. \A t \in tokens \cup Held : t.user \in Users
  BY TokenType, HeldFacts DEF TypeInv, TypeOK
<1> QED BY <1>1, <1>5, <1>6, <1>7, SessionShrink

LEMMA SessionOfLogout ==
  ASSUME TypeInv, SessionInv, NEW T \in SUBSET tokens, NEW rest \in SUBSET (tokens \ T),
         LogsOut(T, rest), UNCHANGED <<callVars, account, opened>>
  PROVE  SessionInv'
<1>1. Held' = Held
  BY DEF Held, callVars
<1>2. tokens' = rest /\ ended' = ended \cup (SessionsOf(T) \ (SessionsOf(tokens \ T) \cup Carried))
  BY DEF LogsOut
<1>3. \A t \in rest : t.session \in SessionsOf(tokens \ T)
  BY DEF SessionsOf
<1>4. \A t \in Held : t.session \in Carried
  BY DEF SessionsOf, Carried
<1>5. \A s \in SessionsOf(T) : s <= opened
  BY DEF SessionInv, SessionsOf
<1>6. \A t \in tokens' : t \in tokens /\ t.session \notin ended'
  BY <1>2, <1>3 DEF SessionInv, LogoutIsFinal
<1>7. \A t \in Held' : t.session \in ended' => account'[t.user] = "deleted"
  BY <1>1, <1>2, <1>4 DEF SessionInv
<1>8. \A s \in ended' : s <= opened'
  BY <1>2, <1>5 DEF SessionInv
<1> QED BY <1>1, <1>6, <1>7, <1>8 DEF SessionInv, LogoutIsFinal

LEMMA SessionOfDelete ==
  ASSUME TypeInv, SessionInv, NEW u \in Users, DeleteAccount(u)
  PROVE  SessionInv'
<1> DEFINE gone == {t \in tokens \cup Held : t.user = u}
<1>1. /\ account' = [account EXCEPT ![u] = "deleted"]
      /\ tokens' = {t \in tokens : t.user # u}
      /\ ended' = ended \cup SessionsOf(gone)
      /\ UNCHANGED <<opened, callVars>>
  BY DEF DeleteAccount
<1>2. Held' = Held
  BY <1>1 DEF Held, callVars
<1>3. account \in [Users -> {"none", "open", "deleted"}]
  BY DEF TypeInv, TypeOK
<1>4. \A t \in tokens \cup Held : t.session \in SessionsOf(gone) => t.user = u
  BY DEF SessionsOf, SessionInv
<1>5. \A s \in SessionsOf(gone) : s <= opened
  BY DEF SessionInv, SessionsOf
<1>6. \A t \in tokens \cup Held : t.user \in Users
  BY TokenType, HeldFacts DEF TypeInv, TypeOK
<1> HIDE DEF gone
<1>7. \A t \in tokens' : account'[t.user] = "open" /\ t.session \notin ended'
  BY <1>1, <1>3, <1>4, <1>6 DEF SessionInv, LogoutIsFinal
<1>8. \A t \in Held' : t.session \in ended' => account'[t.user] = "deleted"
  BY <1>1, <1>2, <1>3, <1>4, <1>6 DEF SessionInv
<1>9. \A s \in ended' : s <= opened'
  BY <1>1, <1>5 DEF SessionInv
<1> QED BY <1>1, <1>2, <1>7, <1>8, <1>9 DEF SessionInv, LogoutIsFinal

LEMMA SessionStepInv == TypeInv /\ SessionInv /\ [Next]_vars => SessionInv'
<1> SUFFICES ASSUME TypeInv, SessionInv, [Next]_vars PROVE SessionInv'
  OBVIOUS
<1> USE DEF userVars, linkVars, sessionVars
<1>1. CASE Tick \/ UNCHANGED vars
  <2>1. UNCHANGED <<callVars, tokens, opened, ended, account>>
    BY <1>1 DEF Tick, vars
  <2>2. Held' = Held
    BY <2>1 DEF Held, callVars
  <2> QED BY <2>1, <2>2, SessionShrink
<1>2. CASE \E t \in tokens : Logout(t)
  <2>1. PICK t \in tokens : Logout(t)
    BY <1>2
  <2>2. deleteRefreshToken(t) \in SUBSET (tokens \ {t})
    BY DEF deleteRefreshToken
  <2> QED BY <2>1, <2>2, SessionOfLogout DEF Logout
<1>3. CASE \E u \in Users : LogoutAll(u)
  <2>1. PICK u \in Users : LogoutAll(u)
    BY <1>3
  <2> DEFINE T == {t \in tokens : t.user = u}
  <2>2. T \in SUBSET tokens /\ deleteAllUserRefreshTokens(u) \in SUBSET (tokens \ T)
    BY DEF deleteAllUserRefreshTokens
  <2>3. LogsOut(T, deleteAllUserRefreshTokens(u)) /\ UNCHANGED <<callVars, account, opened>>
    BY <2>1 DEF LogoutAll
  <2> QED BY <2>2, <2>3, SessionOfLogout
<1> QED BY <1>1, <1>2, <1>3, SessionOfSession, SessionOfLink, SessionOfDelete DEF Next

\* No session that is over has a stored token.
THEOREM LogoutIsFinalHolds == Spec => []LogoutIsFinal
<1>1. Init => SessionInv
  BY DEF Init, SessionInv, LogoutIsFinal, Held
<1>2. SessionInv => LogoutIsFinal
  BY DEF SessionInv
<1> QED BY <1>1, <1>2, SessionStepInv, TypeInvHolds, PTL DEF Spec

-----------------------------------------------------------------------------
(* The rotation.                                                            *)

\* A session is carried by one call, whose token is the only one until it is dropped.
RotationInv ==
  /\ \A h, g \in Handlers :
       h # g /\ held[h] # None /\ held[g] # None /\ held[h].session = held[g].session
         => held[h].session \in forked
  /\ \A h \in Handlers : \A t \in tokens :
       held[h] # None /\ t.session = held[h].session /\ t.session \notin forked
         => at[h] = "drop" /\ t = held[h]
  /\ OneTokenPerSession

\* What one call does to what is held: the others hold what they held.
LEMMA OthersHold ==
  ASSUME TypeInv, NEW h \in Handlers, NEW step, NEW u, NEW t, NEW l, Call(h, step, u, t, l)
  PROVE  /\ held'[h] = t /\ at'[h] = step
         /\ \A g \in Handlers : g # h => held'[g] = held[g] /\ at'[g] = at[g]
BY DEF Call, TypeInv, TypeOK

\* Steps that add no token, and whose call gives up what it holds or goes on from a point
\* past "drop".
LEMMA RotationShrink ==
  ASSUME TypeInv, RotationInv, tokens' \subseteq tokens, forked' = forked, NEW h \in Handlers,
         \A g \in Handlers : g # h => held'[g] = held[g] /\ at'[g] = at[g],
         held'[h] = None \/ (held'[h] = held[h] /\ (at'[h] = at[h] \/ at[h] # "drop"))
  PROVE  RotationInv'
<1>1. OneTokenPerSession'
  BY DEF RotationInv, OneTokenPerSession
<1>2. \A g \in Handlers : held'[g] # None => held'[g] = held[g] /\ (at[g] = "drop" => at'[g] = "drop")
  OBVIOUS
<1>3. \A g \in Handlers : \A t \in tokens' :
        held'[g] # None /\ t.session = held'[g].session /\ t.session \notin forked'
          => at'[g] = "drop" /\ t = held'[g]
  BY <1>2 DEF RotationInv
<1>4. \A f, g \in Handlers :
        f # g /\ held'[f] # None /\ held'[g] # None /\ held'[f].session = held'[g].session
          => held'[f].session \in forked'
  BY <1>2 DEF RotationInv
<1> QED BY <1>1, <1>3, <1>4 DEF RotationInv

LEMMA RotationOfSession ==
  ASSUME TypeInv, SessionInv, RotationInv, NEW h \in Handlers, SessionStep(h)
  PROVE  RotationInv'
<1> USE DEF userVars, linkVars, sessionVars
<1>0. tokens \subseteq Tokens /\ held \in [Handlers -> Tokens \cup {None}] /\ opened \in Nat
  BY AccountsAssumption DEF TypeInv, TypeOK
<1>a. \A t \in Tokens : t.session \in Nat
  BY TokenType
<1>1. CASE Sign(h)
  <2> DEFINE s == IF held[h] = None THEN opened + 1 ELSE held[h].session
             m == Minted(who[h], s)
  <2>1. Call(h, "save", who[h], m, ref[h]) /\ UNCHANGED <<tokens, forked>> /\ at[h] = "sign"
    BY <1>1 DEF Sign
  <2>2. m.session = s
    BY DEF Minted
  <2> HIDE DEF m
  <2>3. \A g \in Handlers : g # h => held'[g] = held[g] /\ at'[g] = at[g]
    BY <2>1, OthersHold
  <2>4. held'[h] = m
    BY <2>1, OthersHold
  <2>5. CASE held[h] = None
    <3>1. \A x \in tokens \cup Held : x.session <= opened /\ x.session \in Nat
      BY <1>0, <1>a, HeldFacts DEF SessionInv
    <3>2. \A x \in tokens \cup Held : x.session # m.session
      BY <1>0, <2>2, <2>5, <3>1
    <3>3. \A g \in Handlers : held[g] # None => held[g].session # m.session
      BY <3>2, HeldFacts
    <3> QED BY <2>1, <2>3, <2>4, <3>2, <3>3 DEF RotationInv, OneTokenPerSession
  <2>6. CASE held[h] # None
    <3>1. m.session = held[h].session
      BY <2>2, <2>6
    <3>2. \A t \in tokens : t.session = m.session => t.session \in forked
      BY <2>1, <2>6, <3>1 DEF RotationInv
    <3> QED BY <2>1, <2>3, <2>4, <2>6, <3>1, <3>2 DEF RotationInv, OneTokenPerSession
  <2> QED BY <2>5, <2>6
<1>2. CASE saveRefreshToken(h)
  <2>1. Return(h) \/ Call(h, "mail", who[h], None, ref[h])
    BY <1>2 DEF saveRefreshToken
  <2>2. held'[h] = None /\ \A g \in Handlers : g # h => held'[g] = held[g] /\ at'[g] = at[g]
    BY <2>1, OthersHold DEF Return
  <2>3. UNCHANGED forked /\ at[h] = "save" /\ held[h] # None
    BY <1>2 DEF saveRefreshToken, TypeInv, CallOK
  <2>4. CASE tokens' = tokens \cup {held[h]}
    <3>1. \A t \in tokens : t.session = held[h].session => t.session \in forked
      BY <2>3 DEF RotationInv
    <3>2. OneTokenPerSession'
      BY <2>3, <2>4, <3>1 DEF RotationInv, OneTokenPerSession
    <3>3. \A g \in Handlers :
            g # h /\ held[g] # None /\ held[g].session = held[h].session => held[g].session \in forked
      BY <2>3 DEF RotationInv
    <3>4. \A g \in Handlers : \A t \in tokens' :
            held'[g] # None /\ t.session = held'[g].session /\ t.session \notin forked'
              => at'[g] = "drop" /\ t = held'[g]
      BY <2>2, <2>3, <2>4, <3>3 DEF RotationInv
    <3> QED BY <2>2, <2>3, <3>2, <3>4 DEF RotationInv
  <2>5. CASE UNCHANGED tokens
    BY <2>2, <2>3, <2>5, RotationShrink
  <2> QED BY <1>2, <2>4, <2>5 DEF saveRefreshToken
<1>3. CASE RefreshDrop(h)
  <2>1. /\ at[h] = "drop" /\ held[h] # None
        /\ Call(h, "purge", who[h], held[h], ref[h])
        /\ tokens' = deleteRefreshToken(held[h]) /\ UNCHANGED forked
    BY <1>3 DEF RefreshDrop, Goto, TypeInv, CallOK
  <2>2. /\ held'[h] = held[h] /\ at'[h] = "purge"
        /\ \A g \in Handlers : g # h => held'[g] = held[g] /\ at'[g] = at[g]
    BY <2>1, OthersHold
  <2>3. tokens' \subseteq tokens /\ held[h] \notin tokens'
    BY <2>1 DEF deleteRefreshToken
  <2>4. \A t \in tokens' : t.session = held[h].session => t.session \in forked
    BY <2>1, <2>3 DEF RotationInv
  <2>5. OneTokenPerSession'
    BY <2>1, <2>3 DEF RotationInv, OneTokenPerSession
  <2>6. \A g \in Handlers : \A t \in tokens' :
          held'[g] # None /\ t.session = held'[g].session /\ t.session \notin forked'
            => at'[g] = "drop" /\ t = held'[g]
    BY <2>1, <2>2, <2>3, <2>4 DEF RotationInv
  <2> QED BY <2>1, <2>2, <2>5, <2>6 DEF RotationInv
<1>4. CASE RefreshPurge(h)
  <2>1. /\ tokens' \subseteq tokens /\ UNCHANGED forked /\ at[h] = "purge"
        /\ Call(h, "sign", who[h], held[h], ref[h])
    BY <1>4 DEF RefreshPurge, deleteManyRefreshToken, Goto
  <2>2. /\ held'[h] = held[h]
        /\ \A g \in Handlers : g # h => held'[g] = held[g] /\ at'[g] = at[g]
    BY <2>1, OthersHold
  <2> QED BY <2>1, <2>2, RotationShrink
<1>5. CASE \E t \in tokens : RefreshFind(h, t)
  <2>1. PICK t \in tokens : RefreshFind(h, t)
    BY <1>5
  <2>2. /\ held'[h] = t /\ at'[h] = "drop" /\ UNCHANGED tokens /\ at[h] = "idle"
        /\ \A g \in Handlers : g # h => held'[g] = held[g] /\ at'[g] = at[g]
    BY <2>1, OthersHold DEF RefreshFind
  <2>3. forked \subseteq forked'
    BY <2>1 DEF RefreshFind
  <2>4. \A g \in Handlers : held[g] # None /\ held[g].session = t.session => t.session \in forked'
    BY <2>1, HeldFacts DEF RefreshFind, Carried, SessionsOf
  <2>5. \A s \in tokens : s.session = t.session /\ s.session \notin forked' => s = t
    BY <2>3 DEF RotationInv, OneTokenPerSession
  <2>6. OneTokenPerSession'
    BY <2>2, <2>3 DEF RotationInv, OneTokenPerSession
  <2>7. \A g \in Handlers : \A s \in tokens' :
          held'[g] # None /\ s.session = held'[g].session /\ s.session \notin forked'
            => at'[g] = "drop" /\ s = held'[g]
    BY <2>2, <2>3, <2>5 DEF RotationInv
  <2>8. \A f, g \in Handlers :
          f # g /\ held'[f] # None /\ held'[g] # None /\ held'[f].session = held'[g].session
            => held'[f].session \in forked'
    BY <2>2, <2>3, <2>4 DEF RotationInv
  <2> QED BY <2>6, <2>7, <2>8 DEF RotationInv
<1>6. CASE \E u \in Users : Login(h, u) \/ Me(h, u)
  <2>1. /\ UNCHANGED <<tokens, forked>>
        /\ \E u : Call(h, "sign", u, None, None)
    BY <1>6 DEF Login, Me, Begin
  <2>2. /\ held'[h] = None
        /\ \A g \in Handlers : g # h => held'[g] = held[g] /\ at'[g] = at[g]
    <3>1. PICK u : Call(h, "sign", u, None, None)
      BY <2>1
    <3> QED BY <3>1, OthersHold
  <2>3. tokens' \subseteq tokens /\ forked' = forked
    BY <2>1
  <2>4. OneTokenPerSession'
    BY <2>1 DEF RotationInv, OneTokenPerSession
  <2>5. \A g \in Handlers : \A t \in tokens' :
          held'[g] # None /\ t.session = held'[g].session /\ t.session \notin forked'
            => at'[g] = "drop" /\ t = held'[g]
    BY <2>2, <2>3 DEF RotationInv
  <2>6. \A f, g \in Handlers :
          f # g /\ held'[f] # None /\ held'[g] # None /\ held'[f].session = held'[g].session
            => held'[f].session \in forked'
    BY <2>2, <2>3 DEF RotationInv
  <2> QED BY <2>4, <2>5, <2>6 DEF RotationInv
<1> QED BY <1>1, <1>2, <1>3, <1>4, <1>5, <1>6 DEF SessionStep

LEMMA RotationOfLink ==
  ASSUME TypeInv, RotationInv, NEW h \in Handlers, LinkStep(h)
  PROVE  RotationInv'
<1> USE DEF userVars, linkVars, sessionVars
<1>1. UNCHANGED <<tokens, forked>>
  BY DEF LinkStep, createUser, sendEmailAccountCreation, deleteLink, markVerified, ResendUpsert,
         SignUp, VerifyFind, ResendFind
<1>2. /\ \E step, u, t, l : Call(h, step, u, t, l) /\ t \in {None, held[h]}
      /\ at[h] # "drop"
  BY DEF LinkStep, createUser, sendEmailAccountCreation, deleteLink, markVerified, ResendUpsert,
         SignUp, VerifyFind, ResendFind, Begin, Goto, Return
<1> QED BY <1>1, <1>2, OthersHold, RotationShrink

LEMMA RotationStepInv == TypeInv /\ SessionInv /\ RotationInv /\ [Next]_vars => RotationInv'
<1> SUFFICES ASSUME TypeInv, SessionInv, RotationInv, [Next]_vars PROVE RotationInv'
  OBVIOUS
<1> USE DEF userVars, linkVars, sessionVars
<1>1. CASE UNCHANGED <<callVars, forked>> /\ tokens' \subseteq tokens
  BY <1>1 DEF callVars, RotationInv, OneTokenPerSession
<1>2. CASE \/ Tick \/ UNCHANGED vars
           \/ \E t \in tokens : Logout(t)
           \/ \E u \in Users : LogoutAll(u) \/ DeleteAccount(u)
  BY <1>1, <1>2 DEF Tick, vars, Logout, LogoutAll, DeleteAccount, LogsOut, deleteRefreshToken,
                    deleteAllUserRefreshTokens
<1> QED BY <1>2, RotationOfSession, RotationOfLink DEF Next

\* Unless two refreshes of it overlap, a session has one token.
THEOREM OneTokenPerSessionHolds == Spec => []OneTokenPerSession
<1>1. Init => SessionInv /\ RotationInv
  BY DEF Init, SessionInv, LogoutIsFinal, Held, RotationInv, OneTokenPerSession
<1>2. RotationInv => OneTokenPerSession
  BY DEF RotationInv
<1> QED BY <1>1, <1>2, SessionStepInv, RotationStepInv, TypeInvHolds, PTL DEF Spec

-----------------------------------------------------------------------------
(* The newest activation link.                                              *)

\* A call that is about to clear an expired link away clears that one, or one known as
\* crossed; the one that used a link up has verified the user.
LinkInv ==
  /\ \A u \in Users : account[u] = "open" => latest[u] # None
  /\ \A h \in Handlers : at[h] = "erase" => verified[who[h]]
  /\ \A h \in Handlers : at[h] = "expire" =>
       /\ ref[h].exp < now
       /\ LET l == link[who[h]] IN l # None /\ l.id = ref[h].id /\ l # ref[h] => l.token \in crossed
  /\ NewestLinkWorks

\* A call that clears an expired link away, and the one it finds in its place.
Clears(h) ==
  /\ ref[h].exp < now
  /\ LET l == link[who[h]] IN l # None /\ l.id = ref[h].id /\ l # ref[h] => l.token \in crossed

\* A step of call h that stores no link, and leaves it at "expire" or "erase" only if it was
\* there before.
LEMMA LinkKept ==
  ASSUME TypeInv, LinkInv, NEW h \in Handlers, NEW step, NEW u, NEW t, NEW l,
         Call(h, step, u, t, l), step \notin {"expire", "erase"},
         UNCHANGED <<now, account, verified, link, latest, crossed>>
  PROVE  LinkInv'
<1>1. /\ at' = [at EXCEPT ![h] = step] /\ at \in [Handlers -> Steps]
      /\ \A g \in Handlers : g # h => who'[g] = who[g] /\ ref'[g] = ref[g] /\ at'[g] = at[g]
      /\ at'[h] = step
  BY DEF Call, TypeInv, TypeOK
<1> QED BY <1>1 DEF LinkInv, NewestLinkWorks

\* A step of call h that stores a link, which becomes the user's newest.
LEMMA LinkStored ==
  ASSUME TypeInv, LinkInv, NEW h \in Handlers, NEW step, NEW t, NEW n, NEW l \in Links,
         Call(h, step, who[h], t, n), step \notin {"expire", "erase"},
         at[h] \notin {"expire", "erase"}, who[h] \in Users,
         StoreLink(who[h], l), l.token = issued + 1, l.exp = now + LinkLife,
         UNCHANGED <<now, verified>>,
         \A u \in Users : u # who[h] => account'[u] = account[u]
  PROVE  LinkInv'
<1>1. /\ \A g \in Handlers : g # h => who'[g] = who[g] /\ ref'[g] = ref[g] /\ at'[g] = at[g]
      /\ at'[h] = step
  BY DEF Call, TypeInv, TypeOK
<1>2. l = [l EXCEPT !.token = issued + 1, !.exp = now + LinkLife]
  BY DEF Links
<1>3. /\ link' = [link EXCEPT ![who[h]] = l] /\ latest' = [latest EXCEPT ![who[h]] = l]
      /\ crossed \subseteq crossed'
      /\ (\E g \in Handlers : at[g] = "expire" /\ who[g] = who[h] /\ ref[g].id = l.id)
           => issued + 1 \in crossed'
  BY <1>2 DEF StoreLink
<1>4. /\ link'[who[h]] = l /\ latest'[who[h]] = l /\ l # None
      /\ \A u \in Users : u # who[h] => link'[u] = link[u] /\ latest'[u] = latest[u]
  BY <1>3, AccountsAssumption DEF TypeInv, TypeOK
<1>5. ASSUME NEW g \in Handlers, at'[g] = "expire"
      PROVE  Clears(g)'
  <2>1. g # h /\ at[g] = "expire" /\ who'[g] = who[g] /\ ref'[g] = ref[g] /\ Clears(g)
    BY <1>1, <1>5 DEF LinkInv, Clears
  <2>2. who[g] \in Users
    BY <2>1 DEF TypeInv, TypeOK, CallOK
  <2>3. CASE who[g] = who[h]
    BY <1>3, <1>4, <2>1, <2>3 DEF Clears
  <2>4. CASE who[g] # who[h]
    BY <1>3, <1>4, <2>1, <2>2, <2>4 DEF Clears
  <2> QED BY <2>3, <2>4
<1>6. NewestLinkWorks'
  BY <1>3, <1>4 DEF LinkInv, NewestLinkWorks
<1>7. \A g \in Handlers : at'[g] = "erase" => verified'[who'[g]]
  BY <1>1 DEF LinkInv
<1>8. \A u \in Users : account'[u] = "open" => latest'[u] # None
  BY <1>4 DEF LinkInv
<1> QED BY <1>5, <1>6, <1>7, <1>8 DEF LinkInv, Clears

LEMMA LinkOfLink ==
  ASSUME TypeInv, LinkInv, NEW h \in Handlers, LinkStep(h)
  PROVE  LinkInv'
<1> USE DEF userVars, linkVars, sessionVars
<1>1. CASE createUser(h)
  <2>1. who[h] \in Users
    BY <1>1 DEF createUser, TypeInv, TypeOK, CallOK
  <2>2. CASE /\ account' = [account EXCEPT ![who[h]] = "open"]
             /\ StoreLink(who[h], NewLink) /\ Call(h, "sign", who[h], None, NewLink)
    <3>1. NewLink \in Links
      BY <2>2, NewLinkType DEF StoreLink, TypeInv
    <3>2. NewLink.token = issued + 1 /\ NewLink.exp = now + LinkLife
      BY DEF NewLink
    <3>3. at[h] = "create" /\ UNCHANGED <<now, verified>>
      BY <1>1 DEF createUser
    <3>4. \A u \in Users : u # who[h] => account'[u] = account[u]
      BY <2>2 DEF TypeInv, TypeOK
    <3>5. Call(h, "sign", who[h], None, NewLink) /\ StoreLink(who[h], NewLink)
      BY <2>2
    <3>6. at[h] \notin {"expire", "erase"}
      BY <3>3
    <3> QED BY <2>1, <3>1, <3>2, <3>3, <3>4, <3>5, <3>6, LinkStored
  <2>3. CASE Return(h) /\ UNCHANGED <<account, created, link, issued, latest, crossed>>
    BY <1>1, <2>3, LinkKept DEF createUser, Return
  <2> QED BY <1>1, <2>2, <2>3 DEF createUser
<1>2. CASE sendEmailAccountCreation(h)
  BY <1>2, LinkKept DEF sendEmailAccountCreation, Return
<1>3. CASE deleteLink(h)
  <2>1. /\ at[h] \in {"expire", "erase"} /\ who[h] \in Users
        /\ link' = [link EXCEPT ![who[h]] = IF @ # None /\ @.id = ref[h].id THEN None ELSE @]
        /\ UNCHANGED <<now, account, verified, latest, crossed>>
        /\ at' = [at EXCEPT ![h] = "idle"]
    BY <1>3 DEF deleteLink, Return, Call, TypeInv, TypeOK, CallOK
  <2>2. /\ \A g \in Handlers : g # h => who'[g] = who[g] /\ ref'[g] = ref[g] /\ at'[g] = at[g]
        /\ at'[h] = "idle"
    BY <1>3 DEF deleteLink, Return, Call, TypeInv, TypeOK
  <2>3. \A u \in Users : link'[u] \in {link[u], None} /\ (u # who[h] => link'[u] = link[u])
    BY <2>1 DEF TypeInv, TypeOK
  <2>4. ASSUME NEW g \in Handlers, at'[g] = "expire"
        PROVE  Clears(g)'
    <3>1. at[g] = "expire" /\ who[g] \in Users /\ who'[g] = who[g] /\ ref'[g] = ref[g] /\ Clears(g)
      BY <2>2, <2>4 DEF LinkInv, Clears, TypeInv, TypeOK, CallOK
    <3> QED BY <2>1, <2>3, <3>1 DEF Clears
  <2>5. ASSUME NEW u \in Users, account[u] = "open", ~verified[u], latest[u].exp >= now,
               latest[u].token \notin crossed
        PROVE  link'[u] = latest[u]
    <3>1. link[u] = latest[u] /\ link[u] # None
      BY <2>5 DEF LinkInv, NewestLinkWorks
    <3>2. CASE u = who[h]
      <4>1. at[h] = "expire" /\ ref[h].exp < now
            /\ (link[u].id = ref[h].id /\ link[u] # ref[h] => link[u].token \in crossed)
        BY <2>1, <2>5, <3>1, <3>2 DEF LinkInv
      <4>2. ref[h].exp \in Nat /\ now \in Nat
        BY <2>1, AccountsAssumption DEF Links, TypeInv, TypeOK, CallOK
      <4>3. link[u] # ref[h]
        BY <2>5, <3>1, <4>1, <4>2
      <4>4. link[u].id # ref[h].id
        BY <2>5, <3>1, <4>1, <4>3
      <4> QED BY <2>1, <3>1, <3>2, <4>4 DEF TypeInv, TypeOK
    <3>3. CASE u # who[h]
      BY <2>3, <3>1, <3>3
    <3> QED BY <3>2, <3>3
  <2>6. NewestLinkWorks'
    BY <2>1, <2>5 DEF NewestLinkWorks
  <2> QED BY <2>1, <2>2, <2>4, <2>6 DEF LinkInv, Clears
<1>4. CASE markVerified(h)
  <2>1. who[h] \in Users
    BY <1>4 DEF markVerified, TypeInv, TypeOK, CallOK
  <2>2. CASE verified' = [verified EXCEPT ![who[h]] = TRUE] /\ Goto(h, "erase")
    <3>1. /\ \A g \in Handlers : who'[g] = who[g] /\ ref'[g] = ref[g]
          /\ \A g \in Handlers : g # h => at'[g] = at[g]
          /\ at'[h] = "erase"
      BY <2>2 DEF Goto, Call, TypeInv, TypeOK
    <3>2. verified'[who[h]] /\ \A u \in Users : verified[u] => verified'[u]
      BY <2>1, <2>2 DEF TypeInv, TypeOK
    <3>3. UNCHANGED <<now, account, link, latest, crossed>>
      BY <1>4 DEF markVerified
    <3>4. \A g \in Handlers : at[g] # "idle" => who[g] \in Users
      BY DEF TypeInv, TypeOK, CallOK
    <3>5. \A g \in Handlers : at'[g] = "erase" => verified'[who'[g]]
      BY <3>1, <3>2, <3>4 DEF LinkInv
    <3>6. \A g \in Handlers : at'[g] = "expire" => Clears(g)'
      BY <3>1, <3>3 DEF LinkInv, Clears
    <3>7. NewestLinkWorks'
      BY <3>2, <3>3 DEF LinkInv, NewestLinkWorks
    <3>8. \A u \in Users : account'[u] = "open" => latest'[u] # None
      BY <3>3 DEF LinkInv
    <3> QED BY <3>5, <3>6, <3>7, <3>8 DEF LinkInv, Clears
  <2>3. CASE Return(h) /\ UNCHANGED verified
    BY <1>4, <2>3, LinkKept DEF markVerified, Return
  <2> QED BY <1>4, <2>2, <2>3 DEF markVerified
<1>5. CASE ResendUpsert(h)
  <2>1. who[h] \in Users
    BY <1>5 DEF ResendUpsert, TypeInv, TypeOK, CallOK
  <2> DEFINE l == upsertForUser(who[h], NewLink)
  <2>2. CASE StoreLink(who[h], l) /\ Call(h, "mail", who[h], None, NewLink)
    <3>1. l \in Links
      BY <2>1, <2>2, NewLinkType, UpsertType DEF StoreLink, TypeInv
    <3>2. l.token = issued + 1 /\ l.exp = now + LinkLife
      BY <2>1 DEF upsertForUser, NewLink, TypeInv, TypeOK, Links
    <3>3. at[h] = "upsert" /\ UNCHANGED <<now, verified, account>>
      BY <1>5 DEF ResendUpsert
    <3> HIDE DEF l
    <3> QED BY <2>1, <2>2, <3>1, <3>2, <3>3, LinkStored
  <2>3. CASE Return(h) /\ UNCHANGED <<link, issued, latest, crossed>>
    BY <1>5, <2>3, LinkKept DEF ResendUpsert, Return
  <2> QED BY <1>5, <2>2, <2>3 DEF ResendUpsert
<1>6. CASE \E u \in Users : SignUp(h, u) \/ ResendFind(h, u)
  BY <1>6, LinkKept DEF SignUp, ResendFind, Begin
<1>7. CASE \E u \in Users : VerifyFind(h, u)
  <2>1. PICK u \in Users : VerifyFind(h, u)
    BY <1>7
  <2>2. /\ UNCHANGED <<now, account, verified, link, latest, crossed>>
        /\ Call(h, IF link[u].exp < now THEN "expire" ELSE "mark", u, None, link[u])
    BY <2>1 DEF VerifyFind
  <2>3. /\ \A g \in Handlers : g # h => who'[g] = who[g] /\ ref'[g] = ref[g] /\ at'[g] = at[g]
        /\ at'[h] = (IF link[u].exp < now THEN "expire" ELSE "mark")
        /\ who'[h] = u /\ ref'[h] = link[u]
    BY <2>2 DEF Call, TypeInv, TypeOK
  <2>4. \A g \in Handlers : at'[g] = "expire" => Clears(g)'
    BY <2>2, <2>3 DEF LinkInv, Clears
  <2> QED BY <2>2, <2>3, <2>4 DEF LinkInv, NewestLinkWorks, Clears
<1> QED BY <1>1, <1>2, <1>3, <1>4, <1>5, <1>6, <1>7 DEF LinkStep

LEMMA LinkOfSession ==
  ASSUME TypeInv, LinkInv, NEW h \in Handlers, SessionStep(h)
  PROVE  LinkInv'
<1> USE DEF userVars, linkVars, sessionVars
<1>1. UNCHANGED <<now, account, verified, link, latest, crossed>>
  BY DEF SessionStep, Sign, saveRefreshToken, RefreshDrop, RefreshPurge, RefreshFind, Login, Me
<1>2. \E step, u, t, l : Call(h, step, u, t, l) /\ step \notin {"expire", "erase"}
  BY DEF SessionStep, Sign, saveRefreshToken, RefreshDrop, RefreshPurge, RefreshFind, Login, Me,
         Begin, Goto, Return
<1> QED BY <1>1, <1>2, LinkKept

LEMMA LinkStepInv == TypeInv /\ LinkInv /\ [Next]_vars => LinkInv'
<1> SUFFICES ASSUME TypeInv, LinkInv, [Next]_vars PROVE LinkInv'
  OBVIOUS
<1> USE DEF userVars, linkVars, sessionVars
<1>1. CASE Tick
  <2>1. now \in Nat /\ now' = now + 1 /\ UNCHANGED <<callVars, account, verified, link, latest, crossed>>
    BY <1>1, AccountsAssumption DEF Tick, TypeInv, TypeOK
  <2>2. \A l \in Links : l.exp \in Nat
    BY AccountsAssumption DEF Links
  <2>3. \A h \in Handlers : at'[h] = "expire" => ref[h] \in Links
    BY <2>1 DEF callVars, TypeInv, TypeOK, CallOK
  <2>4. \A h \in Handlers : at'[h] = "expire" => Clears(h)'
    BY <2>1, <2>2, <2>3 DEF callVars, LinkInv, Clears
  <2>5. \A u \in Users : account[u] = "open" => latest[u] \in Links
    BY DEF LinkInv, TypeInv, TypeOK
  <2>6. NewestLinkWorks'
    BY <2>1, <2>2, <2>5 DEF LinkInv, NewestLinkWorks
  <2> QED BY <2>1, <2>4, <2>6 DEF callVars, LinkInv, Clears
<1>2. CASE UNCHANGED <<now, callVars, account, verified, link, latest, crossed>>
  BY <1>2 DEF callVars, LinkInv, NewestLinkWorks
<1>3. CASE UNCHANGED vars \/ (\E t \in tokens : Logout(t)) \/ (\E u \in Users : LogoutAll(u))
  BY <1>2, <1>3 DEF vars, Logout, LogoutAll
<1>4. CASE \E u \in Users : DeleteAccount(u)
  <2>1. PICK u \in Users : DeleteAccount(u)
    BY <1>4
  <2>2. /\ \A v \in Users : v # u => account'[v] = account[v] /\ link'[v] = link[v]
        /\ account'[u] = "deleted" /\ link'[u] = None
        /\ UNCHANGED <<now, callVars, verified, latest, crossed>>
    BY <2>1 DEF DeleteAccount, TypeInv, TypeOK
  <2>3. \A h \in Handlers : at[h] # "idle" => who[h] \in Users
    BY DEF TypeInv, TypeOK, CallOK
  <2>4. \A h \in Handlers : at'[h] = "expire" => Clears(h)'
    BY <2>2, <2>3 DEF callVars, LinkInv, Clears
  <2> QED BY <2>2, <2>4 DEF callVars, LinkInv, NewestLinkWorks, Clears
<1> QED BY <1>1, <1>3, <1>4, LinkOfLink, LinkOfSession DEF Next

\* The newest link works until it expires.
THEOREM NewestLinkWorksHolds == Spec => []NewestLinkWorks
<1>1. Init => LinkInv
  BY DEF Init, LinkInv, NewestLinkWorks
<1>2. LinkInv => NewestLinkWorks
  BY DEF LinkInv
<1> QED BY <1>1, <1>2, LinkStepInv, TypeInvHolds, PTL DEF Spec
=============================================================================
