--------------------------- MODULE AccountProofs ---------------------------
(***************************************************************************)
(* Proofs about AccountLifecycle for any number of requests, identities    *)
(* and addresses.                                                          *)
(***************************************************************************)
EXTENDS AccountLifecycle, TLAPS

Holding   == {"user", "sync", "link", "erase", "key", "revoke"}
SigningIn == {"user", "sync", "email", "link", "name", "create"}

\* Rows are never removed from users, so whatever was read as an account
\* still is one: in a session, in a link row, behind a token.
References ==
  /\ tokens \subseteq Accounts
  /\ \A i \in Identity : link[i] # None => link[i].user \in Accounts
  /\ \A c \in Call : pc[c] \in Holding => held[c] \in Accounts
  /\ \A c \in Call : pc[c] \in SigningIn => who[c] \in Identity

TypeInv == TypeOK /\ References

USE DEF Where, Holding, SigningIn, session, tables, Accounts, Goto, Hold, End, Audit

LEMMA TypeInit == Init => TypeInv
  BY ConstantsAssumption DEF Init, TypeInv, TypeOK, References

LEMMA AdminIsBoolean == \A e : IsAdmin(e) \in BOOLEAN
  BY DEF IsAdmin

\* A call that only fails ends and changes nothing else.
LEMMA FailTypes ==
  ASSUME TypeInv, NEW c \in Call, Fail(c)
  PROVE  TypeInv'
  BY DEF TypeInv, TypeOK, References, Fail

LEMMA TypeStep == TypeInv /\ [Next]_vars => TypeInv'
<1> SUFFICES ASSUME TypeInv, [Next]_vars PROVE TypeInv'
  OBVIOUS
<1> USE ConstantsAssumption, RowsAssumption DEF TypeInv, TypeOK, References
<1>1. CASE UNCHANGED vars
  BY <1>1 DEF vars
<1>2. ASSUME NEW c \in Call, ReadIdentity(c) PROVE TypeInv'
  <2>1. PICK i \in Identity, e \in Email \cup {None} :
          /\ who' = [who EXCEPT ![c] = i]
          /\ mail' = [mail EXCEPT ![c] = e]
          /\ \/ /\ link[i] # None
                /\ seen' = [seen EXCEPT ![c] = link[i]]
                /\ Hold(c, link[i].user)
                /\ Goto(c, "user")
             \/ /\ link[i] = None
                /\ Goto(c, IF e = None THEN "name" ELSE "email")
                /\ UNCHANGED <<held, seen>>
    BY <1>2 DEF ReadIdentity
  <2>2. UNCHANGED <<flag, try, tables, tokens, quiet>>
    BY <1>2 DEF ReadIdentity
  <2>3. TypeOK'
    BY <2>1, <2>2 DEF Link
  <2>4. References'
    BY <2>1, <2>2
  <2>5. QED
    BY <2>3, <2>4
<1>3. ASSUME NEW c \in Call, LoadUser(c) PROVE TypeInv'
  BY <1>3 DEF LoadUser, User
<1>4. ASSUME NEW c \in Call, SyncUser(c) PROVE TypeInv'
  <2> DEFINE i == who[c]
             a == held[c]
             moved == mail[c] # None /\ seen[c].email # mail[c]
             toggled == mail[c] # None /\ flag[c] # IsAdmin(mail[c])
  <2>1. CASE Fail(c)
    BY <2>1, FailTypes
  <2>2. CASE /\ moved => link[i] # None
             /\ link' = IF moved THEN [link EXCEPT ![i].email = mail[c]] ELSE link
             /\ user' = IF toggled THEN [user EXCEPT ![a].admin = IsAdmin(mail[c])] ELSE user
             /\ Issue(c, a)
             /\ UNCHANGED <<key, events>>
    <3>1. i \in Identity /\ a \in Accounts
      BY <1>4 DEF SyncUser
    <3>2. link' \in [Identity -> Link \cup {None}]
      BY <2>2, <3>1 DEF Link
    <3>3. user' \in [Call -> User \cup {None}]
      BY <2>2, <3>1, AdminIsBoolean DEF User
    <3>4. Accounts' = Accounts
      <4>1. user[a] \in User
        BY <3>1
      <4>2. user'[a] \in User
        <5>1. CASE toggled
          BY <2>2, <3>1, <4>1, <5>1, AdminIsBoolean DEF User
        <5>2. CASE ~toggled
          BY <2>2, <4>1, <5>2
        <5>3. QED
          BY <5>1, <5>2
      <4>3. \A b \in Call \ {a} : user'[b] = user[b]
        BY <2>2
      <4>4. QED
        BY <4>1, <4>2, <4>3
    <3>5. \A j \in Identity : link'[j] # None => link[j] # None /\ link'[j].user = link[j].user
      <4>1. CASE moved
        <5>1. link[i] \in Link /\ link'[i].user = link[i].user
          BY <2>2, <3>1, <4>1 DEF Link
        <5>2. \A j \in Identity \ {i} : link'[j] = link[j]
          BY <2>2, <4>1
        <5>3. QED
          BY <5>1, <5>2
      <4>2. CASE ~moved
        BY <2>2, <4>2
      <4>3. QED
        BY <4>1, <4>2
    <3>6. TypeOK'
      BY <2>2, <3>1, <3>2, <3>3 DEF Issue
    <3>7. References'
      BY <2>2, <3>1, <3>4, <3>5 DEF Issue
    <3>8. QED
      BY <3>6, <3>7
  <2>3. QED
    BY <1>4, <2>1, <2>2 DEF SyncUser
<1>5. ASSUME NEW c \in Call, FindByEmail(c) PROVE TypeInv'
  BY <1>5 DEF FindByEmail
<1>6. ASSUME NEW c \in Call, LinkIdentity(c) PROVE TypeInv'
  <2> DEFINE i == who[c]
             new == [id |-> c, user |-> held[c], email |-> mail[c]]
  <2>1. CASE Fail(c)
    BY <2>1, FailTypes
  <2>2. CASE /\ link' = [link EXCEPT ![i] = new]
             /\ Issue(c, held[c])
             /\ UNCHANGED <<user, key, events>>
    <3>1. i \in Identity /\ held[c] \in Accounts /\ held[c] \in Call
      BY <1>6 DEF LinkIdentity
    <3>2. new \in Link /\ new.user \in Accounts
      BY <3>1 DEF Link
    <3>3. TypeOK'
      BY <2>2, <3>1, <3>2 DEF Issue
    <3>4. References'
      BY <2>2, <3>1, <3>2 DEF Issue
    <3>5. QED
      BY <3>3, <3>4
  <2>3. QED
    BY <1>6, <2>1, <2>2 DEF LinkIdentity
<1>7. ASSUME NEW c \in Call, TryName(c) PROVE TypeInv'
  BY <1>7 DEF TryName
<1>8. ASSUME NEW c \in Call, CreateUser(c) PROVE TypeInv'
  <2> DEFINE i == who[c]
             address == IF mail[c] = None THEN i ELSE mail[c]
             account == [email |-> address, name |-> try[c], admin |-> IsAdmin(address), erased |-> FALSE]
             new == [id |-> c, user |-> c, email |-> mail[c]]
  <2>1. CASE Fail(c)
    BY <2>1, FailTypes
  <2>2. CASE /\ user' = [user EXCEPT ![c] = account]
             /\ link' = [link EXCEPT ![i] = new]
             /\ Audit("user.registered", c)
             /\ Issue(c, c)
             /\ UNCHANGED key
    <3>1. i \in Identity
      BY <1>8 DEF CreateUser
    <3>2. account \in User /\ new \in Link
      BY <3>1 DEF User, Link, Address, IsAdmin
    <3>3. TypeOK'
      BY <2>2, <3>1, <3>2 DEF Issue
    <3>4. Accounts \subseteq Accounts' /\ c \in Accounts'
      <4> HIDE DEF account
      <4>1. account # None
        BY <3>2
      <4>2. user'[c] = account /\ \A b \in Call \ {c} : user'[b] = user[b]
        BY <2>2
      <4>3. QED
        BY <4>1, <4>2
    <3>5. References'
      BY <2>2, <3>1, <3>2, <3>4 DEF Issue
    <3>6. QED
      BY <3>3, <3>5
  <2>3. QED
    BY <1>8, <2>1, <2>2 DEF CreateUser
<1>9. ASSUME NEW c \in Call, Authenticate(c) PROVE TypeInv'
  <2>1. PICK a \in tokens :
          \/ Refused(a) /\ End(c) /\ UNCHANGED flag
          \/ /\ ~Refused(a)
             /\ Hold(c, a)
             /\ flag' = [flag EXCEPT ![c] = user[a].admin]
             /\ \E to \in {"erase", "key", "revoke"} : Goto(c, to)
    BY <1>9 DEF Authenticate
  <2>2. a \in Accounts /\ user[a] \in User
    OBVIOUS
  <2>3. user[a].admin \in BOOLEAN
    BY <2>2 DEF User
  <2>4. /\ pc[c] = "new"
        /\ UNCHANGED <<who, mail, seen, try, tables, tokens, quiet>>
    BY <1>9 DEF Authenticate
  <2>5. CASE Refused(a) /\ End(c) /\ UNCHANGED flag
    BY <2>4, <2>5
  <2>6. ASSUME NEW to \in {"erase", "key", "revoke"}, Goto(c, to),
               Hold(c, a), flag' = [flag EXCEPT ![c] = user[a].admin]
        PROVE  TypeInv'
    <3>1. flag' \in [Call -> BOOLEAN]
      BY <2>3, <2>6
    <3>2. TypeOK'
      BY <2>2, <2>4, <2>6, <3>1
    <3>3. References'
      BY <2>2, <2>4, <2>6
    <3>4. QED
      BY <3>2, <3>3
  <2>7. QED
    BY <2>1, <2>5, <2>6
<1>10. ASSUME NEW c \in Call, EraseUser(c) PROVE TypeInv'
  <2> DEFINE a == held[c]
  <2>1. a \in Accounts /\ a \in Call
    BY <1>10 DEF EraseUser
  <2>2. user' \in [Call -> User \cup {None}]
    BY <1>10, <2>1 DEF EraseUser, User, Address
  <2>3. Accounts' = Accounts
    <3>1. user'[a] \in User
      BY <1>10, <2>1 DEF EraseUser, User, Address
    <3>2. \A b \in Call \ {a} : user'[b] = user[b]
      BY <1>10 DEF EraseUser
    <3>3. QED
      BY <2>1, <3>1, <3>2
  <2>4. key' \in [Call -> Key \cup {None}]
    BY <1>10 DEF EraseUser, Kept, Inactive, Key
  <2>5. /\ link' \in [Identity -> Link \cup {None}]
        /\ \A i \in Identity : link'[i] \in {link[i], None}
    BY <1>10 DEF EraseUser, Unlinked
  <2>6. /\ UNCHANGED <<who, mail, seen, flag, try, tokens>>
        /\ pc' = [pc EXCEPT ![c] = "done"]
        /\ held' = [held EXCEPT ![c] = None]
        /\ events' = events \cup {<<"user.deleted", a>>}
        /\ quiet' \subseteq quiet \cup {a}
    BY <1>10 DEF EraseUser
  <2>7. TypeOK'
    BY <2>1, <2>2, <2>4, <2>5, <2>6
  <2>8. References'
    BY <2>1, <2>3, <2>5, <2>6
  <2>9. QED
    BY <2>7, <2>8
<1>11. ASSUME NEW c \in Call, CreateKey(c) PROVE TypeInv'
  BY <1>11 DEF CreateKey, Key
<1>12. ASSUME NEW c \in Call, RevokeKey(c) PROVE TypeInv'
  <2>1. CASE Fail(c)
    BY <2>1, FailTypes
  <2>2. ASSUME NEW k \in Call, key[k] # None,
               key' = [key EXCEPT ![k] = Inactive(k)],
               Audit("api_key.revoked", k),
               End(c),
               UNCHANGED <<who, mail, seen, flag, try, user, link, tokens, quiet>>
        PROVE  TypeInv'
    <3>1. key' \in [Call -> Key \cup {None}]
      BY <2>2 DEF Inactive, Key
    <3>2. TypeOK'
      BY <2>2, <3>1
    <3>3. References'
      BY <2>2
    <3>4. QED
      BY <3>2, <3>3
  <2>3. QED
    BY <1>12, <2>1, <2>2 DEF RevokeKey
<1>13. ASSUME NEW c \in Call, Abandon(c) PROVE TypeInv'
  BY <1>13, FailTypes DEF Abandon
<1>14. QED
  BY <1>1, <1>2, <1>3, <1>4, <1>5, <1>6, <1>7, <1>8, <1>9, <1>10, <1>11, <1>12, <1>13
     DEF Next, SignIn, Manage

LEMMA Typing == Spec => []TypeInv
  BY TypeInit, TypeStep, PTL DEF Spec

\* Every variable keeps its type.
THEOREM TypeCorrect == Spec => []TypeOK
<1>1. TypeInv => TypeOK
  BY DEF TypeInv
<1>2. QED
  BY <1>1, Typing, PTL
-----------------------------------------------------------------------------
\* An erased account keeps its row under a tombstone that only its own id can
\* be; so addresses are unique over all rows, names over those that have one.
UniqueInv ==
  /\ \A a \in Accounts : user[a].erased \/ user[a].name # None
  /\ \A a \in Accounts : user[a].email \in Call => user[a].email = a
  /\ \A a, b \in Accounts : user[a].email = user[b].email => a = b
  /\ \A a, b \in Accounts : user[a].name = user[b].name /\ user[a].name # None => a = b

\* A step that changes no address, no name and no erasure.
LEMMA UniqueKept ==
  ASSUME UniqueInv, Accounts' = Accounts,
         \A a \in Accounts : /\ user'[a].email = user[a].email
                             /\ user'[a].name = user[a].name
                             /\ user'[a].erased = user[a].erased
  PROVE  UniqueInv'
  BY DEF UniqueInv

LEMMA UniqueStep == TypeInv /\ UniqueInv /\ [Next]_vars => UniqueInv'
<1> SUFFICES ASSUME TypeInv, UniqueInv, [Next]_vars PROVE UniqueInv'
  OBVIOUS
<1>1. CASE UNCHANGED user
  BY <1>1 DEF UniqueInv
<1>2. ASSUME NEW c \in Call, SyncUser(c) PROVE UniqueInv'
  <2> DEFINE a == held[c]
  <2>1. CASE UNCHANGED user
    BY <2>1 DEF UniqueInv
  <2>2. CASE user' = [user EXCEPT ![a].admin = IsAdmin(mail[c])]
    <3>1. a \in Accounts /\ user[a] \in User
      BY <1>2 DEF SyncUser, TypeInv, TypeOK, References
    <3>2. user'[a] \in User /\ user'[a].email = user[a].email
          /\ user'[a].name = user[a].name /\ user'[a].erased = user[a].erased
      BY <2>2, <3>1, AdminIsBoolean DEF User, TypeInv, TypeOK
    <3>3. \A b \in Call \ {a} : user'[b] = user[b]
      BY <2>2 DEF TypeInv, TypeOK
    <3>4. Accounts' = Accounts
      BY <3>1, <3>2, <3>3, RowsAssumption
    <3>5. QED
      BY <3>2, <3>3, <3>4, UniqueKept
  <2>3. QED
    BY <1>2, <2>1, <2>2 DEF SyncUser, Fail
<1>3. ASSUME NEW c \in Call, CreateUser(c) PROVE UniqueInv'
  <2> DEFINE address == IF mail[c] = None THEN who[c] ELSE mail[c]
             account == [email |-> address, name |-> try[c], admin |-> IsAdmin(address), erased |-> FALSE]
  <2>1. CASE UNCHANGED user
    BY <2>1 DEF UniqueInv
  <2>2. CASE /\ user' = [user EXCEPT ![c] = account]
             /\ ~AddressTaken(address)
             /\ ~NameTaken(try[c])
    <3>1. who[c] \in Identity /\ mail[c] \in Email \cup {None} /\ try[c] \in Nat
      BY <1>3 DEF CreateUser, TypeInv, TypeOK, References
    <3>2. address \notin Call
      BY <3>1, ConstantsAssumption
    <3>3. account.email = address /\ account.name = try[c] /\ account.erased = FALSE
      OBVIOUS
    <3> HIDE DEF account, address
    <3>4. user'[c] = account /\ \A b \in Call \ {c} : user'[b] = user[b]
      BY <2>2 DEF TypeInv, TypeOK
    <3>5. Accounts' \subseteq Accounts \cup {c}
      BY <3>4
    <3>6. \A b \in Accounts : user[b].email # address /\ user[b].name # try[c]
      BY <2>2 DEF AddressTaken, NameTaken
    <3>7. user'[c].email = address /\ user'[c].name = try[c] /\ try[c] # None
      BY <3>1, <3>3, <3>4, RowsAssumption
    <3>8. \A b \in Accounts' : b # c => b \in Accounts /\ user'[b] = user[b]
      BY <3>4, <3>5
    <3>9. \A b \in Accounts' : user'[b].erased \/ user'[b].name # None
      BY <3>7, <3>8 DEF UniqueInv
    <3>10. \A b \in Accounts' : user'[b].email \in Call => user'[b].email = b
      BY <3>2, <3>7, <3>8 DEF UniqueInv
    <3>11. \A b, d \in Accounts' : user'[b].email = user'[d].email => b = d
      BY <3>6, <3>7, <3>8 DEF UniqueInv
    <3>12. \A b, d \in Accounts' : user'[b].name = user'[d].name /\ user'[b].name # None => b = d
      BY <3>6, <3>7, <3>8 DEF UniqueInv
    <3>13. QED
      BY <3>9, <3>10, <3>11, <3>12 DEF UniqueInv
  <2>3. QED
    BY <1>3, <2>1, <2>2 DEF CreateUser, Fail
<1>4. ASSUME NEW c \in Call, EraseUser(c) PROVE UniqueInv'
  <2> DEFINE a == held[c]
  <2>1. a \in Accounts /\ user[a] \in User
    BY <1>4 DEF EraseUser, TypeInv, TypeOK, References
  <2>2. user'[a].email = a /\ user'[a].name = None /\ user'[a].erased = TRUE
    BY <1>4, <2>1 DEF EraseUser, TypeInv, TypeOK
  <2>3. \A b \in Call \ {a} : user'[b] = user[b]
    BY <1>4 DEF EraseUser, TypeInv, TypeOK
  <2>4. Accounts' \subseteq Accounts
    BY <2>1, <2>3
  <2>5. QED
    BY <2>1, <2>2, <2>3, <2>4 DEF UniqueInv
<1>5. QED
  BY <1>1, <1>2, <1>3, <1>4
     DEF Next, SignIn, Manage, vars, ReadIdentity, LoadUser, FindByEmail, LinkIdentity, TryName,
         Authenticate, CreateKey, RevokeKey, Abandon, Fail, Issue

\* oauth.py:36, 96: however many sign-ins race, no two accounts that are not
\* erased share an address or a username.
THEOREM AccountsStayDistinct == Spec => []AccountsAreDistinct
<1>1. Init => UniqueInv
  BY DEF Init, UniqueInv
<1>2. TypeInv /\ UniqueInv => AccountsAreDistinct
  BY DEF TypeInv, TypeOK, UniqueInv, AccountsAreDistinct, Live
<1>3. QED
  BY <1>1, <1>2, Typing, UniqueStep, PTL DEF Spec
-----------------------------------------------------------------------------
\* An erasure takes the links of its own account and no other step takes any:
\* the inserts find the identity without a link, the sync keeps the account.
LEMMA LinksStay ==
  ASSUME TypeInv, [Next]_vars, NEW i \in Identity,
         link[i] # None, link[i].user \in Live, link[i].user \in Live'
  PROVE  link'[i] # None /\ link'[i].user = link[i].user
<1>t. TypeOK /\ References /\ link[i] \in Link
  BY DEF TypeInv, TypeOK
<1>1. CASE UNCHANGED link
  BY <1>1
<1>2. ASSUME NEW c \in Call, SyncUser(c)
      PROVE  link'[i] # None /\ link'[i].user = link[i].user
  <2>1. who[c] \in Identity /\ mail[c] \in Email \cup {None}
    BY <1>2, <1>t DEF SyncUser, TypeOK, References
  <2>2. \/ link'[i] = link[i]
        \/ link'[i] = [link[i] EXCEPT !.email = mail[c]]
    BY <1>2, <1>t, <2>1 DEF SyncUser, Fail, TypeOK
  <2>3. [link[i] EXCEPT !.email = mail[c]] \in Link
    BY <1>t, <2>1 DEF Link
  <2>4. [link[i] EXCEPT !.email = mail[c]].user = link[i].user
    BY <1>t DEF Link
  <2>5. QED
    BY <2>2, <2>3, <2>4, RowsAssumption
<1>3. ASSUME NEW c \in Call, LinkIdentity(c) \/ CreateUser(c)
      PROVE  link'[i] # None /\ link'[i].user = link[i].user
  <2>1. \/ UNCHANGED link
        \/ link[who[c]] = None /\ \E new : link' = [link EXCEPT ![who[c]] = new]
    BY <1>3 DEF LinkIdentity, CreateUser, Fail, LinkTaken
  <2>2. QED
    BY <1>t, <2>1 DEF TypeOK
<1>4. ASSUME NEW c \in Call, EraseUser(c)
      PROVE  link'[i] # None /\ link'[i].user = link[i].user
  <2> DEFINE a == held[c]
  <2>1. a \in Accounts /\ user[a] \in User
    BY <1>4, <1>t DEF EraseUser, TypeOK, References
  <2>2. user'[a].erased
    BY <1>4, <1>t, <2>1 DEF EraseUser, TypeOK
  <2>3. link[i].user # a
    BY <2>2 DEF Live
  <2>4. QED
    BY <1>4, <2>3 DEF EraseUser, Unlinked
<1>5. QED
  BY <1>1, <1>2, <1>3, <1>4
     DEF Next, SignIn, Manage, vars, ReadIdentity, LoadUser, FindByEmail, TryName,
         Authenticate, CreateKey, RevokeKey, Abandon, Fail

\* user_identity.py:22: however sign-ins, syncs and erasures interleave, an
\* identity leads to the account it was first linked to until that is erased.
THEOREM IdentitiesStayPut == Spec => IdentityStaysPut
<1>1. TypeInv /\ [Next]_vars =>
        [\A i \in Identity : link[i] # None /\ link[i].user \in Live /\ link[i].user \in Live'
           => link'[i] # None /\ link'[i].user = link[i].user]_vars
  BY LinksStay
<1>2. QED
  BY <1>1, Typing, PTL DEF Spec, IdentityStaysPut
-----------------------------------------------------------------------------
\* An erasure that nothing overlapped leaves no way back to the account: its
\* row is a tombstone no verified address matches, nothing refers to it, and
\* no call that is still to create an account can take its place.
Gone(a) ==
  /\ a \in Accounts
  /\ user[a].erased
  /\ user[a].email = a
  /\ ~user[a].admin
  /\ \A i \in Identity : link[i] # None => link[i].user # a
  /\ \A k \in Call : key[k] # None /\ key[k].user = a => ~key[k].active
  /\ \A c \in Call : held[c] # a

QuietInv ==
  /\ \A c \in Accounts : pc[c] = "done"
  /\ \A a \in quiet : Gone(a)

\* A row of users is replaced by one that is no less a row.
LEMMA RowReplaced ==
  ASSUME TypeInv, NEW a \in Accounts, NEW row \in User, user' = [user EXCEPT ![a] = row]
  PROVE  /\ Accounts' = Accounts
         /\ user'[a] = row
         /\ \A b \in Call \ {a} : user'[b] = user[b]
<1>1. user'[a] = row /\ \A b \in Call \ {a} : user'[b] = user[b]
  BY DEF TypeInv, TypeOK
<1>2. row # None
  BY RowsAssumption
<1>3. QED
  BY <1>1, <1>2

\* A call that is going on has made no account yet, and none does but by ending.
LEMMA AccountsAreDone ==
  ASSUME TypeInv, \A c \in Accounts : pc[c] = "done", [Next]_vars
  PROVE  \A c \in Accounts' : pc'[c] = "done"
<1> SUFFICES ASSUME NEW b \in Accounts' PROVE pc'[b] = "done"
  OBVIOUS
<1>t. TypeOK /\ b \in Call
  BY DEF TypeInv
<1>1. CASE UNCHANGED user
  <2>1. pc[b] = "done"
    BY <1>1
  <2>2. ASSUME NEW c \in Call, SignIn(c)
        PROVE  pc[c] # "done" /\ (UNCHANGED pc \/ \E to \in Where : Goto(c, to))
    BY <2>2 DEF SignIn, ReadIdentity, LoadUser, SyncUser, FindByEmail, LinkIdentity, TryName,
       CreateUser, Fail, Issue
  <2>3. ASSUME NEW c \in Call, Manage(c) \/ Abandon(c)
        PROVE  pc[c] # "done" /\ \E to \in Where : Goto(c, to)
    BY <2>3 DEF Manage, Authenticate, EraseUser, CreateKey, RevokeKey, Abandon, Fail
  <2>4. \/ UNCHANGED pc
        \/ \E c \in Call : pc[c] # "done" /\ \E to \in Where : Goto(c, to)
    BY <2>2, <2>3 DEF Next, vars
  <2>5. QED
    BY <1>t, <2>1, <2>4 DEF TypeOK
<1>2. ASSUME NEW c \in Call, SyncUser(c) \/ CreateUser(c) \/ EraseUser(c), user' # user
      PROVE  pc'[b] = "done"
  <2>1. pc' = [pc EXCEPT ![c] = "done"]
    BY <1>2 DEF SyncUser, CreateUser, EraseUser, Fail, Issue
  <2>2. b \in Accounts \/ b = c
    <3>1. CASE CreateUser(c)
      BY <1>2, <1>t, <3>1 DEF CreateUser, Fail, TypeOK
    <3>2. CASE SyncUser(c) \/ EraseUser(c)
      <4>1. held[c] \in Accounts
        BY <3>2 DEF SyncUser, EraseUser, TypeInv, References
      <4>2. \A d \in Call \ {held[c]} : user'[d] = user[d]
        BY <1>2, <1>t, <3>2 DEF SyncUser, EraseUser, Fail, TypeOK
      <4>3. QED
        BY <1>t, <4>1, <4>2
    <3>3. QED
      BY <1>2, <3>1, <3>2
  <2>3. QED
    BY <1>t, <2>1, <2>2 DEF TypeOK
<1>3. QED
  BY <1>1, <1>2 DEF Next, SignIn, Manage, vars, ReadIdentity, LoadUser, FindByEmail,
     LinkIdentity, TryName, Authenticate, CreateKey, RevokeKey, Abandon, Fail

\* A step that neither refers to a gone account nor touches its row.
LEMMA StaysGone ==
  ASSUME NEW a, Gone(a), a \in Accounts', user'[a] = user[a],
         \A i \in Identity : link'[i] # None /\ link'[i].user = a => link[i] # None /\ link[i].user = a,
         \A k \in Call : key'[k] # None /\ key'[k].user = a /\ key'[k].active =>
           key[k] # None /\ key[k].user = a /\ key[k].active,
         \A c \in Call : held'[c] # a
  PROVE  Gone(a)'
  BY DEF Gone

LEMMA GoneStep ==
  ASSUME TypeInv, QuietInv, [Next]_vars, NEW a \in quiet
  PROVE  Gone(a)'
<1>t. /\ TypeOK /\ References /\ Gone(a) /\ a \in Call /\ a \in Accounts
      /\ user[a] \in User /\ user[a].email = a /\ a \notin Email \cup Identity \cup {None}
  BY ConstantsAssumption DEF TypeInv, TypeOK, QuietInv, Gone
<1>1. CASE UNCHANGED vars
  BY <1>1, <1>t DEF vars, Gone
<1>2. ASSUME NEW c \in Call, ReadIdentity(c) PROVE Gone(a)'
  <2>1. held' = held \/ \E i \in Identity : link[i] # None /\ Hold(c, link[i].user)
    BY <1>2 DEF ReadIdentity
  <2>2. \A d \in Call : held'[d] # a
    BY <1>t, <2>1 DEF Gone, TypeOK
  <2>3. QED
    BY <1>2, <1>t, <2>2, StaysGone DEF ReadIdentity
<1>3. ASSUME NEW c \in Call, FindByEmail(c) PROVE Gone(a)'
  <2>1. mail[c] # a
    BY <1>t DEF TypeOK
  <2>2. \A d \in Call : held'[d] # a
    BY <1>3, <1>t, <2>1 DEF FindByEmail, EmailMatches, Gone, TypeOK
  <2>3. QED
    BY <1>3, <1>t, <2>2, StaysGone DEF FindByEmail
<1>4. ASSUME NEW c \in Call, Authenticate(c) PROVE Gone(a)'
  <2>1. \A d \in Call : held'[d] # a
    BY <1>4, <1>t DEF Authenticate, Refused, Gone, TypeOK
  <2>2. QED
    BY <1>4, <1>t, <2>1, StaysGone DEF Authenticate
<1>5. ASSUME NEW c \in Call, LoadUser(c) \/ TryName(c) PROVE Gone(a)'
  BY <1>5, <1>t DEF LoadUser, TryName, Gone
<1>6. ASSUME NEW c \in Call, Fail(c) PROVE Gone(a)'
  <2>1. \A d \in Call : held'[d] # a
    BY <1>6, <1>t DEF Fail, Gone, TypeOK
  <2>2. QED
    BY <1>6, <1>t, <2>1, StaysGone DEF Fail
<1>7. ASSUME NEW c \in Call, SyncUser(c), ~Fail(c) PROVE Gone(a)'
  <2>1. /\ held[c] \in Accounts /\ held[c] # a /\ who[c] \in Identity
        /\ \A d \in Call : held'[d] # a
    BY <1>7, <1>t DEF SyncUser, References, Issue, Gone, TypeOK
  <2>2. user'[a] = user[a]
    BY <1>7, <1>t, <2>1 DEF SyncUser, TypeOK
  <2>3. \A i \in Identity : link'[i] # None /\ link'[i].user = a =>
                              link[i] # None /\ link[i].user = a
    <3> TAKE i \in Identity
    <3>1. CASE link'[i] = link[i]
      BY <3>1
    <3>2. CASE link'[i] # link[i]
      <4>1. link' = [link EXCEPT ![who[c]].email = mail[c]] /\ link[who[c]] # None
        BY <1>7, <3>2 DEF SyncUser
      <4>2. i = who[c] /\ link[i] \in Link /\ link'[i] = [link[i] EXCEPT !.email = mail[c]]
        BY <1>t, <2>1, <3>2, <4>1 DEF TypeOK
      <4>3. link'[i].user = link[i].user
        BY <4>2 DEF Link
      <4>4. QED
        BY <4>1, <4>2, <4>3
    <3>3. QED
      BY <3>1, <3>2
  <2>4. a \in Accounts' /\ UNCHANGED key
    BY <1>7, <1>t, <2>2 DEF SyncUser, Gone
  <2>5. QED
    BY <1>t, <2>1, <2>2, <2>3, <2>4, StaysGone
<1>8. ASSUME NEW c \in Call, LinkIdentity(c), ~Fail(c) PROVE Gone(a)'
  <2>1. /\ link' = [link EXCEPT ![who[c]] = [id |-> c, user |-> held[c], email |-> mail[c]]]
        /\ Issue(c, held[c]) /\ UNCHANGED <<user, key, events>>
    BY <1>8 DEF LinkIdentity
  <2>2. \A d \in Call : held'[d] # a /\ held[d] # a
    BY <1>t, <2>1 DEF Issue, Gone, TypeOK
  <2>3. QED
    BY <1>t, <2>1, <2>2, StaysGone DEF TypeOK, Gone
<1>9. ASSUME NEW c \in Call, CreateUser(c), ~Fail(c) PROVE Gone(a)'
  <2>1. /\ \E row : user' = [user EXCEPT ![c] = row]
        /\ link' = [link EXCEPT ![who[c]] = [id |-> c, user |-> c, email |-> mail[c]]]
        /\ Issue(c, c) /\ UNCHANGED key /\ pc[c] = "create"
    BY <1>9 DEF CreateUser
  <2>2. a # c
    BY <1>t, <2>1 DEF QuietInv, Gone
  <2>3. user'[a] = user[a] /\ a \in Accounts'
    BY <1>t, <2>1, <2>2 DEF TypeOK, Gone
  <2>4. \A d \in Call : held'[d] # a
    BY <1>t, <2>1 DEF Issue, Gone, TypeOK
  <2>5. QED
    BY <1>t, <2>1, <2>2, <2>3, <2>4, StaysGone DEF TypeOK
<1>10. ASSUME NEW c \in Call, EraseUser(c) PROVE Gone(a)'
  <2>1. held[c] # a /\ UNCHANGED tokens
    BY <1>10, <1>t DEF EraseUser, Gone
  <2>2. user'[a] = user[a] /\ a \in Accounts'
    BY <1>10, <1>t, <2>1 DEF EraseUser, TypeOK, Gone
  <2>3. \A d \in Call : held'[d] # a
    BY <1>10, <1>t DEF EraseUser, Gone, TypeOK
  <2>4. \A i \in Identity : link'[i] \in {link[i], None}
    BY <1>10 DEF EraseUser, Unlinked
  <2>5. \A k \in Call : key'[k] = key[k] \/ ~key'[k].active
    BY <1>10 DEF EraseUser, Kept, Inactive
  <2>6. QED
    BY <1>t, <2>2, <2>3, <2>4, <2>5, StaysGone
<1>11. ASSUME NEW c \in Call, CreateKey(c) PROVE Gone(a)'
  <2>1. \A d \in Call : held'[d] # a /\ held[d] # a
    BY <1>11, <1>t DEF CreateKey, Gone, TypeOK
  <2>2. QED
    BY <1>11, <1>t, <2>1, StaysGone DEF CreateKey, TypeOK, Gone
<1>12. ASSUME NEW c \in Call, RevokeKey(c), ~Fail(c) PROVE Gone(a)'
  <2>1. PICK k \in Call : /\ key' = [key EXCEPT ![k] = Inactive(k)] /\ End(c)
                          /\ UNCHANGED <<user, link>>
    BY <1>12 DEF RevokeKey
  <2>2. \A d \in Call : held'[d] # a
    BY <1>t, <2>1 DEF Gone, TypeOK
  <2>3. \A j \in Call : key'[j] = key[j] \/ ~key'[j].active
    BY <1>t, <2>1 DEF Inactive, TypeOK
  <2>4. QED
    BY <1>t, <2>1, <2>2, <2>3, StaysGone DEF Gone
<1>13. QED
  BY <1>1, <1>2, <1>3, <1>4, <1>5, <1>6, <1>7, <1>8, <1>9, <1>10, <1>11, <1>12
     DEF Next, SignIn, Manage, Abandon

\* The erasure itself: the session of the eraser is the only one to hold the
\* account, and it saw is_admin as it is.
LEMMA ErasureIsClean ==
  ASSUME TypeInv, NEW c \in Call, NEW a \in Call, a = held[c], EraseUser(c), Undisturbed(c)
  PROVE  Gone(a)'
<1> DEFINE row == [email |-> a, name |-> None, admin |-> user[a].admin /\ ~flag[c],
                   erased |-> TRUE]
<1>1. a \in Accounts
  BY DEF EraseUser, TypeInv, References
<1>2. user[a] \in User /\ flag[c] \in BOOLEAN /\ user[a].admin = flag[c]
  BY <1>1 DEF TypeInv, TypeOK, Undisturbed
<1>3. row \in User /\ row.email = a /\ row.erased /\ ~row.admin
  BY <1>1, <1>2 DEF User, Address
<1>4. user' = [user EXCEPT ![a] = row]
  BY <1>1, <1>2 DEF EraseUser
<1> HIDE DEF row
<1>5. Accounts' = Accounts /\ user'[a] = row
  BY <1>1, <1>3, <1>4, RowReplaced
<1>6. \A i \in Identity : link'[i] # None => link'[i].user # a
  BY DEF EraseUser, Unlinked
<1>7. \A k \in Call : key'[k] # None /\ key'[k].user = a => ~key'[k].active
  BY DEF EraseUser, Kept, Inactive
<1>8. \A d \in Call : held'[d] # a
  BY ConstantsAssumption DEF EraseUser, Undisturbed, TypeInv, TypeOK
<1>9. QED
  BY <1>1, <1>3, <1>5, <1>6, <1>7, <1>8 DEF Gone

LEMMA QuietStep == TypeInv /\ QuietInv /\ [Next]_vars => QuietInv'
<1> SUFFICES ASSUME TypeInv, QuietInv, [Next]_vars PROVE QuietInv'
  OBVIOUS
<1>1. \A c \in Accounts' : pc'[c] = "done"
  BY AccountsAreDone DEF QuietInv
<1>2. ASSUME NEW a \in quiet', a \notin quiet PROVE Gone(a)'
  <2>1. PICK c \in Call : EraseUser(c) /\ Undisturbed(c) /\ a = held[c]
    <3>1. quiet' # quiet
      BY <1>2
    <3>2. PICK c \in Call : EraseUser(c)
      BY <3>1, ZenonT(30) DEF Next, SignIn, Manage, vars, ReadIdentity, LoadUser, SyncUser, FindByEmail,
         LinkIdentity, TryName, CreateUser, Authenticate, CreateKey, RevokeKey, Abandon, Fail, Issue
    <3>3. QED
      BY <1>2, <3>2 DEF EraseUser
  <2>2. a \in Call
    BY <2>1 DEF EraseUser, TypeInv, References
  <2>3. QED
    BY <2>1, <2>2, ErasureIsClean
<1>3. \A a \in quiet : Gone(a)'
  BY GoneStep
<1>4. QED
  BY <1>1, <1>2, <1>3 DEF QuietInv

\* account.py:3: an erasure that no other request of the account overlaps is
\* final, whatever requests come later.
THEOREM QuietErasuresAreFinal == Spec => []QuietErasureIsFinal
<1>1. Init => QuietInv
  BY DEF Init, QuietInv
<1>2. QuietInv => QuietErasureIsFinal
  BY DEF QuietInv, Gone, QuietErasureIsFinal
<1>3. QED
  BY <1>1, <1>2, QuietStep, Typing, PTL DEF Spec
=============================================================================
