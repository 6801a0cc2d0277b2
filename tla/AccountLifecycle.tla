------------------------- MODULE AccountLifecycle -------------------------
(***************************************************************************)
(* Accounts from the first sign-in to their erasure: the OAuth callbacks   *)
(* (routers/oauth.py, services/oauth.py find_or_create_oauth_user), the    *)
(* API keys and the erasure (routers/auth.py, services/account.py), and    *)
(* the authentication they rely on (dependencies.py).                      *)
(*                                                                         *)
(* A call is one request; its steps are the SELECTs of the handler and its *)
(* final flush and commit.  A sign-in brings an identity of a provider and *)
(* the verified e-mail the provider reports, if any; all sign-ins suggest  *)
(* the same username.  A call's own name also names the account, the link  *)
(* row and the API key it creates (uuid4 in the code).                     *)
(*                                                                         *)
(* The erasure's UPDATE changes columns of unique indexes, so PostgreSQL   *)
(* takes the strongest row lock: inserts that refer to the account wait    *)
(* until it commits, and the erasure is one step.                          *)
(***************************************************************************)
EXTENDS Naturals, FiniteSets

CONSTANTS
  Call,          (* requests                                               *)
  Identity,      (* accounts of the providers: provider, provider_user_id  *)
  Email,         (* verified addresses                                     *)
  AdminEmail,    (* settings.admin_emails                                  *)
  None           (* no row, no address, no account                         *)

ASSUME ConstantsAssumption ==
  /\ AdminEmail \subseteq Email
  /\ None \notin Call \cup Identity \cup Email
  /\ Call \cap (Identity \cup Email) = {}
  /\ Identity \cap Email = {}

\* users.email: a verified address, the no-reply address of an identity, or
\* the tombstone that embeds the account's id.
Address == Email \cup Identity \cup Call
Link    == [id : Call, user : Call, email : Email \cup {None}]
User    == [email : Address, name : Nat \cup {None}, admin : BOOLEAN, erased : BOOLEAN]
Key     == [user : Call, active : BOOLEAN]

ASSUME RowsAssumption == None \notin Nat \cup Link \cup User \cup Key

VARIABLES
  pc,       (* where each call is                                          *)
  who,      (* the identity a sign-in brings                               *)
  mail,     (* the verified address it brings                              *)
  held,     (* the account a call's session has loaded                     *)
  seen,     (* the link row a sign-in has loaded                           *)
  flag,     (* is_admin of the held account when it was loaded             *)
  try,      (* number behind the username a sign-in tries                  *)
  user,     (* users, by id                                                *)
  link,     (* user_identities, by (provider, provider_user_id)            *)
  key,      (* api_keys, by id                                             *)
  tokens,   (* accounts for which a token was handed out                   *)
  events,   (* audit events: action and id of its subject                  *)
  quiet     (* accounts whose erasure nothing overlapped                   *)

session == <<who, mail, held, seen, flag, try>>
tables  == <<user, link, key, events>>
vars    == <<pc, session, tables, tokens, quiet>>

Where == {"new", "user", "sync", "email", "link", "name", "create", "erase", "key", "revoke", "done"}

TypeOK ==
  /\ pc \in [Call -> Where]
  /\ who \in [Call -> Identity \cup {None}]
  /\ mail \in [Call -> Email \cup {None}]
  /\ held \in [Call -> Call \cup {None}]
  /\ seen \in [Call -> Link \cup {None}]
  /\ flag \in [Call -> BOOLEAN]
  /\ try \in [Call -> Nat]
  /\ user \in [Call -> User \cup {None}]
  /\ link \in [Identity -> Link \cup {None}]
  /\ key \in [Call -> Key \cup {None}]
  /\ tokens \subseteq Call
  /\ events \subseteq {"user.registered", "user.deleted", "api_key.created", "api_key.revoked"} \X Call
  /\ quiet \subseteq Call

Init ==
  /\ pc = [c \in Call |-> "new"]
  /\ who = [c \in Call |-> None]
  /\ mail = [c \in Call |-> None]
  /\ held = [c \in Call |-> None]
  /\ seen = [c \in Call |-> None]
  /\ flag = [c \in Call |-> FALSE]
  /\ try = [c \in Call |-> 0]
  /\ user = [c \in Call |-> None]
  /\ link = [i \in Identity |-> None]
  /\ key = [c \in Call |-> None]
  /\ tokens = {}
  /\ events = {}
  /\ quiet = {}
-----------------------------------------------------------------------------
Accounts == {a \in Call : user[a] # None}
Live     == {a \in Accounts : ~user[a].erased}

Goto(c, to) == pc' = [pc EXCEPT ![c] = to]
Hold(c, a)  == held' = [held EXCEPT ![c] = a]

\* The call ends: its session holds nothing any more.
End(c) == Goto(c, "done") /\ Hold(c, None)

\* An error leaves the handler and the session rolls back.
Fail(c) ==
  /\ End(c)
  /\ UNCHANGED <<who, mail, seen, flag, try, tables, tokens, quiet>>

\* After the commit: the redirect that carries a token of account a, or the
\* one that carries an error, when the refresh or the commit's reply fails.
Issue(c, a) ==
  /\ End(c)
  /\ tokens' \in {tokens, tokens \cup {a}}
  /\ UNCHANGED <<who, mail, seen, flag, try, quiet>>

Audit(action, subject) == events' = events \cup {<<action, subject>>}

\* _is_admin_email
IsAdmin(e) == e \in AdminEmail

\* Mutation of Refused: authentication forgets deleted_at.
NeverRefused(a) == FALSE

\* get_current_user and _authenticate_api_key turn an erased account away.
Refused(a) == user[a].erased

\* SELECT of the account with this address.
EmailMatches(a, e) == user[a].email = e

\* Mutation of AddressTaken: users.email is not unique.
NoAddressTaken(e) == FALSE

\* users.email and users.username are unique.
AddressTaken(e) == \E a \in Accounts : user[a].email = e
NameTaken(n)    == \E a \in Accounts : user[a].name = n

\* Mutation of LinkTaken: the insert replaces the link that is there.
NoLinkTaken(i) == FALSE

\* uq_user_identity_provider: one link per identity.
LinkTaken(i) == link[i] # None
-----------------------------------------------------------------------------
\* The callback has exchanged the code and knows who signs in with which
\* verified address.  SELECT of the identity: a known one leads to its
\* account, an unknown one to the look-up by address, if there is one.
ReadIdentity(c) ==
  /\ pc[c] = "new"
  /\ \E i \in Identity, e \in Email \cup {None} :
       /\ who' = [who EXCEPT ![c] = i]
       /\ mail' = [mail EXCEPT ![c] = e]
       /\ \/ /\ link[i] # None
             /\ seen' = [seen EXCEPT ![c] = link[i]]
             /\ Hold(c, link[i].user)
             /\ Goto(c, "user")
          \/ /\ link[i] = None
             /\ Goto(c, IF e = None THEN "name" ELSE "email")
             /\ UNCHANGED <<held, seen>>
  /\ UNCHANGED <<flag, try, tables, tokens, quiet>>

\* SELECT of the account the identity belongs to.
LoadUser(c) ==
  /\ pc[c] = "user"
  /\ flag' = [flag EXCEPT ![c] = user[held[c]].admin]
  /\ Goto(c, "sync")
  /\ UNCHANGED <<who, mail, held, seen, try, tables, tokens, quiet>>

\* A known identity with a verified address: provider_email and is_admin are
\* assigned where they differ from what was loaded, and committed.  The
\* UPDATE of a link row that is gone fails the sign-in.
SyncUser(c) ==
  LET i == who[c]
      a == held[c]
      moved   == mail[c] # None /\ seen[c].email # mail[c]
      present == link[i] # None /\ link[i].id = seen[c].id
      toggled == mail[c] # None /\ flag[c] # IsAdmin(mail[c])
  IN  /\ pc[c] = "sync"
      /\ \/ moved /\ ~present /\ Fail(c)
         \/ /\ moved => present
            /\ link' = IF moved THEN [link EXCEPT ![i].email = mail[c]] ELSE link
            /\ user' = IF toggled THEN [user EXCEPT ![a].admin = IsAdmin(mail[c])] ELSE user
            /\ Issue(c, a)
            /\ UNCHANGED <<key, events>>

\* SELECT of the account with the verified address.
FindByEmail(c) ==
  /\ pc[c] = "email"
  /\ \/ \E a \in Accounts :
          /\ EmailMatches(a, mail[c])
          /\ Hold(c, a)
          /\ Goto(c, "link")
     \/ /\ \A a \in Accounts : ~EmailMatches(a, mail[c])
        /\ Goto(c, "name")
        /\ UNCHANGED held
  /\ UNCHANGED <<who, mail, seen, flag, try, tables, tokens, quiet>>

\* INSERT of the link to the account found, and commit.
LinkIdentity(c) ==
  LET i == who[c]
  IN  /\ pc[c] = "link"
      /\ \/ LinkTaken(i) /\ Fail(c)
         \/ /\ ~LinkTaken(i)
            /\ link' = [link EXCEPT ![i] = [id |-> c, user |-> held[c], email |-> mail[c]]]
            /\ Issue(c, held[c])
            /\ UNCHANGED <<user, key, events>>

\* _unique_username: one SELECT per candidate.  The last resort after 10 000
\* candidates is out of reach.
TryName(c) ==
  /\ pc[c] = "name"
  /\ \/ /\ NameTaken(try[c])
        /\ try' = [try EXCEPT ![c] = @ + 1]
        /\ UNCHANGED pc
     \/ /\ ~NameTaken(try[c])
        /\ Goto(c, "create")
        /\ UNCHANGED try
  /\ UNCHANGED <<who, mail, held, seen, flag, tables, tokens, quiet>>

\* INSERT of the account, its audit event and its link, and commit; a unique
\* constraint may refuse any of the rows.
CreateUser(c) ==
  LET i == who[c]
      address == IF mail[c] = None THEN i ELSE mail[c]
      refused == AddressTaken(address) \/ NameTaken(try[c]) \/ LinkTaken(i)
  IN  /\ pc[c] = "create"
      /\ \/ refused /\ Fail(c)
         \/ /\ ~refused
            /\ user' = [user EXCEPT ![c] =
                          [email |-> address, name |-> try[c], admin |-> IsAdmin(address), erased |-> FALSE]]
            /\ link' = [link EXCEPT ![i] = [id |-> c, user |-> c, email |-> mail[c]]]
            /\ Audit("user.registered", c)
            /\ Issue(c, c)
            /\ UNCHANGED key
-----------------------------------------------------------------------------
\* A request with a token of account a: get_current_user loads the account.
\* Whoever has an API key of a had a token of it, so a key opens no more.
Authenticate(c) ==
  /\ pc[c] = "new"
  /\ \E a \in tokens :
       \/ /\ Refused(a)
          /\ End(c)
          /\ UNCHANGED flag
       \/ /\ ~Refused(a)
          /\ Hold(c, a)
          /\ flag' = [flag EXCEPT ![c] = user[a].admin]
          /\ \E to \in {"erase", "key", "revoke"} : Goto(c, to)
  /\ UNCHANGED <<who, mail, seen, try, tables, tokens, quiet>>

Inactive(k) == [user |-> key[k].user, active |-> FALSE]

\* What the erasure of account a leaves of a key and of a link.
Kept(k, a)     == IF key[k] # None /\ key[k].user = a THEN Inactive(k) ELSE key[k]
Unlinked(i, a) == IF link[i] # None /\ link[i].user = a THEN None ELSE link[i]

\* No other call holds the account that c is about to erase, and none has
\* changed its row since c loaded it.
Undisturbed(c) ==
  /\ user[held[c]].admin = flag[c]
  /\ \A d \in Call \ {c} : held[d] # held[c]

\* delete_user and its commit.  is_admin is written only when the session
\* loaded it as true.
EraseUser(c) ==
  LET a == held[c]
  IN  /\ pc[c] = "erase"
      /\ user' = [user EXCEPT ![a] =
                    [email |-> a, name |-> None, admin |-> @.admin /\ ~flag[c], erased |-> TRUE]]
      /\ key' = [k \in Call |-> Kept(k, a)]
      /\ link' = [i \in Identity |-> Unlinked(i, a)]
      /\ Audit("user.deleted", a)
      /\ quiet' = IF Undisturbed(c) THEN quiet \cup {a} ELSE quiet
      /\ End(c)
      /\ UNCHANGED <<who, mail, seen, flag, try, tokens>>

\* create_api_key: INSERT and commit.
CreateKey(c) ==
  /\ pc[c] = "key"
  /\ key' = [key EXCEPT ![c] = [user |-> held[c], active |-> TRUE]]
  /\ Audit("api_key.created", c)
  /\ End(c)
  /\ UNCHANGED <<who, mail, seen, flag, try, user, link, tokens, quiet>>

\* deactivate_api_key: a key of the caller's own, or 404.
RevokeKey(c) ==
  /\ pc[c] = "revoke"
  /\ \E k \in Call :
       \/ key[k] = None /\ Fail(c)
       \/ key[k] # None /\ key[k].user # held[c] /\ Fail(c)
       \/ /\ key[k] # None
          /\ key[k].user = held[c]
          /\ key' = [key EXCEPT ![k] = Inactive(k)]
          /\ Audit("api_key.revoked", k)
          /\ End(c)
          /\ UNCHANGED <<who, mail, seen, flag, try, user, link, tokens, quiet>>

\* The database fails or the process dies before the commit.
Abandon(c) == pc[c] \notin {"new", "done"} /\ Fail(c)
-----------------------------------------------------------------------------
SignIn(c) ==
  \/ ReadIdentity(c) \/ LoadUser(c) \/ SyncUser(c) \/ FindByEmail(c)
  \/ LinkIdentity(c) \/ TryName(c) \/ CreateUser(c)

Manage(c) == Authenticate(c) \/ EraseUser(c) \/ CreateKey(c) \/ RevokeKey(c)

Next == \E c \in Call : SignIn(c) \/ Manage(c) \/ Abandon(c)

Spec == Init /\ [][Next]_vars
-----------------------------------------------------------------------------
\* oauth.py:36, 96 read before they write; however first sign-ins of one
\* person with two providers race, two accounts that are not erased never
\* share an address or a username.
AccountsAreDistinct ==
  \A a, b \in Live : a # b => user[a].email # user[b].email /\ user[a].name # user[b].name

\* user_identity.py:22: whoever signs in with an identity reaches the same
\* account every time, until that account is erased.
IdentityStaysPut ==
  [][\A i \in Identity : link[i] # None /\ link[i].user \in Live /\ link[i].user \in Live'
       => link'[i] # None /\ link'[i].user = link[i].user]_vars

\* account.py:3: an erasure that no other request of the account overlaps is
\* final: no identity leads to the account, none of its keys is active, it
\* has no admin rights, and no request ever acts for it again.
QuietErasureIsFinal ==
  \A a \in quiet :
    /\ \A i \in Identity : link[i] # None => link[i].user # a
    /\ \A k \in Call : key[k] # None /\ key[k].user = a => ~key[k].active
    /\ \A c \in Call : held[c] # a
    /\ ~user[a].admin

\* account.py:5: "API keys are revoked, and OAuth identity links are removed".
ErasureUnlinks ==
  \A i \in Identity : link[i] # None => ~user[link[i].user].erased
=============================================================================
