-------------------------------- MODULE Tokens --------------------------------
(***************************************************************************)
(* Accounts, passwords and refresh tokens: the endpoints of                *)
(* src/apps/accounts/views.py with their serializers, on a database        *)
(* without ATOMIC_REQUESTS, so that every query is a step of its own.      *)
(*                                                                         *)
(* Verifying a token only reads the blacklist; rotating, logging out and   *)
(* changing the password write it later.  djangorestframework-simplejwt is *)
(* external and modelled from its use.  Left out: expiry, which only ends  *)
(* tokens sooner, access tokens, which are never stored, and throttling.   *)
(***************************************************************************)
EXTENDS Integers, FiniteSets, Sequences

CONSTANTS
  Users,         \* the e-mail addresses people register with
  Requests,      \* concurrent HTTP requests
  ChecksActive,  \* the stock refresh serializer refuses inactive accounts: it
                 \* depends on the release, and requirements/base.txt allows both
  MaxTokens,     \* bound: refresh tokens ever issued
  MaxPasswords   \* bound: passwords an account ever gets

ASSUME BoundsAssumption ==
  /\ ChecksActive \in BOOLEAN
  /\ MaxTokens \in Nat
  /\ MaxPasswords \in Nat \ {0}

VARIABLES
  account,    \* account[u]: the row of u; password 0 when there is no row
  tokens,     \* the refresh tokens in the order of their issue
  request,    \* request[r]: what request r does and what it has read
  latest,     \* history: latest[u]: what was last decided of the row of u
  stale,      \* history: the users a whole outdated row was saved over
  changes,    \* history: changes[u]: password changes that listed the tokens
  completed,  \* history: completed[u]: the last of them that was answered 204
  contested,  \* history: sessions with a token that two requests blacklisted
  loggedOut   \* history: sessions that a logout was answered 205 for

history == <<latest, stale, changes, completed, contested, loggedOut>>
vars == <<account, tokens, request, history>>

-----------------------------------------------------------------------------
(* Rows, tokens and requests.  An operator Op_Fault is Op with a fault that  *)
(* some property catches.                                                    *)

Row == [password: 0..MaxPasswords, active: BOOLEAN]
NoRow == [password |-> 0, active |-> FALSE]

\* recorded: it has an OutstandingToken row; black: a BlacklistedToken row.
\* session is the first token after the same login, and born the number of
\* password changes before that login; late: a change was under way or over
\* when the token was issued to a session that is older than it.
Token(u, s, b) ==
  [owner |-> u, session |-> s, born |-> b,
   recorded |-> TRUE, black |-> FALSE, late |-> b < changes[u]]

Ops == {"idle", "register", "login", "refresh", "rotate", "logout",
        "change", "saved", "listed", "profile", "form"}

Idle == [op |-> "idle", user |-> "nobody", seen |-> NoRow, born |-> 0, list |-> {}]

Issued == DOMAIN tokens
Usable(i) == ~tokens[i].black

\* The token that request r verified: list holds tokens.
TokenOf(r) == CHOOSE i \in request[r].list : TRUE

Init ==
  /\ account = [u \in Users |-> NoRow]
  /\ tokens = <<>>
  /\ request = [r \in Requests |-> Idle]
  /\ latest = account
  /\ stale = {}
  /\ changes = [u \in Users |-> 0]
  /\ completed = changes
  /\ contested = {}
  /\ loggedOut = {}

-----------------------------------------------------------------------------
(* Steps that several endpoints take *)

\* Request r, which was doing nothing, is now at op for u.  It has read what it
\* keeps: the row of u when it will check or save it.
Starts(r, op, u, list) ==
  /\ request[r] = Idle
  /\ request' = [request EXCEPT ![r] =
       [op   |-> op,
        user |-> u,
        seen |-> IF op \in {"change", "profile", "form"} THEN account[u] ELSE NoRow,
        born |-> IF op = "login" THEN changes[u] ELSE 0,
        list |-> list]]
  /\ UNCHANGED <<account, tokens, history>>

At(r, op) == request[r].op = op
MovesTo(r, op) == request' = [request EXCEPT ![r].op = op, ![r].seen = NoRow]
Answers(r) == request' = [request EXCEPT ![r] = Idle]

\* token.blacklist(): get_or_create, so it never fails.
Blacklist(ts) ==
  tokens' = [i \in Issued |->
               IF i \in ts THEN [tokens[i] EXCEPT !.black = TRUE, !.recorded = TRUE]
               ELSE tokens[i]]
Contests(ts) ==
  contested' = contested \cup {tokens[i].session : i \in {j \in ts : tokens[j].black}}

\* RefreshToken(...): the signature holds and the token is not blacklisted.
Verifies(i) == Usable(i)

\* JWTAuthentication: some access token of u, and the account is active.
Authenticated(u) ==
  /\ \E i \in Issued : tokens[i].owner = u
  /\ account[u].active

-----------------------------------------------------------------------------
(* RegisterView *)

\* validate_email finds no such user ...
RegisterCheck(r, u) ==
  /\ account[u] = NoRow
  /\ Starts(r, "register", u, {})

\* ... and create_user inserts one, unless another request did meanwhile: the
\* unique index on lower(email) answers then with an error.
RegisterCreate(r) ==
  LET u == request[r].user
      new == [password |-> 1, active |-> TRUE]
  IN  /\ At(r, "register")
      /\ IF account[u] = NoRow
         THEN account' = [account EXCEPT ![u] = new] /\ latest' = [latest EXCEPT ![u] = new]
         ELSE UNCHANGED <<account, latest>>
      /\ Answers(r)
      /\ UNCHANGED <<tokens, stale, changes, completed, contested, loggedOut>>

-----------------------------------------------------------------------------
(* LoginView *)

\* The account is active and the password is its password.
LoginCheck(r, u) ==
  /\ account[u].active
  /\ Len(tokens) < MaxTokens
  /\ Starts(r, "login", u, {})

\* get_token records and returns a token; then last_login is saved, alone.
LoginIssue(r) ==
  LET u == request[r].user
  IN  /\ At(r, "login")
      /\ Len(tokens) < MaxTokens
      /\ tokens' = Append(tokens, Token(u, Len(tokens) + 1, request[r].born))
      /\ Answers(r)
      /\ UNCHANGED <<account, history>>

-----------------------------------------------------------------------------
(* RefreshView, with RotatingRefreshSerializer *)

\* The token is verified, twice: the second time is the one that counts.
RefreshCheck(r, i) ==
  /\ Verifies(i)
  /\ ChecksActive => account[tokens[i].owner].active
  /\ Starts(r, "refresh", tokens[i].owner, {i})

\* BLACKLIST_AFTER_ROTATION.
RefreshRotate_Keeps(r) ==
  /\ At(r, "refresh")
  /\ MovesTo(r, "rotate")
  /\ UNCHANGED <<account, tokens, history>>

RefreshRotate(r) ==
  /\ At(r, "refresh")
  /\ Blacklist(request[r].list)
  /\ Contests(request[r].list)
  /\ MovesTo(r, "rotate")
  /\ UNCHANGED <<account, latest, stale, changes, completed, loggedOut>>

\* RefreshToken.for_user records the token that replaces it.
RefreshIssue_Stock(r) ==
  LET old == tokens[TokenOf(r)]
  IN  /\ At(r, "rotate")
      /\ Len(tokens) < MaxTokens
      /\ tokens' = Append(tokens, [Token(old.owner, old.session, old.born) EXCEPT !.recorded = FALSE])
      /\ Answers(r)
      /\ UNCHANGED <<account, history>>

RefreshIssue(r) ==
  LET old == tokens[TokenOf(r)]
  IN  /\ At(r, "rotate")
      /\ Len(tokens) < MaxTokens
      /\ tokens' = Append(tokens, Token(old.owner, old.session, old.born))
      /\ Answers(r)
      /\ UNCHANGED <<account, history>>

-----------------------------------------------------------------------------
(* LogoutView *)

LogoutCheck(r, i) ==
  /\ Verifies(i)
  /\ Starts(r, "logout", tokens[i].owner, {i})

LogoutBlacklist(r) ==
  /\ At(r, "logout")
  /\ Blacklist(request[r].list)
  /\ Contests(request[r].list)
  /\ loggedOut' = loggedOut \cup {tokens[i].session : i \in request[r].list}
  /\ Answers(r)
  /\ UNCHANGED <<account, latest, stale, changes, completed>>

-----------------------------------------------------------------------------
(* PasswordChangeView *)

\* The old password given is that of the user the request was made by.
ChangeCheck(r, u) ==
  /\ Authenticated(u)
  /\ latest[u].password < MaxPasswords
  /\ Starts(r, "change", u, {})

\* user.save(update_fields=["password"]).
ChangeSave_WholeRow(r) ==
  LET u == request[r].user
      p == latest[u].password + 1
  IN  /\ At(r, "change")
      /\ p <= MaxPasswords
      /\ account' = [account EXCEPT ![u] = [request[r].seen EXCEPT !.password = p]]
      /\ latest' = [latest EXCEPT ![u].password = p]
      /\ MovesTo(r, "saved")
      /\ UNCHANGED <<tokens, stale, changes, completed, contested, loggedOut>>

ChangeSave(r) ==
  LET u == request[r].user
      p == latest[u].password + 1
  IN  /\ At(r, "change")
      /\ p <= MaxPasswords
      /\ account' = [account EXCEPT ![u].password = p]
      /\ latest' = [latest EXCEPT ![u].password = p]
      /\ MovesTo(r, "saved")
      /\ UNCHANGED <<tokens, stale, changes, completed, contested, loggedOut>>

\* _blacklist_user_tokens lists the outstanding tokens.
Outstanding(u) ==
  {i \in Issued : tokens[i].owner = u /\ tokens[i].recorded /\ Usable(i)}

ChangeList(r) ==
  LET u == request[r].user
      n == changes[u] + 1
  IN  /\ At(r, "saved")
      /\ changes' = [changes EXCEPT ![u] = n]
      /\ request' = [request EXCEPT ![r].op = "listed",
                                    ![r].list = Outstanding(u),
                                    ![r].born = n]
      /\ UNCHANGED <<account, tokens, latest, stale, completed, contested, loggedOut>>

\* ... and bulk_create blacklists them, ignoring those that already are.
ChangeBlacklist(r) ==
  LET u == request[r].user
      n == request[r].born
  IN  /\ At(r, "listed")
      /\ Blacklist(request[r].list)
      /\ completed' = [completed EXCEPT ![u] = IF n > @ THEN n ELSE @]
      /\ Answers(r)
      /\ UNCHANGED <<account, latest, stale, changes, contested, loggedOut>>

-----------------------------------------------------------------------------
(* Whole rows.  MeView.patch saves every column of request.user, and         *)
(* UserAdmin inherits the forms of Django's admin, which save the user that  *)
(* they loaded; neither locks the row.                                       *)

\* What was decided of a row, after row was saved for one that read seen: the
\* columns that differ are decided anew.
Decided(old, seen, row) ==
  [password |-> IF row.password = seen.password THEN old.password ELSE row.password,
   active   |-> IF row.active = seen.active THEN old.active ELSE row.active]

SavesRow(r, row) ==
  LET u == request[r].user
      seen == request[r].seen
  IN  /\ account' = [account EXCEPT ![u] = row]
      /\ latest' = [latest EXCEPT ![u] = Decided(@, seen, row)]
      /\ stale' = IF seen = account[u] THEN stale ELSE stale \cup {u}
      /\ Answers(r)
      /\ UNCHANGED <<tokens, changes, completed, contested, loggedOut>>

ProfileLoad(r, u) ==
  /\ Authenticated(u)
  /\ Starts(r, "profile", u, {})

ProfileSave(r) ==
  /\ At(r, "profile")
  /\ SavesRow(r, request[r].seen)

FormLoad(r, u) ==
  /\ account[u] # NoRow
  /\ Starts(r, "form", u, {})

\* The user form submits whether the account is active ...
FormSave(r, active) ==
  /\ At(r, "form")
  /\ SavesRow(r, [request[r].seen EXCEPT !.active = active])

\* ... and the page it links to a password.  No token is blacklisted.
FormPassword(r) ==
  LET p == latest[request[r].user].password + 1
  IN  /\ At(r, "form")
      /\ p <= MaxPasswords
      /\ SavesRow(r, [request[r].seen EXCEPT !.password = p])

-----------------------------------------------------------------------------
(* The deactivation action of UserAdmin, and requests that die *)

\* save(update_fields=["is_active"]) of the users that it just listed.
Deactivate(u) ==
  /\ account[u].active
  /\ account' = [account EXCEPT ![u].active = FALSE]
  /\ latest' = [latest EXCEPT ![u].active = FALSE]
  /\ UNCHANGED <<tokens, request, stale, changes, completed, contested, loggedOut>>

\* The web worker is killed, or the database fails: the request is over.
Dies(r) ==
  /\ request[r] # Idle
  /\ Answers(r)
  /\ UNCHANGED <<account, tokens, history>>

Next ==
  \/ \E r \in Requests, u \in Users :
       \/ RegisterCheck(r, u)
       \/ LoginCheck(r, u)
       \/ ChangeCheck(r, u)
       \/ ProfileLoad(r, u)
       \/ FormLoad(r, u)
  \/ \E r \in Requests, i \in Issued : RefreshCheck(r, i) \/ LogoutCheck(r, i)
  \/ \E r \in Requests :
       \/ RegisterCreate(r)
       \/ LoginIssue(r)
       \/ RefreshRotate(r)
       \/ RefreshIssue(r)
       \/ LogoutBlacklist(r)
       \/ ChangeSave(r)
       \/ ChangeList(r)
       \/ ChangeBlacklist(r)
       \/ ProfileSave(r)
       \/ \E active \in BOOLEAN : FormSave(r, active)
       \/ FormPassword(r)
       \/ Dies(r)
  \/ \E u \in Users : Deactivate(u)

Spec == Init /\ [][Next]_vars

-----------------------------------------------------------------------------
(* Properties *)

\* Type invariant: every row, token and request keeps its type, and a session
\* is named after a token that was issued.
TypeOK ==
  /\ account \in [Users -> Row]
  /\ latest \in [Users -> Row]
  /\ tokens \in Seq([owner: Users, session: 1..MaxTokens, born: Nat,
                     recorded: BOOLEAN, black: BOOLEAN, late: BOOLEAN])
  /\ \A r \in Requests :
       /\ request[r].op \in Ops
       /\ request[r].op # "idle" => request[r].user \in Users
       /\ request[r].op \in {"refresh", "rotate", "logout"} => Cardinality(request[r].list) = 1
       /\ request[r].list \subseteq Issued
  /\ stale \subseteq Users
  /\ changes \in [Users -> Nat]
  /\ completed \in [Users -> Nat]
  /\ contested \subseteq Issued
  /\ loggedOut \subseteq Issued

\* A password change that was answered leaves no older session a token it can
\* use (test_password_change_blacklists_rotated_refresh), but one that a login
\* or a refresh under way was given after the tokens had been listed.
ChangeEndsSessions ==
  \A i \in Issued :
    Usable(i) /\ tokens[i].born < completed[tokens[i].owner] => tokens[i].late

\* A session has one token at a time, however often it is rotated, and none
\* after a logout, unless two requests used the same token at the same time.
Successors(s) ==
  Cardinality({i \in Issued : tokens[i].session = s /\ Usable(i)})
  + Cardinality({r \in Requests : At(r, "rotate") /\ tokens[TokenOf(r)].session = s})

SessionLinear ==
  \A s \in Issued \ contested :
    Successors(s) <= (IF s \in loggedOut THEN 0 ELSE 1)

\* What was last decided of an account, its password and whether it is active,
\* stays decided: only a profile update or a form of Django's admin that had
\* read the row before can undo it, and neither a login, another password
\* change, the deactivation action nor a second registration can.
WritesKept == \A u \in Users \ stale : account[u] = latest[u]

=============================================================================
