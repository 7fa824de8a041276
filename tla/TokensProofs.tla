----------------------------- MODULE TokensProofs -----------------------------
(***************************************************************************)
(* Theorems about Tokens, for any users, requests and bounds.              *)
(*                                                                         *)
(* ChangeEndsSessions needs that every token has its OutstandingToken row, *)
(* so that a password change lists all of them, and that what was issued   *)
(* after the listing to an older session is marked late (Promises).        *)
(* SessionLinear counts what a session has; AllLinear says it without      *)
(* counting, so that each step adds or removes one token or request.       *)
(***************************************************************************)
EXTENDS Tokens, SequenceTheorems, FiniteSetTheorems, TLAPS

-----------------------------------------------------------------------------
(* Types *)

TokenType == [owner: Users, session: 1..MaxTokens, born: Nat,
              recorded: BOOLEAN, black: BOOLEAN, late: BOOLEAN]

RequestType == [op: Ops, user: Users \cup {"nobody"}, seen: Row, born: Nat, list: SUBSET Nat]

Verified == {"refresh", "rotate", "logout"}

\* A request when n tokens have been issued.
Fits(q, n) ==
  /\ q \in RequestType
  /\ q.op # "idle" => q.user \in Users
  /\ q.list \subseteq 1..n
  /\ q.op \in Verified => \E i \in 1..n : q.list = {i}

RowsTyped == account \in [Users -> Row] /\ latest \in [Users -> Row] /\ stale \subseteq Users

TokensTyped ==
  /\ tokens \in Seq(TokenType)
  /\ \A i \in Issued : tokens[i].session \in Issued /\ tokens[i].recorded

RequestsTyped ==
  /\ request \in [Requests -> RequestType]
  /\ \A r \in Requests : Fits(request[r], Len(tokens))

CountsTyped ==
  /\ changes \in [Users -> Nat]
  /\ completed \in [Users -> Nat]
  /\ contested \subseteq Issued
  /\ loggedOut \subseteq Issued

Typed == RowsTyped /\ TokensTyped /\ RequestsTyped /\ CountsTyped

LEMMA RowsOfAccounts ==
  /\ NoRow \in Row
  /\ [password |-> 1, active |-> TRUE] \in Row
  /\ \A row \in Row, p \in 0..MaxPasswords, b \in BOOLEAN :
       /\ [row EXCEPT !.password = p] \in Row
       /\ [row EXCEPT !.active = b] \in Row
  BY BoundsAssumption DEF NoRow, Row

LEMMA IdleFits ==
  /\ Idle \in RequestType
  /\ Idle.op = "idle"
  /\ \A n \in Nat : Fits(Idle, n)
<1>1. Idle \in RequestType /\ Idle.op = "idle" /\ Idle.list = {}
  BY RowsOfAccounts DEF Idle, RequestType, Ops
<1> QED BY <1>1 DEF Fits, Verified

LEMMA FitsGrows ==
  ASSUME NEW q, NEW n \in Nat, NEW m \in Nat, n <= m, Fits(q, n)
  PROVE  Fits(q, m)
<1>1. 1..n \subseteq 1..m
  OBVIOUS
<1> QED BY <1>1 DEF Fits

\* Request r becomes q while tokens may be issued.
LEMMA RequestUpdate ==
  ASSUME RequestsTyped, tokens \in Seq(TokenType), tokens' \in Seq(TokenType),
         Len(tokens) <= Len(tokens'), NEW r \in Requests, NEW q,
         Fits(q, Len(tokens')), request' = [request EXCEPT ![r] = q]
  PROVE  RequestsTyped'
<1>1. Len(tokens) \in Nat /\ Len(tokens') \in Nat
  OBVIOUS
<1>2. q \in RequestType
  BY DEF Fits
<1>3. request' \in [Requests -> RequestType]
  BY <1>2 DEF RequestsTyped
<1>4. ASSUME NEW x \in Requests PROVE Fits(request'[x], Len(tokens'))
  <2>1. request'[x] = IF x = r THEN q ELSE request[x]
    BY DEF RequestsTyped
  <2>2. Fits(request[x], Len(tokens'))
    BY <1>1, FitsGrows DEF RequestsTyped
  <2> QED BY <2>1, <2>2
<1> QED BY <1>3, <1>4 DEF RequestsTyped

\* What Blacklist keeps, and what it does to the tokens that are usable.
LEMMA BlacklistEffect ==
  ASSUME TokensTyped, NEW ts, Blacklist(ts)
  PROVE  /\ TokensTyped'
         /\ Len(tokens') = Len(tokens)
         /\ Issued' = Issued
         /\ \A i \in Issued :
              /\ tokens'[i].owner = tokens[i].owner
              /\ tokens'[i].born = tokens[i].born
              /\ tokens'[i].late = tokens[i].late
              /\ tokens'[i].session = tokens[i].session
              /\ Usable(i)' => Usable(i) /\ i \notin ts
<1>1. \A t \in TokenType :
        LET b == [t EXCEPT !.black = TRUE, !.recorded = TRUE]
        IN  /\ b \in TokenType /\ b.black /\ b.recorded
            /\ b.owner = t.owner /\ b.born = t.born /\ b.late = t.late /\ b.session = t.session
  BY DEF TokenType
<1>2. Issued = 1..Len(tokens) /\ Len(tokens) \in Nat
  BY DEF TokensTyped, Issued
<1>3. tokens' = [i \in 1..Len(tokens) |->
        IF i \in ts THEN [tokens[i] EXCEPT !.black = TRUE, !.recorded = TRUE] ELSE tokens[i]]
  BY <1>2, Zenon DEF Blacklist
<1>4. \A i \in 1..Len(tokens) : tokens[i] \in TokenType
  BY DEF TokensTyped
<1>5. tokens' \in Seq(TokenType) /\ Len(tokens') = Len(tokens)
  <2>1. \A i \in 1..Len(tokens) : tokens'[i] \in TokenType
    BY <1>1, <1>3, <1>4
  <2>2. tokens' \in [1..Len(tokens) -> TokenType]
    BY <1>3, <2>1
  <2>3. tokens' \in Seq(TokenType)
    BY <1>2, <2>2, SeqDef
  <2> QED BY <1>2, <2>2, <2>3, LenProperties
<1>6. Issued' = Issued
  BY <1>2, <1>5 DEF Issued
<1>7. ASSUME NEW i \in Issued
      PROVE  /\ tokens'[i].owner = tokens[i].owner
             /\ tokens'[i].born = tokens[i].born
             /\ tokens'[i].late = tokens[i].late
             /\ tokens'[i].session = tokens[i].session
             /\ tokens'[i].recorded
             /\ ~tokens'[i].black => ~tokens[i].black /\ i \notin ts
  <2>1. CASE i \in ts
    <3>1. tokens'[i] = [tokens[i] EXCEPT !.black = TRUE, !.recorded = TRUE] /\ tokens[i] \in TokenType
      BY <1>2, <1>3, <1>4, <2>1
    <3> QED BY <1>1, <3>1
  <2>2. CASE i \notin ts
    BY <1>2, <1>3, <2>2 DEF TokensTyped
  <2> QED BY <2>1, <2>2
<1> QED BY <1>5, <1>6, <1>7 DEF TokensTyped, Usable

\* What issuing a token does.
LEMMA IssueEffect ==
  ASSUME TokensTyped, NEW t \in TokenType, t.recorded, t.session \in 1..(Len(tokens) + 1),
         tokens' = Append(tokens, t)
  PROVE  /\ TokensTyped'
         /\ Len(tokens') = Len(tokens) + 1
         /\ Issued' = Issued \cup {Len(tokens) + 1}
         /\ Len(tokens) + 1 \notin Issued
         /\ tokens'[Len(tokens) + 1] = t
         /\ \A i \in Issued : tokens'[i] = tokens[i]
<1>1. Issued = 1..Len(tokens) /\ Len(tokens) \in Nat
  BY DEF TokensTyped, Issued
<1>2. tokens' \in Seq(TokenType) /\ Len(tokens') = Len(tokens) + 1
  BY DEF TokensTyped
<1>3. Issued' = 1..(Len(tokens) + 1)
  BY <1>2 DEF Issued
<1>4. tokens'[Len(tokens) + 1] = t /\ \A i \in Issued : tokens'[i] = tokens[i]
  BY <1>1 DEF TokensTyped
<1>5. Issued' = Issued \cup {Len(tokens) + 1} /\ Len(tokens) + 1 \notin Issued
  BY <1>1, <1>3
<1>6. \A i \in Issued' : tokens'[i].session \in Issued' /\ tokens'[i].recorded
  BY <1>3, <1>4, <1>5 DEF TokensTyped
<1> QED BY <1>2, <1>4, <1>5, <1>6 DEF TokensTyped

-----------------------------------------------------------------------------
(* Every step keeps the types *)

LEMMA InitTyped == Init => Typed
<1>1. Init => RowsTyped /\ CountsTyped
  BY RowsOfAccounts DEF Init, RowsTyped, CountsTyped
<1>2. Init => TokensTyped /\ Len(tokens) = 0
  BY EmptySeq DEF Init, TokensTyped, Issued
<1>3. Init => RequestsTyped
  BY <1>2, IdleFits DEF Init, RequestsTyped
<1> QED BY <1>1, <1>2, <1>3 DEF Typed

\* A request starts: it reads, and nothing else changes.
LEMMA StartsTyped ==
  ASSUME Typed, NEW r \in Requests, NEW op \in Ops \ {"idle"}, NEW u \in Users,
         NEW list, list \subseteq Issued,
         op \in Verified => \E i \in Issued : list = {i}, Starts(r, op, u, list)
  PROVE  Typed'
<1> DEFINE seen == IF op \in {"change", "profile", "form"} THEN account[u] ELSE NoRow
           born == IF op = "login" THEN changes[u] ELSE 0
           q == [op |-> op, user |-> u, seen |-> seen, born |-> born, list |-> list]
<1>1. request' = [request EXCEPT ![r] = q] /\ UNCHANGED <<account, tokens, history>>
  BY DEF Starts
<1>2. Issued = 1..Len(tokens) /\ Len(tokens) \in Nat
  BY LenProperties DEF Typed, TokensTyped, Issued
<1>3. seen \in Row /\ born \in Nat
  BY RowsOfAccounts DEF Typed, RowsTyped, CountsTyped
<1> HIDE DEF seen, born
<1>4. Fits(q, Len(tokens))
  BY <1>2, <1>3 DEF Fits, RequestType, Verified
<1> HIDE DEF q
<1>5. RequestsTyped'
  <2>1. tokens' = tokens /\ Fits(q, Len(tokens'))
    BY <1>1, <1>4
  <2>2. Len(tokens) <= Len(tokens')
    BY <1>2, <2>1
  <2>3. RequestsTyped /\ tokens \in Seq(TokenType) /\ tokens' \in Seq(TokenType)
    BY <2>1 DEF Typed, TokensTyped
  <2> QED BY ONLY <1>1, <2>1, <2>2, <2>3, RequestUpdate, r \in Requests
<1> QED BY <1>1, <1>5 DEF Typed, RowsTyped, TokensTyped, CountsTyped, history, Issued

\* A request is answered, or dies.
LEMMA AnswersTyped ==
  ASSUME RequestsTyped, TokensTyped, TokensTyped', Len(tokens) <= Len(tokens'),
         NEW r \in Requests, Answers(r)
  PROVE  RequestsTyped'
<1>1. Fits(Idle, Len(tokens'))
  BY IdleFits, LenProperties DEF TokensTyped
<1> QED BY <1>1, RequestUpdate DEF Answers, TokensTyped

LEMMA TwoFields ==
  ASSUME NEW S, NEW T, NEW f \in [S -> T], NEW r \in S, NEW a, NEW b
  PROVE  [f EXCEPT ![r].op = a, ![r].seen = b] = [f EXCEPT ![r] = [f[r] EXCEPT !.op = a, !.seen = b]]
  OBVIOUS

\* A request goes on to its next query.
LEMMA MovesTyped ==
  ASSUME RequestsTyped, TokensTyped, TokensTyped', Len(tokens) = Len(tokens'),
         NEW r \in Requests, request[r].op # "idle",
         NEW op \in Ops, op \in Verified => request[r].op \in Verified, MovesTo(r, op)
  PROVE  RequestsTyped'
<1> DEFINE q == [request[r] EXCEPT !.op = op, !.seen = NoRow]
<1>1. request' = [request EXCEPT ![r] = q]
  <2>1. request' = [request EXCEPT ![r].op = op, ![r].seen = NoRow]
    BY DEF MovesTo
  <2>2. [request EXCEPT ![r].op = op, ![r].seen = NoRow] = [request EXCEPT ![r] = q]
    BY TwoFields DEF RequestsTyped
  <2> QED BY <2>1, <2>2
<1>2. request[r] \in RequestType /\ Fits(request[r], Len(tokens'))
  BY DEF RequestsTyped
<1>3. q \in RequestType /\ q.op = op /\ q.user = request[r].user /\ q.list = request[r].list
  BY <1>2, RowsOfAccounts DEF RequestType
<1> HIDE DEF q
<1>4. Fits(q, Len(tokens'))
  BY <1>2, <1>3 DEF Fits
<1>5. /\ tokens \in Seq(TokenType) /\ tokens' \in Seq(TokenType)
      /\ Len(tokens) <= Len(tokens')
  BY LenProperties DEF TokensTyped
<1> QED BY ONLY RequestsTyped, r \in Requests, <1>1, <1>4, <1>5, RequestUpdate

\* The token that a request has verified.
LEMMA VerifiedToken ==
  ASSUME Typed, NEW r \in Requests, request[r].op \in Verified
  PROVE  /\ TokenOf(r) \in Issued
         /\ request[r].list = {TokenOf(r)}
         /\ tokens[TokenOf(r)] \in TokenType
         /\ tokens[TokenOf(r)].session \in Issued
<1>1. Issued = 1..Len(tokens)
  BY LenProperties DEF Typed, TokensTyped, Issued
<1>2. PICK i \in Issued : request[r].list = {i}
  BY <1>1 DEF Typed, RequestsTyped, Fits
<1>3. TokenOf(r) = i
  BY <1>2 DEF TokenOf
<1> QED BY <1>1, <1>2, <1>3 DEF Typed, TokensTyped

LEMMA NewToken ==
  ASSUME CountsTyped, NEW u \in Users, NEW s \in 1..MaxTokens, NEW b \in Nat
  PROVE  /\ Token(u, s, b) \in TokenType
         /\ Token(u, s, b).owner = u
         /\ Token(u, s, b).session = s
         /\ Token(u, s, b).born = b
         /\ Token(u, s, b).recorded
         /\ b < changes[u] => Token(u, s, b).late
<1>1. (b < changes[u]) \in BOOLEAN
  BY DEF CountsTyped
<1> DEFINE late == b < changes[u]
           t == [owner |-> u, session |-> s, born |-> b,
                 recorded |-> TRUE, black |-> FALSE, late |-> late]
<1>2. Token(u, s, b) = t
  BY Zenon DEF Token
<1>3. late \in BOOLEAN /\ (b < changes[u] => late)
  BY <1>1
<1> HIDE DEF late
<1>4. /\ t \in TokenType /\ t.owner = u /\ t.session = s /\ t.born = b /\ t.recorded
      /\ late => t.late
  BY <1>3 DEF TokenType
<1> HIDE DEF t
<1> QED BY <1>2, <1>3, <1>4

\* The steps at which a request reads and begins.
Begins(r) ==
  \/ \E u \in Users :
       \/ RegisterCheck(r, u) \/ LoginCheck(r, u) \/ ChangeCheck(r, u)
       \/ ProfileLoad(r, u) \/ FormLoad(r, u)
  \/ \E i \in Issued : RefreshCheck(r, i) \/ LogoutCheck(r, i)

LEMMA BeginsTyped ==
  ASSUME Typed, NEW r \in Requests, Begins(r)
  PROVE  /\ Typed'
         /\ UNCHANGED <<account, tokens, history>>
         /\ \A x \in Requests : request'[x] = request[x] \/ request'[x].op \notin {"listed", "rotate"}
<1>1. ASSUME NEW op \in Ops \ {"idle", "listed", "rotate"}, NEW u \in Users, NEW list,
             list \subseteq Issued, op \in Verified => \E i \in Issued : list = {i},
             Starts(r, op, u, list)
      PROVE  /\ Typed'
             /\ UNCHANGED <<account, tokens, history>>
             /\ \A x \in Requests : request'[x] = request[x] \/ request'[x].op \notin {"listed", "rotate"}
  <2>1. Typed'
    BY <1>1, StartsTyped
  <2>2. UNCHANGED <<account, tokens, history>>
    BY <1>1 DEF Starts
  <2>3. ASSUME NEW x \in Requests PROVE request'[x] = request[x] \/ request'[x].op \notin {"listed", "rotate"}
    BY <1>1 DEF Starts, Typed, RequestsTyped
  <2> QED BY <2>1, <2>2, <2>3
<1>2. CASE \E u \in Users :
             \/ RegisterCheck(r, u) \/ LoginCheck(r, u) \/ ChangeCheck(r, u)
             \/ ProfileLoad(r, u) \/ FormLoad(r, u)
  BY <1>1, <1>2 DEF RegisterCheck, LoginCheck, ChangeCheck, ProfileLoad, FormLoad, Ops, Verified
<1>3. CASE \E i \in Issued : RefreshCheck(r, i) \/ LogoutCheck(r, i)
  <2>1. \A i \in Issued : tokens[i].owner \in Users /\ {i} \subseteq Issued
    <3>1. \A i \in Issued : tokens[i] \in TokenType
      BY LenProperties DEF Typed, TokensTyped, Issued
    <3> QED BY <3>1 DEF TokenType
  <2>2. {"refresh", "logout"} \subseteq Ops \ {"idle", "listed", "rotate"}
    BY DEF Ops
  <2>3. ASSUME NEW i \in Issued, RefreshCheck(r, i) \/ LogoutCheck(r, i)
        PROVE  \E op \in {"refresh", "logout"} : Starts(r, op, tokens[i].owner, {i})
    BY <2>3 DEF RefreshCheck, LogoutCheck
  <2>4. PICK i \in Issued, op \in {"refresh", "logout"} : Starts(r, op, tokens[i].owner, {i})
    BY <1>3, <2>3
  <2> QED BY <1>1, <2>1, <2>2, <2>4
<1> QED BY <1>2, <1>3 DEF Begins

LEMMA ThreeFields ==
  ASSUME NEW S, NEW T, NEW f \in [S -> T], NEW r \in S, NEW a, NEW b, NEW c
  PROVE  [f EXCEPT ![r].op = a, ![r].list = b, ![r].born = c]
           = [f EXCEPT ![r] = [f[r] EXCEPT !.op = a, !.list = b, !.born = c]]
  OBVIOUS

LEMMA ActivesAgree ==
  ASSUME NEW S, NEW T, NEW f \in [S -> T], NEW g \in [S -> T], NEW u \in S, NEW b,
         NEW v \in S, f[v] = g[v]
  PROVE  [f EXCEPT ![u].active = b][v] = [g EXCEPT ![u].active = b][v]
  OBVIOUS

LEMMA ActiveUpdate ==
  ASSUME NEW S, NEW P, NEW A, NEW f \in [S -> [password: P, active: A]],
         NEW u \in S, NEW b \in A
  PROVE  [f EXCEPT ![u].active = b] \in [S -> [password: P, active: A]]
  OBVIOUS

\* The steps that save a row that was loaded before.
SavesLoaded(r) ==
  ProfileSave(r) \/ (\E b \in BOOLEAN : FormSave(r, b)) \/ FormPassword(r)

LEMMA LoadedRow ==
  ASSUME Typed, NEW r \in Requests, SavesLoaded(r)
  PROVE  /\ request[r].user \in Users /\ request[r].seen \in Row
         /\ \E row \in Row : SavesRow(r, row)
<1>1. request[r].op # "idle"
  BY DEF SavesLoaded, ProfileSave, FormSave, FormPassword, At
<1>2. request[r].user \in Users /\ request[r].seen \in Row
  BY <1>1 DEF Typed, RequestsTyped, Fits, RequestType
<1>3. CASE ProfileSave(r)
  BY <1>2, <1>3 DEF ProfileSave
<1>4. CASE \E b \in BOOLEAN : FormSave(r, b)
  <2>1. PICK b \in BOOLEAN : SavesRow(r, [request[r].seen EXCEPT !.active = b])
    BY <1>4 DEF FormSave
  <2>2. [request[r].seen EXCEPT !.active = b] \in Row
    BY <1>2 DEF Row
  <2> QED BY <1>2, <2>1, <2>2
<1>5. CASE FormPassword(r)
  <2> DEFINE p == latest[request[r].user].password + 1
  <2>1. p <= MaxPasswords /\ SavesRow(r, [request[r].seen EXCEPT !.password = p])
    BY <1>5 DEF FormPassword
  <2>2. p \in 0..MaxPasswords
    BY <1>2, <2>1, BoundsAssumption DEF Typed, RowsTyped, Row
  <2> HIDE DEF p
  <2>3. [request[r].seen EXCEPT !.password = p] \in Row
    BY <1>2, <2>2 DEF Row
  <2> QED BY <1>2, <2>1, <2>3
<1> QED BY <1>2, <1>3, <1>4, <1>5 DEF SavesLoaded

\* A decided row is a row, and after a save of a row that is not outdated it is
\* the row saved.
LEMMA DecidedRow ==
  ASSUME NEW old \in Row, NEW seen \in Row, NEW row \in Row
  PROVE  /\ Decided(old, seen, row) \in Row
         /\ old = seen => Decided(old, seen, row) = row
  BY DEF Decided, Row

\* The steps that write rows: no token changes.
LEMMA RowStepsTyped ==
  ASSUME Typed
  PROVE  /\ \A r \in Requests :
              RegisterCreate(r) \/ ChangeSave(r) \/ SavesLoaded(r) => Typed'
         /\ \A u \in Users : Deactivate(u) => Typed'
<1>1. ASSUME UNCHANGED <<tokens, changes, completed, contested, loggedOut>>
      PROVE  TokensTyped' /\ CountsTyped' /\ Len(tokens) = Len(tokens')
  BY <1>1 DEF Typed, TokensTyped, CountsTyped, Issued
<1>2. ASSUME NEW r \in Requests, RegisterCreate(r) PROVE Typed'
  <2>1. RowsTyped'
    BY <1>2, RowsOfAccounts DEF RegisterCreate, Typed, RowsTyped
  <2>2. TokensTyped' /\ CountsTyped' /\ Len(tokens) = Len(tokens')
    BY <1>1, <1>2 DEF RegisterCreate
  <2>3. RequestsTyped'
    BY <1>2, <2>2, AnswersTyped, LenProperties DEF RegisterCreate, Typed, TokensTyped
  <2> QED BY <2>1, <2>2, <2>3 DEF Typed
<1>3. ASSUME NEW r \in Requests, ChangeSave(r) PROVE Typed'
  <2>1. RowsTyped'
    <3> DEFINE u == request[r].user
               p == latest[u].password + 1
    <3>1. /\ account' = [account EXCEPT ![u].password = p]
          /\ latest' = [latest EXCEPT ![u].password = p]
          /\ p <= MaxPasswords /\ stale' = stale /\ u \in Users
      BY <1>3 DEF ChangeSave, At, Typed, RequestsTyped, Fits
    <3>2. p \in 0..MaxPasswords
      BY <3>1, BoundsAssumption DEF Typed, RowsTyped, Row
    <3> HIDE DEF p, u
    <3> QED BY <3>1, <3>2, RowsOfAccounts DEF Typed, RowsTyped
  <2>2. TokensTyped' /\ CountsTyped' /\ Len(tokens) = Len(tokens')
    BY <1>1, <1>3 DEF ChangeSave
  <2>3. RequestsTyped'
    <3>1. request[r].op # "idle" /\ MovesTo(r, "saved")
      BY <1>3 DEF ChangeSave, At
    <3>2. "saved" \in Ops /\ "saved" \notin Verified /\ RequestsTyped /\ TokensTyped
      BY DEF Ops, Verified, Typed
    <3> QED BY ONLY <2>2, <3>1, <3>2, MovesTyped, r \in Requests
  <2> QED BY <2>1, <2>2, <2>3 DEF Typed
<1>4. ASSUME NEW r \in Requests, SavesLoaded(r) PROVE Typed'
  <2> DEFINE u == request[r].user
             seen == request[r].seen
  <2>1. PICK row \in Row : SavesRow(r, row)
    BY <1>4, LoadedRow
  <2>2. u \in Users /\ seen \in Row
    BY <1>4, LoadedRow
  <2>3. RowsTyped'
    <3>1. /\ account' = [account EXCEPT ![u] = row]
          /\ latest' = [latest EXCEPT ![u] = Decided(latest[u], seen, row)]
          /\ stale' \subseteq stale \cup {u}
      BY <2>1 DEF SavesRow
    <3>2. Decided(latest[u], seen, row) \in Row
      BY <2>2, DecidedRow DEF Typed, RowsTyped
    <3> HIDE DEF u, seen
    <3> QED BY <2>2, <3>1, <3>2 DEF Typed, RowsTyped
  <2>4. TokensTyped' /\ CountsTyped' /\ Len(tokens) = Len(tokens')
    BY <1>1, <2>1 DEF SavesRow
  <2>5. RequestsTyped'
    BY <2>1, <2>4, AnswersTyped, LenProperties DEF SavesRow, Typed, TokensTyped
  <2> QED BY <2>3, <2>4, <2>5 DEF Typed
<1>5. ASSUME NEW u \in Users, Deactivate(u) PROVE Typed'
  <2>1. RowsTyped'
    <3>1. /\ account' = [account EXCEPT ![u].active = FALSE]
          /\ latest' = [latest EXCEPT ![u].active = FALSE]
          /\ stale' = stale
      BY <1>5 DEF Deactivate
    <3>2. /\ [account EXCEPT ![u].active = FALSE] \in [Users -> Row]
          /\ [latest EXCEPT ![u].active = FALSE] \in [Users -> Row]
      BY ActiveUpdate DEF Typed, RowsTyped, Row
    <3> QED BY <3>1, <3>2 DEF Typed, RowsTyped
  <2>2. TokensTyped' /\ CountsTyped' /\ RequestsTyped'
    <3>1. UNCHANGED <<tokens, request, changes, completed, contested, loggedOut>>
      BY <1>5 DEF Deactivate
    <3> QED BY <1>1, <3>1 DEF Typed, RequestsTyped
  <2> QED BY <2>1, <2>2 DEF Typed
<1> QED BY <1>2, <1>3, <1>4, <1>5

\* The steps that blacklist tokens.
LEMMA BlacklistStepsTyped ==
  ASSUME Typed, NEW r \in Requests,
         RefreshRotate(r) \/ LogoutBlacklist(r) \/ ChangeBlacklist(r)
  PROVE  Typed'
<1>1. Blacklist(request[r].list)
  BY DEF RefreshRotate, LogoutBlacklist, ChangeBlacklist
<1>2. TokensTyped' /\ Len(tokens') = Len(tokens) /\ Issued' = Issued
  BY <1>1, BlacklistEffect DEF Typed
<1>3. request[r].list \subseteq Issued
  BY LenProperties DEF Typed, RequestsTyped, TokensTyped, Fits, Issued
<1>4. RowsTyped'
  BY DEF RefreshRotate, LogoutBlacklist, ChangeBlacklist, Typed, RowsTyped
<1>5. CountsTyped'
  <2>1. Contests(request[r].list) => contested' \subseteq Issued
    BY <1>3 DEF Contests, Typed, CountsTyped, TokensTyped
  <2>2. RefreshRotate(r) => CountsTyped'
    BY <1>2, <2>1 DEF RefreshRotate, Typed, CountsTyped
  <2>3. LogoutBlacklist(r) => CountsTyped'
    BY <1>2, <1>3, <2>1 DEF LogoutBlacklist, Typed, CountsTyped, TokensTyped
  <2>4. ChangeBlacklist(r) => CountsTyped'
    <3>1. request[r].born \in Nat
      BY DEF Typed, RequestsTyped, RequestType
    <3> QED BY <1>2, <3>1 DEF ChangeBlacklist, Typed, CountsTyped
  <2> QED BY <2>2, <2>3, <2>4
<1>6. RequestsTyped'
  <2>1. RefreshRotate(r) => RequestsTyped'
    <3>1. RefreshRotate(r) => request[r].op = "refresh" /\ MovesTo(r, "rotate")
      BY DEF RefreshRotate, At
    <3>2. /\ "rotate" \in Ops /\ "refresh" \in Verified /\ "refresh" # "idle"
          /\ RequestsTyped /\ TokensTyped
      BY DEF Ops, Verified, Typed
    <3> QED BY ONLY <1>2, <3>1, <3>2, MovesTyped, r \in Requests
  <2>2. LogoutBlacklist(r) \/ ChangeBlacklist(r) => RequestsTyped'
    BY <1>2, AnswersTyped, LenProperties DEF LogoutBlacklist, ChangeBlacklist, Typed, TokensTyped
  <2> QED BY <2>1, <2>2
<1> QED BY <1>2, <1>4, <1>5, <1>6 DEF Typed

\* The tokens of session s that can be used, and the requests that have
\* blacklisted one and will issue the next.
InUse(s) == {i \in Issued : tokens[i].session = s /\ Usable(i)}
Rotating(s) == {r \in Requests : At(r, "rotate") /\ tokens[TokenOf(r)].session = s}

\* A token that request r issues.
Issues(r, t) ==
  /\ tokens' = Append(tokens, t)
  /\ t \in TokenType
  /\ t.recorded
  /\ t.session \in 1..(Len(tokens) + 1)
  /\ t.born < changes[t.owner] => t.late
  /\ Answers(r)
  /\ UNCHANGED <<account, history>>

\* It is as old as the login that r checked, or as the token that it replaces.
GoesOn(r, t) ==
  \/ At(r, "login") /\ t.owner = request[r].user /\ t.born = request[r].born
  \/ LET old == tokens[TokenOf(r)]
     IN  At(r, "rotate") /\ t.owner = old.owner /\ t.born = old.born

LEMMA IssueSteps ==
  ASSUME Typed, NEW r \in Requests, LoginIssue(r) \/ RefreshIssue(r)
  PROVE  \E t : /\ Issues(r, t)
                /\ \/ t.session = Len(tokens) + 1
                   \/ r \in Rotating(t.session)
                /\ GoesOn(r, t)
<1>1. Len(tokens) \in Nat /\ Issued = 1..Len(tokens)
  BY LenProperties DEF Typed, TokensTyped, Issued
<1>2. CASE LoginIssue(r)
  <2> DEFINE u == request[r].user
             t == Token(u, Len(tokens) + 1, request[r].born)
  <2>1. /\ request[r].op = "login" /\ Len(tokens) < MaxTokens /\ tokens' = Append(tokens, t)
        /\ Answers(r) /\ UNCHANGED <<account, history>>
    BY <1>2 DEF LoginIssue, At
  <2>2. u \in Users /\ request[r].born \in Nat /\ Len(tokens) + 1 \in 1..MaxTokens
    BY <1>1, <2>1, BoundsAssumption DEF Typed, RequestsTyped, Fits, RequestType
  <2>3. CountsTyped /\ Len(tokens) + 1 \in 1..(Len(tokens) + 1)
    BY <1>1 DEF Typed
  <2>4. /\ t \in TokenType /\ t.owner = u /\ t.session = Len(tokens) + 1 /\ t.recorded
        /\ t.born = request[r].born /\ (request[r].born < changes[u] => t.late)
    BY <2>2, <2>3, NewToken
  <2> HIDE DEF t
  <2>5. Issues(r, t)
    BY <2>1, <2>3, <2>4 DEF Issues
  <2>6. GoesOn(r, t)
    BY <2>1, <2>4 DEF GoesOn, At
  <2> QED BY <2>4, <2>5, <2>6
<1>3. CASE RefreshIssue(r)
  <2> DEFINE old == tokens[TokenOf(r)]
             t == Token(old.owner, old.session, old.born)
  <2>1. /\ request[r].op = "rotate" /\ tokens' = Append(tokens, t)
        /\ Answers(r) /\ UNCHANGED <<account, history>>
    BY <1>3 DEF RefreshIssue, At
  <2>2. TokenOf(r) \in Issued /\ old \in TokenType /\ old.session \in Issued
    BY <2>1, VerifiedToken DEF Verified
  <2>3. /\ old.owner \in Users /\ old.born \in Nat /\ old.session \in 1..MaxTokens
        /\ old.session \in 1..(Len(tokens) + 1) /\ CountsTyped
    BY <1>1, <2>2 DEF TokenType, Typed
  <2> HIDE DEF old
  <2>4. /\ t \in TokenType /\ t.owner = old.owner /\ t.session = old.session /\ t.recorded
        /\ t.born = old.born /\ (old.born < changes[old.owner] => t.late)
    BY <2>3, NewToken
  <2>5. r \in Rotating(t.session)
    BY <2>1, <2>4 DEF Rotating, At, old
  <2> HIDE DEF t
  <2>6. Issues(r, t)
    BY <2>1, <2>3, <2>4 DEF Issues
  <2>7. GoesOn(r, t)
    BY <2>1, <2>4 DEF GoesOn, At, old
  <2> QED BY <2>5, <2>6, <2>7
<1> QED BY <1>2, <1>3

LEMMA IssuesTyped ==
  ASSUME Typed, NEW r \in Requests, NEW t, Issues(r, t)
  PROVE  Typed'
<1>1. /\ TokensTyped' /\ Len(tokens') = Len(tokens) + 1
      /\ Issued' = Issued \cup {Len(tokens) + 1}
  BY IssueEffect DEF Issues, Typed
<1>2. RowsTyped' /\ CountsTyped'
  BY <1>1 DEF Issues, history, Typed, RowsTyped, CountsTyped
<1>3. Len(tokens) <= Len(tokens')
  BY <1>1, LenProperties DEF Typed, TokensTyped
<1>4. RequestsTyped /\ TokensTyped /\ Answers(r)
  BY DEF Issues, Typed
<1>5. RequestsTyped'
  BY ONLY r \in Requests, <1>1, <1>3, <1>4, AnswersTyped
<1> QED BY <1>1, <1>2, <1>5 DEF Typed

LEMMA ListTyped ==
  ASSUME Typed, NEW r \in Requests, ChangeList(r)
  PROVE  /\ Typed'
         /\ request'[r].op = "listed" /\ request'[r].user = request[r].user
         /\ request'[r].list = Outstanding(request[r].user)
         /\ request'[r].born = changes[request[r].user] + 1
         /\ \A x \in Requests \ {r} : request'[x] = request[x]
         /\ request[r].user \in Users
<1> DEFINE u == request[r].user
           n == changes[u] + 1
           q == [request[r] EXCEPT !.op = "listed", !.list = Outstanding(u), !.born = n]
<1>1. /\ request[r].op = "saved" /\ changes' = [changes EXCEPT ![u] = n]
      /\ UNCHANGED <<account, tokens, latest, stale, completed, contested, loggedOut>>
  BY DEF ChangeList, At
<1>2. request' = [request EXCEPT ![r] = q]
  <2>1. request' = [request EXCEPT ![r].op = "listed", ![r].list = Outstanding(u), ![r].born = n]
    BY DEF ChangeList
  <2> HIDE DEF n
  <2> QED BY ZenonT(30), <2>1, ThreeFields DEF Typed, RequestsTyped
<1>3. u \in Users /\ n \in Nat /\ request[r] \in RequestType
  BY <1>1 DEF Typed, RequestsTyped, Fits, CountsTyped
<1>4. Outstanding(u) \subseteq 1..Len(tokens) /\ Outstanding(u) \subseteq Nat /\ Len(tokens) \in Nat
  BY LenProperties DEF Outstanding, Typed, TokensTyped, Issued
<1> HIDE DEF n
<1>5. /\ q \in RequestType /\ q.op = "listed" /\ q.user = u
      /\ q.list = Outstanding(u) /\ q.born = n
  BY <1>3, <1>4 DEF RequestType, Ops
<1> HIDE DEF q
<1>6. Fits(q, Len(tokens'))
  BY <1>1, <1>3, <1>4, <1>5 DEF Fits, Verified
<1>7. /\ RequestsTyped /\ tokens \in Seq(TokenType) /\ tokens' \in Seq(TokenType)
      /\ Len(tokens) <= Len(tokens')
  BY <1>1, <1>4 DEF Typed, TokensTyped
<1>8. RequestsTyped'
  BY ONLY <1>2, <1>6, <1>7, RequestUpdate, r \in Requests
<1>9. RowsTyped' /\ TokensTyped' /\ CountsTyped'
  BY <1>1, <1>3 DEF Typed, RowsTyped, TokensTyped, CountsTyped, Issued
<1>10. request'[r] = q /\ \A x \in Requests \ {r} : request'[x] = request[x]
  BY <1>2 DEF Typed, RequestsTyped
<1> QED BY <1>3, <1>5, <1>8, <1>9, <1>10 DEF Typed, n

LEMMA StepTyped ==
  ASSUME Typed, [Next]_vars
  PROVE  Typed'
<1>1. ASSUME NEW r \in Requests, Begins(r) PROVE Typed'
  BY <1>1, BeginsTyped
<1>2. ASSUME NEW r \in Requests, LoginIssue(r) \/ RefreshIssue(r) PROVE Typed'
  BY <1>2, IssueSteps, IssuesTyped
<1>3. ASSUME NEW r \in Requests, ChangeList(r) PROVE Typed'
  BY <1>3, ListTyped
<1>4. ASSUME NEW r \in Requests, Dies(r) PROVE Typed'
  <2>1. /\ Answers(r) /\ UNCHANGED <<account, tokens, history>>
        /\ TokensTyped' /\ Len(tokens) <= Len(tokens')
    BY <1>4, LenProperties DEF Dies, Typed, TokensTyped, Issued
  <2>2. RequestsTyped'
    BY <2>1, AnswersTyped DEF Typed
  <2> QED BY <2>1, <2>2 DEF Typed, RowsTyped, CountsTyped, history, Issued
<1>5. CASE UNCHANGED vars
  BY <1>5 DEF vars, history, Typed, RowsTyped, TokensTyped, RequestsTyped, CountsTyped, Issued
<1> QED BY <1>1, <1>2, <1>3, <1>4, <1>5, RowStepsTyped, BlacklistStepsTyped DEF Next, Begins, SavesLoaded

LEMMA AlwaysTyped == Spec => []Typed
<1>1. Typed /\ [Next]_vars => Typed'
  BY StepTyped
<1> QED BY <1>1, InitTyped, PTL DEF Spec

\* TypeOK is the part of Typed that the runs check: rows, tokens and requests
\* keep their types, however the requests interleave.
THEOREM TypesHold == Spec => []TypeOK
<1>1. ASSUME Typed PROVE TypeOK
  <2>1. Issued = 1..Len(tokens)
    BY <1>1, LenProperties DEF Typed, TokensTyped, Issued
  <2>2. tokens \in Seq([owner: Users, session: 1..MaxTokens, born: Nat,
                        recorded: BOOLEAN, black: BOOLEAN, late: BOOLEAN])
    BY <1>1, Zenon DEF Typed, TokensTyped, TokenType
  <2>3. ASSUME NEW r \in Requests
        PROVE  /\ request[r].op \in Ops
               /\ request[r].op # "idle" => request[r].user \in Users
               /\ request[r].op \in {"refresh", "rotate", "logout"}
                    => Cardinality(request[r].list) = 1
               /\ request[r].list \subseteq Issued
    <3>1. Fits(request[r], Len(tokens)) /\ request[r] \in RequestType
      BY <1>1 DEF Typed, RequestsTyped
    <3>2. request[r].op \in Verified => Cardinality(request[r].list) = 1
      <4>1. \A i : Cardinality({i}) = 1
        BY FS_Singleton
      <4> QED BY <3>1, <4>1 DEF Fits
    <3> QED BY <2>1, <3>1, <3>2 DEF Fits, RequestType, Verified
  <2> QED BY <1>1, <2>2, <2>3 DEF Typed, RowsTyped, CountsTyped, TypeOK
<1> QED BY <1>1, AlwaysTyped, PTL

-----------------------------------------------------------------------------
(* What was decided of an account *)

LEMMA StepKeepsWrites ==
  ASSUME Typed, WritesKept, [Next]_vars
  PROVE  WritesKept'
<1>1. ASSUME UNCHANGED <<account, latest, stale>> PROVE WritesKept'
  BY <1>1 DEF WritesKept
<1>2. ASSUME NEW r \in Requests, Begins(r) PROVE WritesKept'
  BY <1>1, <1>2, BeginsTyped DEF history
<1>3. ASSUME NEW r \in Requests,
             \/ LoginIssue(r) \/ RefreshRotate(r) \/ RefreshIssue(r) \/ LogoutBlacklist(r)
             \/ ChangeList(r) \/ ChangeBlacklist(r) \/ Dies(r)
      PROVE  WritesKept'
  BY <1>1, <1>3 DEF LoginIssue, RefreshRotate, RefreshIssue, LogoutBlacklist, ChangeList,
                    ChangeBlacklist, Dies, history
<1>4. ASSUME NEW r \in Requests, RegisterCreate(r) PROVE WritesKept'
  BY <1>4 DEF RegisterCreate, WritesKept, Typed, RowsTyped
<1>5. ASSUME NEW r \in Requests, ChangeSave(r) PROVE WritesKept'
  <2> DEFINE v == request[r].user
             p == latest[v].password + 1
  <2>1. /\ account' = [account EXCEPT ![v].password = p]
        /\ latest' = [latest EXCEPT ![v].password = p]
        /\ stale' = stale
    BY <1>5 DEF ChangeSave
  <2> HIDE DEF v, p
  <2> QED BY <2>1 DEF WritesKept, Typed, RowsTyped
<1>6. ASSUME NEW r \in Requests, SavesLoaded(r) PROVE WritesKept'
  <2> DEFINE u == request[r].user
             seen == request[r].seen
  <2>1. PICK row \in Row : SavesRow(r, row)
    BY <1>6, LoadedRow
  <2>2. u \in Users /\ seen \in Row
    BY <1>6, LoadedRow
  <2>3. /\ account' = [account EXCEPT ![u] = row]
        /\ latest' = [latest EXCEPT ![u] = Decided(latest[u], seen, row)]
        /\ stale \subseteq stale'
        /\ u \notin stale' => seen = account[u]
    BY <2>1 DEF SavesRow
  <2>4. latest[u] = seen => Decided(latest[u], seen, row) = row
    BY <2>2, DecidedRow
  <2> HIDE DEF u, seen
  <2> QED BY <2>2, <2>3, <2>4 DEF WritesKept, Typed, RowsTyped
<1>7. ASSUME NEW u \in Users, Deactivate(u) PROVE WritesKept'
  <2>1. /\ account' = [account EXCEPT ![u].active = FALSE]
        /\ latest' = [latest EXCEPT ![u].active = FALSE]
        /\ stale' = stale
    BY <1>7 DEF Deactivate
  <2> QED BY <2>1, Zenon, ActivesAgree DEF WritesKept, Typed, RowsTyped
<1>8. CASE UNCHANGED vars
  BY <1>1, <1>8 DEF vars, history
<1> QED BY <1>2, <1>3, <1>4, <1>5, <1>6, <1>7, <1>8 DEF Next, Begins, SavesLoaded

\* What was last decided of an account stays decided, whatever the endpoints
\* race with, unless a profile update or a form of Django's admin saved a row that
\* it had read before somebody else wrote it.
THEOREM DecisionsAreKept == Spec => []WritesKept
<1>1. Init => WritesKept
  BY DEF Init, WritesKept
<1>2. Typed /\ WritesKept /\ [Next]_vars => WritesKept'
  BY StepKeepsWrites
<1> QED BY <1>1, <1>2, AlwaysTyped, PTL DEF Spec

-----------------------------------------------------------------------------
(* What a password change promises *)

\* Token i, which is older than change n of user u, can be used.
Lives(i, u, n) ==
  tokens[i].owner = u /\ tokens[i].born < n /\ Usable(i) /\ ~tokens[i].late

\* A change that has listed the tokens has listed all that are not late.
Listed(r) ==
  LET u == request[r].user
      n == request[r].born
  IN  n <= changes[u] /\ \A i \in Issued : Lives(i, u, n) => i \in request[r].list

Promises ==
  /\ \A u \in Users : completed[u] <= changes[u]
  /\ \A r \in Requests : request[r].op = "listed" => Listed(r)
  /\ ChangeEndsSessions

LEMMA EndsSessions ==
  ASSUME TokensTyped
  PROVE  ChangeEndsSessions <=> \A i \in Issued, u \in Users : ~Lives(i, u, completed[u])
<1>1. \A i \in Issued : tokens[i].owner \in Users
  <2>1. \A i \in Issued : tokens[i] \in TokenType
    BY LenProperties DEF TokensTyped, Issued
  <2> QED BY <2>1 DEF TokenType
<1> QED BY <1>1 DEF ChangeEndsSessions, Lives

LEMMA EndsSessionsNext ==
  ASSUME TokensTyped', \A i \in Issued', u \in Users : ~Lives(i, u, completed[u])'
  PROVE  ChangeEndsSessions'
<1>1. \A i \in Issued' : tokens'[i].owner \in Users
  <2>1. \A i \in Issued' : tokens'[i] \in TokenType
    BY LenProperties DEF TokensTyped, Issued
  <2> QED BY <2>1 DEF TokenType
<1> QED BY <1>1 DEF ChangeEndsSessions, Lives

\* Listed requests only depend on tokens that were there.
LEMMA PromisesKept ==
  ASSUME Typed, TokensTyped', Promises, UNCHANGED <<changes, completed>>,
         Issued' = Issued,
         \A i \in Issued, u \in Users, n \in Nat : Lives(i, u, n)' => Lives(i, u, n),
         \A r \in Requests : request'[r] = request[r] \/ request'[r].op # "listed"
  PROVE  Promises'
<1>1. \A u \in Users : completed'[u] <= changes'[u] /\ completed[u] \in Nat
  BY DEF Promises, Typed, CountsTyped
<1>2. ASSUME NEW r \in Requests, request'[r].op = "listed" PROVE Listed(r)'
  <2>1. request'[r] = request[r] /\ Listed(r)
    BY <1>2 DEF Promises
  <2>2. request[r].user \in Users /\ request[r].born \in Nat
    BY <1>2, <2>1 DEF Typed, RequestsTyped, Fits, RequestType
  <2> QED BY <2>1, <2>2 DEF Listed
<1>3. ChangeEndsSessions'
  <2>1. \A i \in Issued, u \in Users : ~Lives(i, u, completed[u])
    BY EndsSessions DEF Promises, Typed
  <2>2. \A i \in Issued', u \in Users : ~Lives(i, u, completed[u])'
    BY <1>1, <2>1
  <2> QED BY <2>2, EndsSessionsNext
<1> QED BY <1>1, <1>2, <1>3 DEF Promises

LEMMA BlacklistPromises ==
  ASSUME Typed, NEW ts, Blacklist(ts), NEW i \in Issued, NEW u \in Users, NEW n \in Nat,
         Lives(i, u, n)'
  PROVE  Lives(i, u, n) /\ i \notin ts
  BY BlacklistEffect DEF Lives, Typed

LEMMA IssuePromises ==
  ASSUME Typed, Promises, NEW r \in Requests, NEW t, Issues(r, t)
  PROVE  Promises'
<1>1. /\ TokensTyped' /\ Issued' = Issued \cup {Len(tokens) + 1}
      /\ tokens'[Len(tokens) + 1] = t
      /\ \A i \in Issued : tokens'[i] = tokens[i]
  BY IssueEffect DEF Issues, Typed
<1>2. changes' = changes /\ completed' = completed
  BY DEF Issues, history
<1>3. \A u \in Users : completed[u] <= changes[u] /\ completed[u] \in Nat /\ changes[u] \in Nat
  BY DEF Promises, Typed, CountsTyped
<1>4. ASSUME NEW i \in Issued', NEW u \in Users, NEW n \in Nat, n <= changes[u], Lives(i, u, n)'
      PROVE  i \in Issued /\ Lives(i, u, n)
  <2>1. CASE i \in Issued
    BY <1>1, <1>4, <2>1 DEF Lives, Usable
  <2>2. CASE i = Len(tokens) + 1
    <3>1. t.owner = u /\ t.born < n /\ ~t.late
      BY <1>1, <1>4, <2>2 DEF Lives
    <3>2. t.born \in Nat /\ changes[u] \in Nat
      BY <1>3 DEF Issues, TokenType
    <3>3. t.born < changes[u]
      BY <1>4, <3>1, <3>2
    <3> QED BY <3>1, <3>3 DEF Issues
  <2> QED BY <1>1, <2>1, <2>2
<1>5. ASSUME NEW x \in Requests, request'[x].op = "listed" PROVE Listed(x)'
  <2>1. request'[x] = request[x]
    BY <1>5, IdleFits DEF Issues, Answers, Typed, RequestsTyped
  <2>2. Listed(x) /\ request[x].user \in Users /\ request[x].born \in Nat
    BY <1>5, <2>1 DEF Promises, Typed, RequestsTyped, Fits, RequestType
  <2> QED BY <1>2, <1>4, <2>1, <2>2 DEF Listed
<1>6. ChangeEndsSessions'
  <2>1. \A i \in Issued, u \in Users : ~Lives(i, u, completed[u])
    BY EndsSessions DEF Promises, Typed
  <2>2. \A i \in Issued', u \in Users : ~Lives(i, u, completed[u])'
    BY <1>2, <1>3, <1>4, <2>1
  <2> QED BY <1>1, <2>2, EndsSessionsNext
<1> QED BY <1>2, <1>3, <1>5, <1>6 DEF Promises

\* All tokens of a user that can be used are listed: each has its row.
LEMMA ListPromises ==
  ASSUME Typed, Promises, NEW r \in Requests, ChangeList(r)
  PROVE  Promises'
<1> DEFINE v == request[r].user
<1>1. /\ changes' = [changes EXCEPT ![v] = changes[v] + 1]
      /\ UNCHANGED <<tokens, completed>>
  BY DEF ChangeList
<1>2. /\ \A u \in Users : completed[u] <= changes[u] /\ completed[u] \in Nat /\ changes[u] \in Nat
      /\ changes \in [Users -> Nat]
  BY DEF Promises, Typed, CountsTyped
<1>3. \A u \in Users : changes'[u] \in Nat /\ changes[u] <= changes'[u]
  BY <1>1, <1>2
<1>4. ASSUME NEW x \in Requests, request'[x].op = "listed" PROVE Listed(x)'
  <2>1. CASE x # r
    <3>1. request'[x] = request[x]
      BY <2>1, ListTyped
    <3>2. Listed(x) /\ request[x].user \in Users /\ request[x].born \in Nat
      BY <1>4, <3>1 DEF Promises, Typed, RequestsTyped, Fits, RequestType
    <3>3. Issued' = Issued /\ \A i \in Issued : \A u, n : Lives(i, u, n)' <=> Lives(i, u, n)
      BY <1>1 DEF Lives, Usable, Issued
    <3> QED BY <1>2, <1>3, <3>1, <3>2, <3>3 DEF Listed
  <2>2. CASE x = r
    <3>1. /\ request'[r].user = v /\ request'[r].list = Outstanding(v)
          /\ request'[r].born = changes[v] + 1 /\ v \in Users
      BY ListTyped
    <3>2. request'[r].born <= changes'[v]
      BY <1>1, <1>2, <3>1
    <3>3. ASSUME NEW i \in Issued', NEW u \in Users, NEW n, Lives(i, u, n)'
          PROVE  i \in Outstanding(u)
      BY <1>1, <3>3 DEF Lives, Usable, Outstanding, Issued, Typed, TokensTyped
    <3> HIDE DEF v
    <3> QED BY <2>2, <3>1, <3>2, <3>3 DEF Listed
  <2> QED BY <2>1, <2>2
<1>5. ChangeEndsSessions'
  BY <1>1 DEF Promises, ChangeEndsSessions, Usable, Issued
<1>6. \A u \in Users : completed'[u] <= changes'[u]
  BY <1>1, <1>2, <1>3
<1> QED BY <1>4, <1>5, <1>6 DEF Promises

\* ... and what was listed is blacklisted.
LEMMA BlacklistEnds ==
  ASSUME Typed, Promises, NEW r \in Requests, ChangeBlacklist(r)
  PROVE  Promises'
<1> DEFINE v == request[r].user
           n == request[r].born
<1>1. /\ request[r].op = "listed" /\ Blacklist(request[r].list) /\ Answers(r)
      /\ completed' = [completed EXCEPT ![v] = IF n > completed[v] THEN n ELSE completed[v]]
      /\ changes' = changes
  BY DEF ChangeBlacklist, At
<1>2. Listed(r) /\ v \in Users /\ n \in Nat
  BY <1>1 DEF Promises, Typed, RequestsTyped, Fits, RequestType
<1>3. \A u \in Users : completed[u] <= changes[u] /\ completed[u] \in Nat /\ changes[u] \in Nat
  BY DEF Promises, Typed, CountsTyped
<1>4. TokensTyped' /\ Issued' = Issued
  BY <1>1, BlacklistEffect DEF Typed
<1>5. ASSUME NEW u \in Users
      PROVE  /\ completed'[u] = completed[u] \/ (u = v /\ completed'[u] = n)
             /\ completed'[u] <= changes'[u]
  BY <1>1, <1>2, <1>3 DEF Typed, CountsTyped, Listed
<1>6. ASSUME NEW i \in Issued', NEW u \in Users PROVE ~Lives(i, u, completed[u])'
  <2>1. CASE completed'[u] = completed[u]
    <3>1. ~Lives(i, u, completed[u])
      BY <1>4, EndsSessions DEF Promises, Typed
    <3> QED BY <1>1, <1>3, <1>4, <2>1, <3>1, BlacklistPromises
  <2>2. CASE u = v /\ completed'[u] = n
    <3>1. Lives(i, v, n) => i \in request[r].list
      BY <1>2, <1>4 DEF Listed
    <3> QED BY <1>1, <1>2, <1>4, <2>2, <3>1, BlacklistPromises
  <2> QED BY <1>5, <2>1, <2>2
<1>7. ChangeEndsSessions'
  BY <1>4, <1>6, EndsSessionsNext
<1>8. ASSUME NEW x \in Requests, request'[x].op = "listed" PROVE Listed(x)'
  <2>1. request'[x] = request[x]
    BY <1>1, <1>8, IdleFits DEF Answers, Typed, RequestsTyped
  <2>2. Listed(x) /\ request[x].user \in Users /\ request[x].born \in Nat
    BY <1>8, <2>1 DEF Promises, Typed, RequestsTyped, Fits, RequestType
  <2> QED BY <1>1, <1>4, <2>1, <2>2, BlacklistPromises DEF Listed
<1> QED BY <1>5, <1>7, <1>8 DEF Promises

LEMMA StepPromises ==
  ASSUME Typed, Promises, [Next]_vars
  PROVE  Promises'
<1>1. Typed'
  BY StepTyped
<1>2. ASSUME UNCHANGED <<tokens, changes, completed>>,
             \A r \in Requests : request'[r] = request[r] \/ request'[r].op # "listed"
      PROVE  Promises'
  <2>1. Issued' = Issued /\ \A i \in Issued, u \in Users, n \in Nat : Lives(i, u, n)' => Lives(i, u, n)
    BY <1>2 DEF Lives, Usable, Issued
  <2> QED BY <1>1, <1>2, <2>1, PromisesKept DEF Typed
<1>3. ASSUME NEW r \in Requests, Answers(r) \/ (\E op \in {"saved", "rotate"} : MovesTo(r, op))
      PROVE  \A x \in Requests : request'[x] = request[x] \/ request'[x].op # "listed"
  <2>1. CASE Answers(r)
    BY <2>1, IdleFits DEF Answers, Typed, RequestsTyped
  <2>2. CASE \E op \in {"saved", "rotate"} : MovesTo(r, op)
    BY <2>2 DEF MovesTo, Typed, RequestsTyped, RequestType
  <2> QED BY <1>3, <2>1, <2>2
<1>4. ASSUME NEW r \in Requests, Begins(r) PROVE Promises'
  BY <1>2, <1>4, BeginsTyped DEF history
<1>5. ASSUME NEW r \in Requests,
             RegisterCreate(r) \/ SavesLoaded(r) \/ Dies(r) \/ ChangeSave(r)
      PROVE  Promises'
  <2>1. UNCHANGED <<tokens, changes, completed>>
    BY <1>5 DEF SavesLoaded, ProfileSave, FormSave, FormPassword, SavesRow,
               RegisterCreate, Dies, ChangeSave, history
  <2>2. Answers(r) \/ (\E op \in {"saved", "rotate"} : MovesTo(r, op))
    BY <1>5 DEF SavesLoaded, ProfileSave, FormSave, FormPassword, SavesRow,
               RegisterCreate, Dies, ChangeSave
  <2> QED BY <1>2, <1>3, <2>1, <2>2
<1>6. ASSUME NEW r \in Requests, RefreshRotate(r) \/ LogoutBlacklist(r) PROVE Promises'
  <2>1. Blacklist(request[r].list) /\ UNCHANGED <<changes, completed>>
    BY <1>6 DEF RefreshRotate, LogoutBlacklist
  <2>2. Answers(r) \/ (\E op \in {"saved", "rotate"} : MovesTo(r, op))
    BY <1>6 DEF RefreshRotate, LogoutBlacklist
  <2>3. Issued' = Issued /\ \A i \in Issued, u \in Users, n \in Nat : Lives(i, u, n)' => Lives(i, u, n)
    BY <2>1, BlacklistEffect, BlacklistPromises DEF Typed
  <2> QED BY <1>1, <1>3, <2>1, <2>2, <2>3, PromisesKept DEF Typed
<1>7. ASSUME NEW r \in Requests, LoginIssue(r) \/ RefreshIssue(r) PROVE Promises'
  BY <1>7, IssueSteps, IssuePromises
<1>8. ASSUME NEW u \in Users, Deactivate(u) PROVE Promises'
  BY <1>2, <1>8 DEF Deactivate
<1>9. CASE UNCHANGED vars
  BY <1>2, <1>9 DEF vars, history
<1> QED BY <1>4, <1>5, <1>6, <1>7, <1>8, <1>9, ListPromises, BlacklistEnds DEF Next, Begins, SavesLoaded

\* Once a password change was answered, no token of an older session can be used
\* but a late one, for any number of requests killed at any step: rotated tokens
\* have their OutstandingToken row, and no listing misses one.
THEOREM ChangesEndSessions == Spec => []ChangeEndsSessions
<1>1. Init => Promises
  BY IdleFits DEF Init, Promises, ChangeEndsSessions, Issued
<1>2. Promises => ChangeEndsSessions
  BY DEF Promises
<1>3. Typed /\ Promises /\ [Next]_vars => Promises'
  BY StepPromises
<1> QED BY <1>1, <1>2, <1>3, AlwaysTyped, PTL DEF Spec

-----------------------------------------------------------------------------
(* One token of a session at a time *)

\* At most one of them together, and none after a logout.
Linear(s) ==
  /\ \A i, j \in InUse(s) : i = j
  /\ \A q, r \in Rotating(s) : q = r
  /\ InUse(s) = {} \/ Rotating(s) = {}
  /\ s \in loggedOut => InUse(s) = {} /\ Rotating(s) = {}

AllLinear == \A s \in Issued \ contested : Linear(s)

LEMMA AtMostOne ==
  ASSUME NEW S, \A x, y \in S : x = y
  PROVE  Cardinality(S) \in 0..1 /\ (S = {} => Cardinality(S) = 0)
<1>1. CASE S = {}
  BY <1>1, FS_EmptySet
<1>2. CASE S # {}
  <2>1. PICK x \in S : TRUE
    BY <1>2
  <2>2. S = {x}
    BY <2>1
  <2> QED BY <1>2, <2>2, FS_Singleton
<1> QED BY <1>1, <1>2

LEMMA LinearCounts ==
  ASSUME NEW s, Linear(s)
  PROVE  Successors(s) <= (IF s \in loggedOut THEN 0 ELSE 1)
<1> DEFINE m == Cardinality(InUse(s))
           n == Cardinality(Rotating(s))
<1>1. m \in 0..1 /\ (InUse(s) = {} => m = 0)
  BY AtMostOne DEF Linear
<1>2. n \in 0..1 /\ (Rotating(s) = {} => n = 0)
  BY AtMostOne DEF Linear
<1>3. Successors(s) = m + n
  BY DEF Successors, InUse, Rotating
<1> HIDE DEF m, n
<1> QED BY <1>1, <1>2, <1>3 DEF Linear

\* Fewer tokens and fewer rotations are linear still.
LEMMA FewerAreLinear ==
  ASSUME NEW s, Linear(s), InUse(s)' \subseteq InUse(s), Rotating(s)' \subseteq Rotating(s),
         s \in loggedOut' => s \in loggedOut \/ (InUse(s)' = {} /\ Rotating(s)' = {})
  PROVE  Linear(s)'
  BY DEF Linear

\* A request that is not rotating before a step is not rotating afterwards,
\* and those that go on with the token they have.
LEMMA RotatingShrinks ==
  ASSUME Typed, NEW s, \A i \in Issued : tokens'[i].session = tokens[i].session,
         \A r \in Requests : request'[r] = request[r] \/ request'[r].op # "rotate"
  PROVE  Rotating(s)' \subseteq Rotating(s)
<1>1. ASSUME NEW r \in Requests, request'[r].op = "rotate", tokens'[TokenOf(r)'].session = s
      PROVE  r \in Rotating(s)
  <2>1. request'[r] = request[r]
    BY <1>1
  <2>2. TokenOf(r)' = TokenOf(r)
    BY <2>1 DEF TokenOf
  <2>3. TokenOf(r) \in Issued
    BY <1>1, <2>1, VerifiedToken DEF Verified
  <2> QED BY <1>1, <2>1, <2>2, <2>3 DEF Rotating, At
<1> QED BY <1>1 DEF Rotating, At

LEMMA QuietKeepsLinear ==
  ASSUME Typed, AllLinear, UNCHANGED <<tokens, contested, loggedOut>>,
         \A r \in Requests : request'[r] = request[r] \/ request'[r].op # "rotate"
  PROVE  AllLinear'
<1>1. Issued' = Issued
  BY DEF Issued
<1>2. ASSUME NEW s \in Issued' \ contested' PROVE Linear(s)'
  <2>1. Linear(s)
    BY <1>1 DEF AllLinear
  <2>2. InUse(s)' \subseteq InUse(s)
    BY <1>1 DEF InUse, Usable
  <2>3. Rotating(s)' \subseteq Rotating(s)
    BY RotatingShrinks
  <2> QED BY <2>1, <2>2, <2>3, FewerAreLinear
<1> QED BY <1>2 DEF AllLinear

\* A session whose token is blacklisted while nobody else had blacklisted it has
\* no token then, and nobody was rotating it.
LEMMA UncontestedBlacklist ==
  ASSUME Typed, NEW i \in Issued, Blacklist({i}), Contests({i}),
         NEW s, s \notin contested', tokens[i].session = s, Linear(s)
  PROVE  InUse(s)' = {} /\ Rotating(s) = {}
<1>1. ~tokens[i].black
  BY DEF Contests
<1>2. i \in InUse(s)
  BY <1>1 DEF InUse, Usable
<1>3. Rotating(s) = {}
  BY <1>2 DEF Linear
<1>4. InUse(s)' = {}
  <2>1. Issued' = Issued
    BY BlacklistEffect DEF Typed
  <2>2. ASSUME NEW j \in Issued, tokens'[j].session = s, Usable(j)' PROVE FALSE
    <3>1. tokens[j].session = s /\ Usable(j) /\ j # i
      BY <2>2, BlacklistEffect DEF Typed
    <3>2. j \in InUse(s)
      BY <3>1 DEF InUse
    <3> QED BY <1>2, <3>1, <3>2 DEF Linear
  <2> QED BY <2>1, <2>2 DEF InUse
<1> QED BY <1>3, <1>4

LEMMA BlacklistUses ==
  ASSUME Typed, NEW ts, Blacklist(ts), NEW s
  PROVE  InUse(s)' \subseteq InUse(s)
  BY BlacklistEffect DEF Typed, InUse

\* The token rotated is the session's only one, and r its only rotation.
LEMMA RotateKeepsLinear ==
  ASSUME Typed, AllLinear, NEW r \in Requests, RefreshRotate(r)
  PROVE  AllLinear'
<1> DEFINE i == TokenOf(r)
<1>1. /\ request[r].op = "refresh" /\ Blacklist(request[r].list) /\ Contests(request[r].list)
      /\ MovesTo(r, "rotate") /\ loggedOut' = loggedOut
  BY DEF RefreshRotate, At
<1>2. i \in Issued /\ request[r].list = {i}
  BY <1>1, VerifiedToken DEF Verified
<1>3. Blacklist({i}) /\ Contests({i})
  BY <1>1, <1>2
<1>4. Issued' = Issued /\ \A j \in Issued : tokens'[j].session = tokens[j].session
  BY <1>3, BlacklistEffect DEF Typed
<1>5. /\ request'[r].op = "rotate" /\ request'[r].list = request[r].list
      /\ \A x \in Requests \ {r} : request'[x] = request[x]
  BY <1>1 DEF MovesTo, Typed, RequestsTyped, RequestType
<1>6. TokenOf(r)' = i
  BY <1>5 DEF TokenOf
<1> HIDE DEF i
<1>7. ASSUME NEW s, NEW x \in Rotating(s)', x # r PROVE x \in Rotating(s)
  <2>1. request'[x] = request[x] /\ request[x].op = "rotate" /\ x \in Requests
    BY <1>5, <1>7 DEF Rotating, At
  <2>2. TokenOf(x)' = TokenOf(x)
    BY <2>1 DEF TokenOf
  <2>3. TokenOf(x) \in Issued
    BY <2>1, VerifiedToken DEF Verified
  <2> QED BY <1>4, <1>7, <2>1, <2>2, <2>3 DEF Rotating, At
<1>8. ASSUME NEW s \in Issued' \ contested' PROVE Linear(s)'
  <2>1. Linear(s)
    BY <1>3, <1>4 DEF AllLinear, Contests
  <2>2. CASE tokens[i].session = s
    <3>1. InUse(s)' = {} /\ Rotating(s) = {}
      BY <1>2, <1>3, <2>1, <2>2, UncontestedBlacklist
    <3>2. \A x \in Rotating(s)' : x = r
      BY <1>7, <3>1
    <3>3. s \notin loggedOut
      <4>1. i \in InUse(s)
        BY <1>2, <1>3, <2>2 DEF InUse, Usable, Contests
      <4> QED BY <2>1, <4>1 DEF Linear
    <3> QED BY <1>1, <3>1, <3>2, <3>3 DEF Linear
  <2>3. CASE tokens[i].session # s
    <3>1. r \notin Rotating(s)'
      BY <1>2, <1>4, <1>6, <2>3 DEF Rotating
    <3>2. Rotating(s)' \subseteq Rotating(s)
      BY <1>7, <3>1
    <3> QED BY <1>1, <1>3, <2>1, <3>2, BlacklistUses, FewerAreLinear
  <2> QED BY <2>2, <2>3
<1> QED BY <1>8 DEF AllLinear

LEMMA AnswersEnd ==
  ASSUME RequestsTyped, NEW r \in Requests, Answers(r)
  PROVE  /\ request'[r].op = "idle"
         /\ \A x \in Requests \ {r} : request'[x] = request[x]
         /\ \A x \in Requests : request'[x] = request[x] \/ request'[x].op # "rotate"
  BY IdleFits DEF Answers, RequestsTyped

\* The token a logout blacklists is the session's only one, and none replaces it.
LEMMA LogoutKeepsLinear ==
  ASSUME Typed, AllLinear, NEW r \in Requests, LogoutBlacklist(r)
  PROVE  AllLinear'
<1> DEFINE i == TokenOf(r)
<1>1. /\ request[r].op = "logout" /\ Blacklist(request[r].list) /\ Contests(request[r].list)
      /\ Answers(r) /\ loggedOut' = loggedOut \cup {tokens[j].session : j \in request[r].list}
  BY DEF LogoutBlacklist, At
<1>2. i \in Issued /\ request[r].list = {i}
  BY <1>1, VerifiedToken DEF Verified
<1>3. Blacklist({i}) /\ Contests({i}) /\ loggedOut' = loggedOut \cup {tokens[i].session}
  BY <1>1, <1>2
<1>4. Issued' = Issued /\ \A j \in Issued : tokens'[j].session = tokens[j].session
  BY <1>3, BlacklistEffect DEF Typed
<1> HIDE DEF i
<1>5. ASSUME NEW s \in Issued' \ contested' PROVE Linear(s)'
  <2>1. Linear(s)
    BY <1>3, <1>4 DEF AllLinear, Contests
  <2>2. Rotating(s)' \subseteq Rotating(s)
    BY <1>1, <1>4, AnswersEnd, RotatingShrinks DEF Typed
  <2>3. InUse(s)' \subseteq InUse(s)
    BY <1>3, BlacklistUses
  <2>4. tokens[i].session = s => InUse(s)' = {} /\ Rotating(s)' = {}
    BY <1>2, <1>3, <2>1, <2>2, UncontestedBlacklist
  <2> QED BY <1>3, <2>1, <2>2, <2>3, <2>4, FewerAreLinear
<1> QED BY <1>5 DEF AllLinear

LEMMA ChangeKeepsLinear ==
  ASSUME Typed, AllLinear, NEW r \in Requests, ChangeBlacklist(r)
  PROVE  AllLinear'
<1>1. /\ Blacklist(request[r].list) /\ Answers(r)
      /\ contested' = contested /\ loggedOut' = loggedOut
  BY DEF ChangeBlacklist
<1>2. Issued' = Issued /\ \A j \in Issued : tokens'[j].session = tokens[j].session
  BY <1>1, BlacklistEffect DEF Typed
<1>3. ASSUME NEW s \in Issued' \ contested' PROVE Linear(s)'
  <2>1. Linear(s) /\ InUse(s)' \subseteq InUse(s)
    BY <1>1, <1>2, BlacklistUses DEF AllLinear
  <2>2. Rotating(s)' \subseteq Rotating(s)
    BY <1>1, <1>2, AnswersEnd, RotatingShrinks DEF Typed
  <2> QED BY <1>1, <2>1, <2>2, FewerAreLinear
<1> QED BY <1>3 DEF AllLinear

\* What an issue does to the tokens in use and to the rotations.
LEMMA IssueUses ==
  ASSUME Typed, NEW r \in Requests, NEW t, Issues(r, t)
  PROVE  /\ Issued' = Issued \cup {Len(tokens) + 1}
         /\ Len(tokens) + 1 \notin Issued
         /\ UNCHANGED <<contested, loggedOut>>
         /\ \A s : /\ InUse(s)' \subseteq InUse(s) \cup {Len(tokens) + 1}
                   /\ t.session # s => InUse(s)' \subseteq InUse(s)
                   /\ Rotating(s)' \subseteq Rotating(s) \ {r}
<1>1. /\ Issued' = Issued \cup {Len(tokens) + 1} /\ Len(tokens) + 1 \notin Issued
      /\ tokens'[Len(tokens) + 1] = t
      /\ \A j \in Issued : tokens'[j] = tokens[j]
  BY IssueEffect DEF Issues, Typed
<1>2. Answers(r) /\ UNCHANGED <<contested, loggedOut>>
  BY DEF Issues, history
<1>3. ASSUME NEW s
      PROVE  /\ InUse(s)' \subseteq InUse(s) \cup {Len(tokens) + 1}
             /\ t.session # s => InUse(s)' \subseteq InUse(s)
  BY <1>1 DEF InUse, Usable
<1>4. ASSUME NEW s PROVE Rotating(s)' \subseteq Rotating(s) \ {r}
  <2>1. Rotating(s)' \subseteq Rotating(s)
    BY <1>1, <1>2, AnswersEnd, RotatingShrinks DEF Typed
  <2>2. r \notin Rotating(s)'
    BY <1>2, AnswersEnd DEF Rotating, At, Typed
  <2> QED BY <2>1, <2>2
<1> QED BY <1>1, <1>2, <1>3, <1>4

\* A login's session is new; a rotation's had no other token and no other rotation.
LEMMA IssueKeepsLinear ==
  ASSUME Typed, AllLinear, NEW r \in Requests, NEW t, Issues(r, t),
         \/ t.session = Len(tokens) + 1
         \/ r \in Rotating(t.session)
  PROVE  AllLinear'
<1> DEFINE n == Len(tokens) + 1
<1>1. /\ Issued' = Issued \cup {n} /\ n \notin Issued /\ UNCHANGED <<contested, loggedOut>>
      /\ \A s : /\ InUse(s)' \subseteq InUse(s) \cup {n}
                /\ t.session # s => InUse(s)' \subseteq InUse(s)
                /\ Rotating(s)' \subseteq Rotating(s) \ {r}
  BY IssueUses
<1>2. InUse(n) = {} /\ Rotating(n) = {} /\ n \notin loggedOut
  <2>1. \A j \in Issued : tokens[j].session \in Issued
    BY DEF Typed, TokensTyped
  <2>2. \A x \in Requests : At(x, "rotate") => tokens[TokenOf(x)].session \in Issued
    BY VerifiedToken DEF At, Verified
  <2> QED BY <1>1, <2>1, <2>2 DEF InUse, Rotating, Typed, CountsTyped
<1>3. \A j \in Issued : tokens[j].session \in Issued
  BY DEF Typed, TokensTyped
<1>4. t.session = n \/ r \in Rotating(t.session)
  OBVIOUS
<1> HIDE DEF n
<1>5. ASSUME NEW s \in Issued' \ contested' PROVE Linear(s)'
  <2>1. s = n \/ (s \in Issued /\ Linear(s))
    BY <1>1 DEF AllLinear
  <2>2. Linear(s)
    BY <1>2, <2>1 DEF Linear
  <2>3. CASE t.session # s
    BY <1>1, <2>2, <2>3, FewerAreLinear
  <2>4. CASE t.session = s
    <3>1. InUse(s) = {} /\ Rotating(s) \subseteq {r} /\ s \notin loggedOut
      BY <1>2, <1>4, <2>2, <2>4 DEF Linear
    <3>2. InUse(s)' \subseteq {n} /\ Rotating(s)' = {} /\ s \notin loggedOut'
      BY <1>1, <3>1
    <3> QED BY <3>2 DEF Linear
  <2> QED BY <2>3, <2>4
<1> QED BY <1>5 DEF AllLinear

LEMMA StepKeepsLinear ==
  ASSUME Typed, AllLinear, [Next]_vars
  PROVE  AllLinear'
<1>1. ASSUME NEW r \in Requests, Begins(r) PROVE AllLinear'
  BY <1>1, BeginsTyped, QuietKeepsLinear DEF history
<1>2. ASSUME NEW r \in Requests,
             RegisterCreate(r) \/ SavesLoaded(r) \/ Dies(r)
      PROVE  AllLinear'
  <2>1. Answers(r) /\ UNCHANGED <<tokens, contested, loggedOut>>
    BY <1>2 DEF SavesLoaded, ProfileSave, FormSave, FormPassword, SavesRow,
               RegisterCreate, Dies, history
  <2> QED BY <2>1, AnswersEnd, QuietKeepsLinear DEF Typed
<1>3. ASSUME NEW r \in Requests, ChangeSave(r) PROVE AllLinear'
  <2>1. MovesTo(r, "saved") /\ UNCHANGED <<tokens, contested, loggedOut>>
    BY <1>3 DEF ChangeSave
  <2>2. \A x \in Requests : request'[x] = request[x] \/ request'[x].op # "rotate"
    BY <2>1 DEF MovesTo, Typed, RequestsTyped, RequestType
  <2> QED BY <2>1, <2>2, QuietKeepsLinear
<1>4. ASSUME NEW r \in Requests, ChangeList(r) PROVE AllLinear'
  <2>1. UNCHANGED <<tokens, contested, loggedOut>>
    BY <1>4 DEF ChangeList
  <2>2. \A x \in Requests : request'[x] = request[x] \/ request'[x].op # "rotate"
    BY <1>4, ListTyped
  <2> QED BY <2>1, <2>2, QuietKeepsLinear
<1>5. ASSUME NEW r \in Requests, LoginIssue(r) \/ RefreshIssue(r) PROVE AllLinear'
  BY <1>5, IssueSteps, IssueKeepsLinear
<1>6. ASSUME NEW u \in Users, Deactivate(u) PROVE AllLinear'
  BY <1>6, QuietKeepsLinear DEF Deactivate
<1>7. CASE UNCHANGED vars
  BY <1>7, QuietKeepsLinear DEF vars, history
<1> QED BY <1>1, <1>2, <1>3, <1>4, <1>5, <1>6, <1>7,
           RotateKeepsLinear, LogoutKeepsLinear, ChangeKeepsLinear DEF Next, Begins, SavesLoaded

\* A session has one token at a time, however often it is rotated and whichever
\* requests are killed between blacklisting a token and issuing the next, and none
\* after a logout, unless two requests blacklisted the same token.
THEOREM SessionsAreLinear == Spec => []SessionLinear
<1>1. Init => AllLinear
  BY DEF Init, AllLinear, Issued
<1>2. ASSUME AllLinear PROVE SessionLinear
  BY <1>2, LinearCounts DEF AllLinear, SessionLinear
<1>3. Typed /\ AllLinear /\ [Next]_vars => AllLinear'
  BY StepKeepsLinear
<1> QED BY <1>1, <1>2, <1>3, AlwaysTyped, PTL DEF Spec

-----------------------------------------------------------------------------
(* What simultaneous requests cost *)

\* No token can be used that is older than the last change that was answered.
NoneOlder == \A i \in Issued : Usable(i) => completed[tokens[i].owner] <= tokens[i].born

\* What request r has read is still so.
Fresh(r) ==
  /\ At(r, "refresh") \/ At(r, "logout") => \A i \in request[r].list : Usable(i)
  /\ request[r].op \in Verified =>
       \A i \in request[r].list : completed[tokens[i].owner] <= tokens[i].born
  /\ At(r, "login") => completed[request[r].user] <= request[r].born
  /\ At(r, "listed") =>
       \A i \in Issued : tokens[i].owner = request[r].user /\ Usable(i) => i \in request[r].list

AllFresh == contested = {} /\ NoneOlder /\ \A r \in Requests : Fresh(r)

LEMMA RestingIsFresh ==
  ASSUME NEW r, request'[r].op \in {"idle", "register", "change", "saved", "profile", "form"}
  PROVE  Fresh(r)'
  BY DEF Fresh, At, Verified

LEMMA NoneOlderNext ==
  ASSUME NoneOlder, UNCHANGED <<tokens, completed>>
  PROVE  NoneOlder'
  BY DEF NoneOlder, Issued, Usable

\* A token that is verified can be used, and a login reads the latest change.
LEMMA BeginsFresh ==
  ASSUME Typed, Promises, AllFresh, NEW r \in Requests, Begins(r)
  PROVE  Fresh(r)'
<1>1. UNCHANGED <<tokens, completed>> /\ Issued' = Issued
  BY BeginsTyped DEF history, Issued
<1>2. ASSUME NEW op, NEW u, NEW list, Starts(r, op, u, list)
      PROVE  /\ request'[r].op = op /\ request'[r].user = u /\ request'[r].list = list
             /\ op = "login" => request'[r].born = changes[u]
  BY <1>2 DEF Starts, Typed, RequestsTyped
<1>3. CASE \E u \in Users :
             RegisterCheck(r, u) \/ ChangeCheck(r, u) \/ ProfileLoad(r, u) \/ FormLoad(r, u)
  <2>1. request'[r].op \in {"register", "change", "profile", "form"}
    BY <1>2, <1>3 DEF RegisterCheck, ChangeCheck, ProfileLoad, FormLoad
  <2> QED BY <2>1, RestingIsFresh
<1>4. ASSUME NEW u \in Users, LoginCheck(r, u) PROVE Fresh(r)'
  <2>1. request'[r].op = "login" /\ request'[r].user = u /\ request'[r].born = changes[u]
    BY <1>2, <1>4 DEF LoginCheck
  <2>2. completed[u] <= changes[u]
    BY DEF Promises
  <2> QED BY <1>1, <2>1, <2>2 DEF Fresh, At, Verified
<1>5. ASSUME NEW i \in Issued, RefreshCheck(r, i) \/ LogoutCheck(r, i) PROVE Fresh(r)'
  <2>1. request'[r].op \in {"refresh", "logout"} /\ request'[r].list = {i}
    BY <1>2, <1>5 DEF RefreshCheck, LogoutCheck
  <2>2. Usable(i) /\ completed[tokens[i].owner] <= tokens[i].born
    BY <1>5 DEF RefreshCheck, LogoutCheck, Verifies, AllFresh, NoneOlder
  <2> QED BY <1>1, <2>1, <2>2 DEF Fresh, At, Usable
<1> QED BY <1>3, <1>4, <1>5 DEF Begins

\* Blacklisting tokens makes none usable.
LEMMA BlacklistFresh ==
  ASSUME Typed, NoneOlder, NEW ts, Blacklist(ts), completed' = completed
  PROVE  NoneOlder'
  BY BlacklistEffect DEF NoneOlder, Typed

LEMMA RotateFresh ==
  ASSUME Typed, AllFresh, NEW r \in Requests, RefreshRotate(r)
  PROVE  contested' = {} /\ NoneOlder' /\ Fresh(r)'
<1>1. /\ request[r].op = "refresh" /\ Blacklist(request[r].list) /\ Contests(request[r].list)
      /\ MovesTo(r, "rotate") /\ completed' = completed
  BY DEF RefreshRotate, At
<1>2. \A i \in request[r].list :
        /\ i \in Issued /\ Usable(i)
        /\ completed[tokens[i].owner] <= tokens[i].born
  BY <1>1, VerifiedToken DEF AllFresh, Fresh, At, Verified
<1>3. contested' = {}
  BY <1>1, <1>2 DEF Contests, AllFresh, Usable
<1>4. request'[r].op = "rotate" /\ request'[r].list = request[r].list
  BY <1>1 DEF MovesTo, Typed, RequestsTyped, RequestType
<1>5. Fresh(r)'
  BY <1>1, <1>2, <1>4, BlacklistEffect DEF Fresh, At, Typed
<1> QED BY <1>1, <1>3, <1>5, BlacklistFresh DEF AllFresh

LEMMA LogoutFresh ==
  ASSUME Typed, AllFresh, NEW r \in Requests, LogoutBlacklist(r)
  PROVE  contested' = {} /\ NoneOlder' /\ Fresh(r)'
<1>1. /\ request[r].op = "logout" /\ Blacklist(request[r].list) /\ Contests(request[r].list)
      /\ Answers(r) /\ completed' = completed
  BY DEF LogoutBlacklist, At
<1>2. \A i \in request[r].list : Usable(i)
  BY <1>1 DEF AllFresh, Fresh, At
<1>3. contested' = {}
  BY <1>1, <1>2 DEF Contests, AllFresh, Usable
<1> QED BY <1>1, <1>3, AnswersEnd, RestingIsFresh, BlacklistFresh DEF AllFresh, Typed

\* Every token of the user that could be used is blacklisted.
LEMMA ChangeFresh ==
  ASSUME Typed, AllFresh, NEW r \in Requests, ChangeBlacklist(r)
  PROVE  contested' = {} /\ NoneOlder' /\ Fresh(r)'
<1> DEFINE u == request[r].user
           n == request[r].born
<1>1. /\ request[r].op = "listed" /\ Blacklist(request[r].list) /\ Answers(r)
      /\ completed' = [completed EXCEPT ![u] = IF n > @ THEN n ELSE @]
      /\ contested' = contested
  BY DEF ChangeBlacklist, At
<1>2. ASSUME NEW i \in Issued', Usable(i)' PROVE completed'[tokens'[i].owner] <= tokens'[i].born
  <2>1. /\ i \in Issued /\ Usable(i) /\ i \notin request[r].list
        /\ tokens'[i].owner = tokens[i].owner /\ tokens'[i].born = tokens[i].born
    BY <1>1, <1>2, BlacklistEffect DEF Typed
  <2>2. tokens[i].owner # u
    BY <1>1, <2>1 DEF AllFresh, Fresh, At
  <2>3. tokens[i].owner \in Users
    <3>1. tokens[i] \in TokenType
      BY <2>1, LenProperties DEF Typed, TokensTyped, Issued
    <3> QED BY <3>1 DEF TokenType
  <2>4. completed'[tokens[i].owner] = completed[tokens[i].owner]
    BY <1>1, <2>2, <2>3 DEF Typed, CountsTyped
  <2> QED BY <2>1, <2>4 DEF AllFresh, NoneOlder
<1> HIDE DEF u, n
<1> QED BY <1>1, <1>2, AnswersEnd, RestingIsFresh DEF AllFresh, NoneOlder, Typed

LEMMA IssueFresh ==
  ASSUME Typed, AllFresh, NEW r \in Requests, NEW t, Issues(r, t), GoesOn(r, t)
  PROVE  contested' = {} /\ NoneOlder' /\ Fresh(r)'
<1>1. /\ Issued' = Issued \cup {Len(tokens) + 1}
      /\ tokens'[Len(tokens) + 1] = t
      /\ \A i \in Issued : tokens'[i] = tokens[i]
  BY IssueEffect DEF Issues, Typed
<1>2. Answers(r) /\ completed' = completed /\ contested' = contested
  BY DEF Issues, history
<1>3. completed[t.owner] <= t.born
  <2>1. CASE At(r, "login")
    BY <2>1 DEF GoesOn, At, AllFresh, Fresh
  <2>2. CASE At(r, "rotate")
    <3>1. TokenOf(r) \in request[r].list
      BY <2>2, VerifiedToken DEF At, Verified
    <3> QED BY <2>2, <3>1 DEF GoesOn, At, AllFresh, Fresh, Verified
  <2> QED BY <2>1, <2>2 DEF GoesOn
<1>4. NoneOlder'
  BY <1>1, <1>2, <1>3 DEF NoneOlder, AllFresh, Usable
<1> QED BY <1>2, <1>4, AnswersEnd, RestingIsFresh DEF AllFresh, Typed

\* All tokens of the user that can be used are listed: they all have a row.
LEMMA ListFresh ==
  ASSUME Typed, AllFresh, NEW r \in Requests, ChangeList(r)
  PROVE  contested' = {} /\ NoneOlder' /\ Fresh(r)'
<1>1. UNCHANGED <<tokens, completed, contested>> /\ Issued' = Issued
  BY DEF ChangeList, Issued
<1>2. /\ request'[r].op = "listed" /\ request'[r].user = request[r].user
      /\ request'[r].list = Outstanding(request[r].user)
  BY ListTyped
<1>3. \A i \in Issued : tokens[i].recorded
  BY DEF Typed, TokensTyped
<1>4. Fresh(r)'
  BY <1>1, <1>2, <1>3 DEF Fresh, At, Verified, Outstanding, Usable
<1> QED BY <1>1, <1>4, NoneOlderNext DEF AllFresh

LEMMA StepKeepsFresh ==
  ASSUME \A q, r \in Requests : q = r, Typed, Promises, AllFresh, [Next]_vars
  PROVE  AllFresh'
<1>1. ASSUME NEW r \in Requests, contested' = {}, NoneOlder', Fresh(r)' PROVE AllFresh'
  BY <1>1 DEF AllFresh
<1>2. ASSUME UNCHANGED <<tokens, completed, contested>> PROVE contested' = {} /\ NoneOlder'
  BY <1>2, NoneOlderNext DEF AllFresh
<1>3. ASSUME NEW r \in Requests, Begins(r) PROVE AllFresh'
  BY <1>1, <1>2, <1>3, BeginsTyped, BeginsFresh DEF history
<1>4. ASSUME NEW r \in Requests, RegisterCreate(r) \/ SavesLoaded(r) \/ Dies(r) PROVE AllFresh'
  <2>1. Answers(r) /\ UNCHANGED <<tokens, completed, contested>>
    BY <1>4 DEF SavesLoaded, ProfileSave, FormSave, FormPassword, SavesRow,
               RegisterCreate, Dies, history
  <2> QED BY <1>1, <1>2, <2>1, AnswersEnd, RestingIsFresh DEF Typed
<1>5. ASSUME NEW r \in Requests, ChangeSave(r) PROVE AllFresh'
  <2>1. MovesTo(r, "saved") /\ UNCHANGED <<tokens, completed, contested>>
    BY <1>5 DEF ChangeSave
  <2>2. request'[r].op = "saved"
    BY <2>1 DEF MovesTo, Typed, RequestsTyped, RequestType
  <2> QED BY <1>1, <1>2, <2>1, <2>2, RestingIsFresh
<1>6. ASSUME NEW r \in Requests, LoginIssue(r) \/ RefreshIssue(r) PROVE AllFresh'
  BY <1>1, <1>6, IssueSteps, IssueFresh
<1>7. ASSUME UNCHANGED <<tokens, request, completed, contested>> PROVE AllFresh'
  BY <1>2, <1>7 DEF AllFresh, Fresh, At, Issued, Usable
<1>8. ASSUME NEW u \in Users, Deactivate(u) PROVE AllFresh'
  BY <1>7, <1>8 DEF Deactivate
<1>9. CASE UNCHANGED vars
  BY <1>7, <1>9 DEF vars, history
<1> QED BY <1>1, <1>3, <1>4, <1>5, <1>6, <1>8, <1>9,
           RotateFresh, LogoutFresh, ChangeFresh, ListFresh DEF Next, Begins, SavesLoaded

\* If the server answers one request at a time, killed or not, a password change
\* that was answered leaves no older session a token it can use, late or not, and
\* every session has at most one token, and none after a logout: what
\* ChangeEndsSessions and SessionLinear except needs two requests at once.
THEOREM OneRequestAtATime ==
  ASSUME \A q, r \in Requests : q = r
  PROVE  Spec => [](/\ \A i \in Issued : Usable(i) => completed[tokens[i].owner] <= tokens[i].born
                    /\ \A s \in Issued : Successors(s) <= (IF s \in loggedOut THEN 0 ELSE 1))
<1>1. Init => Promises /\ AllFresh
  BY IdleFits DEF Init, Promises, ChangeEndsSessions, Issued, AllFresh, NoneOlder, Fresh, At, Verified
<1>2. ASSUME Typed, Promises, AllFresh, [Next]_vars PROVE Promises' /\ AllFresh'
  BY <1>2, StepPromises, StepKeepsFresh
<1>3. ASSUME AllFresh, SessionLinear
      PROVE  /\ \A i \in Issued : Usable(i) => completed[tokens[i].owner] <= tokens[i].born
             /\ \A s \in Issued : Successors(s) <= (IF s \in loggedOut THEN 0 ELSE 1)
  BY <1>3 DEF AllFresh, NoneOlder, SessionLinear
<1> QED BY <1>1, <1>2, <1>3, AlwaysTyped, SessionsAreLinear, PTL DEF Spec

=============================================================================
