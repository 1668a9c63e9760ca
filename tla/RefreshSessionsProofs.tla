------------------------ MODULE RefreshSessionsProofs ------------------------
(***************************************************************************)
(* Theorems about RefreshSessions, for every number of users, browsers,    *)
(* requests and families: type correctness, tokens that were handed out    *)
(* work, logouts are final.                                                *)
(***************************************************************************)
EXTENDS RefreshSessions, TLAPS

\* What a request holds at each stage, which the type of a request leaves open.
Shaped(r) ==
    /\ req[r].op = "refresh" => req[r].token \in Token
    /\ req[r].stage \in {"check", "revoke"} => req[r].token \in Token
    /\ req[r].stage \in {"check", "issue"} => req[r].user \in Users
    /\ req[r].stage = "store" => req[r].cookie \in Token
Shapes == \A r \in Requests : req[r] # None => Shaped(r)

TypeInv == TypeOK /\ Shapes

-----------------------------------------------------------------------------
LEMMA ClearIsNoToken == Clear \notin Token
<1>1. DOMAIN Clear = {"clear"} BY DEF Clear
<1>2. \A t \in Token : DOMAIN t = {"user", "family", "jti", "exp"} BY DEF Token
<1>3. QED BY <1>1, <1>2

LEMMA TypeInit == Init => TypeInv
BY SessionsAssumption DEF Init, TypeInv, TypeOK, Shapes, Families

\* A handler that answers.
LEMMA AnsweredTypes ==
    ASSUME TypeInv, NEW r \in Requests, req[r] # None,
           NEW status \in Statuses, NEW cookie \in Token \cup {None, Clear},
           req' = Answered(r, status, cookie)
    PROVE  req' \in [Requests -> Request \cup {None}] /\ Shapes'
<1>. USE SessionsAssumption DEF TypeInv, TypeOK
<1>1. req[r] \in Request OBVIOUS
<1>. DEFINE x == [[[req[r] EXCEPT !.stage = "answer"] EXCEPT !.status = status]
                     EXCEPT !.cookie = cookie]
<1>2. req' = [req EXCEPT ![r] = x] BY DEF Answered
<1>3. x \in Request
  <2>1. [req[r] EXCEPT !.stage = "answer"] \in Request BY <1>1 DEF Request, Stages
  <2>2. [[req[r] EXCEPT !.stage = "answer"] EXCEPT !.status = status] \in Request
    BY <2>1 DEF Request
  <2>3. QED BY <2>2 DEF Request
<1>4. req' \in [Requests -> Request \cup {None}] BY <1>2, <1>3
<1>5. Shapes'
  <2>. SUFFICES ASSUME NEW q \in Requests, req'[q] # None PROVE Shaped(q)'
    BY DEF Shapes
  <2>1. CASE q = r
    <3>1. /\ req'[r].op = req[r].op /\ req'[r].token = req[r].token
          /\ req'[r].stage = "answer"
      BY <1>1, <1>2 DEF Request
    <3>2. Shaped(r) BY DEF Shapes
    <3>3. QED BY <2>1, <3>1, <3>2 DEF Shaped
  <2>2. CASE q # r
    <3>1. req'[q] = req[q] BY <2>2, <1>2
    <3>2. Shaped(q) BY <3>1 DEF Shapes
    <3>3. QED BY <3>1, <3>2 DEF Shaped
  <2>3. QED BY <2>1, <2>2
<1>6. QED BY <1>4, <1>5

\* A handler that goes on to another stage, or a request that starts.
LEMMA MovedTypes ==
    ASSUME TypeInv, NEW r \in Requests, NEW record \in Request,
           record.op = "refresh" => record.token \in Token,
           record.stage \in {"check", "revoke"} => record.token \in Token,
           record.stage \in {"check", "issue"} => record.user \in Users,
           record.stage = "store" => record.cookie \in Token,
           req' = [req EXCEPT ![r] = record]
    PROVE  req' \in [Requests -> Request \cup {None}] /\ Shapes'
<1>. USE DEF TypeInv, TypeOK
<1>1. req' \in [Requests -> Request \cup {None}] OBVIOUS
<1>2. ASSUME NEW q \in Requests, req'[q] # None PROVE Shaped(q)'
  <2>1. CASE q = r
    <3>1. req'[q] = record BY <2>1
    <3>2. QED BY <3>1 DEF Shaped
  <2>2. CASE q # r
    <3>1. req'[q] = req[q] BY <2>2
    <3>2. Shaped(q) BY <3>1, <1>2 DEF Shapes
    <3>3. QED BY <3>1, <3>2 DEF Shaped
  <2>3. QED BY <2>1, <2>2
<1>3. QED BY <1>1, <1>2 DEF Shapes

LEMMA EndedTypes ==
    ASSUME TypeInv, NEW r \in Requests, req' = [req EXCEPT ![r] = None]
    PROVE  req' \in [Requests -> Request \cup {None}] /\ Shapes'
BY DEF TypeInv, TypeOK, Shapes, Shaped

-----------------------------------------------------------------------------
LEMMA ClientTypes ==
    ASSUME TypeInv, NEW r \in Requests, NEW b \in Browsers,
           (\E u \in Users : SignIn(r, b, u)) \/ Refresh(r, b) \/ Logout(r, b)
    PROVE  TypeInv'
<1>. USE SessionsAssumption
<1>0. TypeOK BY DEF TypeInv
<1>1. jar[b] # None => jar[b] \in Token /\ jar[b].user \in Users BY <1>0 DEF TypeOK, Token
<1>2. UNCHANGED <<now, store, jar, issued, rotated, loggedOut, lost>>
  BY DEF SignIn, Refresh, Logout
<1>3. req' \in [Requests -> Request \cup {None}] /\ Shapes'
  <2>1. ASSUME NEW u \in Users, SignIn(r, b, u)
        PROVE  req' \in [Requests -> Request \cup {None}] /\ Shapes'
    <3>. DEFINE new == [op |-> "signin", stage |-> "issue", browser |-> b, user |-> u,
                        token |-> None, cookie |-> None, status |-> None]
    <3>1. new \in Request BY DEF Request, Stages
    <3>2. req' = [req EXCEPT ![r] = new] BY <2>1 DEF SignIn, Begin
    <3>3. QED BY <3>1, <3>2, MovedTypes
  <2>2. ASSUME Refresh(r, b)
        PROVE  req' \in [Requests -> Request \cup {None}] /\ Shapes'
    <3>. DEFINE new == [op |-> "refresh", stage |-> "check", browser |-> b,
                        user |-> jar[b].user, token |-> jar[b], cookie |-> None,
                        status |-> None]
    <3>1. new \in Request BY <1>1, <2>2 DEF Refresh, Request, Stages
    <3>2. req' = [req EXCEPT ![r] = new] BY <2>2 DEF Refresh, Begin
    <3>3. new.token \in Token /\ new.user \in Users BY <1>1, <2>2 DEF Refresh
    <3>4. QED BY <3>1, <3>2, <3>3, MovedTypes
  <2>3. ASSUME Logout(r, b)
        PROVE  req' \in [Requests -> Request \cup {None}] /\ Shapes'
    <3>. DEFINE new(stage, cookie, status) ==
                  [op |-> "logout", stage |-> stage, browser |-> b, user |-> None,
                   token |-> jar[b], cookie |-> cookie, status |-> status]
    <3>1. new("revoke", None, None) \in Request /\ new("answer", Clear, 204) \in Request
      BY <1>0 DEF TypeOK, Request, Stages, Statuses
    <3>2. \/ req' = [req EXCEPT ![r] = new("revoke", None, None)] /\ jar[b] # None
          \/ req' = [req EXCEPT ![r] = new("answer", Clear, 204)]
      BY <2>3 DEF Logout, Begin
    <3>3. jar[b] # None => jar[b] \in Token BY <1>1
    <3>4. CASE req' = [req EXCEPT ![r] = new("revoke", None, None)] /\ jar[b] # None
      BY <3>1, <3>3, <3>4, MovedTypes
    <3>5. CASE req' = [req EXCEPT ![r] = new("answer", Clear, 204)]
      BY <3>1, <3>3, <3>5, MovedTypes
    <3>6. QED BY <3>2, <3>4, <3>5
  <2>4. QED BY <2>1, <2>2, <2>3
<1>4. QED BY <1>0, <1>2, <1>3 DEF TypeInv, TypeOK

LEMMA HandlerTypes ==
    ASSUME TypeInv, NEW r \in Requests, HandlerStep(r) \/ Abort(r)
    PROVE  TypeInv'
<1>. USE SessionsAssumption
<1>0. TypeOK /\ Shapes BY DEF TypeInv
<1>1. req[r] # None
  BY DEF HandlerStep, Check, Issue, IssueFails, StoreDone, StoreFails, RevokeDone,
         RevokeFails, Receive, Abort, At
<1>2. req[r] \in Request /\ Shaped(r) BY <1>0, <1>1 DEF TypeOK, Shapes
<1>3. req[r].browser \in Browsers
      /\ req[r].token \in Token \cup {None} /\ req[r].cookie \in Token \cup {None, Clear}
  BY <1>2 DEF Request
<1>4. ASSUME NEW status \in Statuses, NEW cookie \in Token \cup {None, Clear},
             req' = Answered(r, status, cookie)
      PROVE  req' \in [Requests -> Request \cup {None}] /\ Shapes'
  BY <1>1, <1>4, AnsweredTypes
<1>5. CASE Check(r)
  <2>1. req[r].token \in Token /\ req[r].user \in Users
    BY <1>2, <1>5 DEF Check, At, Shaped
  <2>2. CASE \E status \in {401, 500} : req' = Answered(r, status, None)
    <3>1. req' \in [Requests -> Request \cup {None}] /\ Shapes'
      BY <1>4, <2>2 DEF Statuses
    <3>2. QED BY <1>0, <1>5, <3>1 DEF Check, TypeInv, TypeOK
  <2>3. CASE \E stage \in {"issue", "revoke"} : req' = [req EXCEPT ![r].stage = stage]
    <3>1. PICK stage \in {"issue", "revoke"} : req' = [req EXCEPT ![r].stage = stage]
      BY <2>3
    <3>. DEFINE x == [req[r] EXCEPT !.stage = stage]
    <3>2. x \in Request /\ x.token \in Token /\ x.user \in Users /\ x.stage = stage
      BY <1>2, <2>1 DEF Request, Stages
    <3>3. req' = [req EXCEPT ![r] = x] BY <1>0, <3>1 DEF TypeOK
    <3>4. req' \in [Requests -> Request \cup {None}] /\ Shapes'
      <4>. HIDE DEF x
      <4>1. QED BY <3>2, <3>3, MovedTypes
    <3>5. QED BY <1>0, <1>5, <3>4 DEF Check, TypeInv, TypeOK
  <2>4. QED BY <1>5, <2>2, <2>3 DEF Check
<1>6. CASE Issue(r)
  <2>1. issued + 1 \in Families /\ issued' \in 0 .. MaxIssued
    BY <1>0, <1>6 DEF Issue, TypeOK, Families
  <2>2. Mint(r) \in Token
    <3>1. req[r].user \in Users BY <1>2, <1>6 DEF Issue, At, Shaped
    <3>2. QED BY <1>0, <2>1, <3>1 DEF Mint, Token, TypeOK
  <2>. DEFINE x == [req[r] EXCEPT !.stage = "store", !.cookie = Mint(r)]
  <2>3. /\ x \in Request /\ x.op = req[r].op /\ x.token = req[r].token
        /\ x.stage = "store" /\ x.cookie = Mint(r)
    BY <1>2, <2>2 DEF Request, Stages
  <2>4. req' = [req EXCEPT ![r] = x] BY <1>0, <1>6 DEF Issue, TypeOK
  <2>5. req' \in [Requests -> Request \cup {None}] /\ Shapes'
    <3>. HIDE DEF x
    <3>1. QED BY <1>2, <2>2, <2>3, <2>4, MovedTypes DEF Shaped
  <2>6. QED BY <1>0, <1>6, <2>1, <2>5 DEF Issue, TypeInv, TypeOK
<1>7. CASE IssueFails(r)
  <2>1. req' = Answered(r, 500, None) BY <1>7 DEF IssueFails
  <2>2. req' \in [Requests -> Request \cup {None}] /\ Shapes' BY <1>4, <2>1 DEF Statuses
  <2>3. QED BY <1>0, <1>7, <2>2 DEF IssueFails, TypeInv, TypeOK
<1>8. At(r, "store") => Listed(r) \in [Families -> Allowed \cup {None}]
  <2>. SUFFICES ASSUME At(r, "store") PROVE Listed(r) \in [Families -> Allowed \cup {None}]
    OBVIOUS
  <2>1. req[r].cookie \in Token BY <1>2 DEF At, Shaped
  <2>2. req[r].cookie.jti \in Families /\ req[r].cookie.family \in Families
    BY <2>1 DEF Token
  <2>3. [jti |-> req[r].cookie.jti, until |-> now + RefreshTtl] \in Allowed
    BY <1>0, <2>2 DEF TypeOK, Allowed
  <2>4. QED BY <1>0, <2>2, <2>3 DEF Listed, TypeOK
<1>9. CASE StoreDone(r)
  <2>1. \E status \in {200, 500} : req' = Answered(r, status, req[r].cookie)
    BY <1>9 DEF StoreDone
  <2>2. req' \in [Requests -> Request \cup {None}] /\ Shapes'
    BY <1>3, <1>4, <2>1 DEF Statuses
  <2>3. req[r].op = "refresh" => req[r].token.family \in Families
    BY <1>2 DEF Shaped, Token
  <2>4. rotated' \subseteq Families BY <1>0, <1>9, <2>3 DEF StoreDone, TypeOK
  <2>5. QED BY <1>0, <1>8, <1>9, <2>2, <2>4 DEF StoreDone, TypeInv, TypeOK
<1>10. CASE StoreFails(r)
  <2>1. req' = Answered(r, 500, None) BY <1>10 DEF StoreFails, StoreRefused
  <2>2. req' \in [Requests -> Request \cup {None}] /\ Shapes' BY <1>4, <2>1 DEF Statuses
  <2>3. QED BY <1>0, <1>8, <1>10, <2>2 DEF StoreFails, TypeInv, TypeOK
<1>11. CASE RevokeDone(r)
  <2>1. req[r].token.family \in Families BY <1>2, <1>11 DEF RevokeDone, At, Shaped, Token
  <2>2. req' = Answered(r, 204, Clear) \/ req' = Answered(r, 401, None)
    BY <1>11 DEF RevokeDone
  <2>3. req' \in [Requests -> Request \cup {None}] /\ Shapes' BY <1>4, <2>2 DEF Statuses
  <2>4. QED BY <1>0, <1>11, <2>1, <2>3 DEF RevokeDone, Unlisted, TypeInv, TypeOK
<1>12. CASE RevokeFails(r)
  <2>1. req[r].token.family \in Families BY <1>2, <1>12 DEF RevokeFails, At, Shaped, Token
  <2>2. req' = Answered(r, 503, None) \/ req' = Answered(r, 500, None)
    BY <1>12 DEF RevokeFails
  <2>3. req' \in [Requests -> Request \cup {None}] /\ Shapes' BY <1>4, <2>2 DEF Statuses
  <2>4. QED BY <1>0, <1>12, <2>1, <2>3 DEF RevokeFails, Unlisted, TypeInv, TypeOK
<1>13. CASE Receive(r)
  <2>1. req' \in [Requests -> Request \cup {None}] /\ Shapes'
    BY <1>13, EndedTypes DEF Receive
  <2>2. jar' \in [Browsers -> Token \cup {None}] BY <1>0, <1>3, <1>13 DEF Receive, TypeOK
  <2>3. QED BY <1>0, <1>13, <2>1, <2>2 DEF Receive, TypeInv, TypeOK
<1>14. CASE Abort(r)
  <2>1. req' \in [Requests -> Request \cup {None}] /\ Shapes'
    BY <1>14, EndedTypes DEF Abort
  <2>2. QED BY <1>0, <1>14, <2>1 DEF Abort, TypeInv, TypeOK
<1>15. QED
  BY <1>5, <1>6, <1>7, <1>9, <1>10, <1>11, <1>12, <1>13, <1>14 DEF HandlerStep

LEMMA TypeStep == TypeInv /\ [Next]_vars => TypeInv'
<1>. SUFFICES ASSUME TypeInv, [Next]_vars PROVE TypeInv'
  OBVIOUS
<1>1. TypeOK /\ Shapes BY DEF TypeInv
<1>2. CASE Tick
  BY <1>1, <1>2 DEF Tick, TypeInv, TypeOK, Shapes, Shaped
<1>3. CASE \E f \in Families : EvictLru(f)
  BY <1>1, <1>3 DEF EvictLru, TypeInv, TypeOK, Shapes, Shaped
<1>4. CASE UNCHANGED vars
  BY <1>1, <1>4 DEF vars, TypeInv, TypeOK, Shapes, Shaped
<1>5. QED BY <1>2, <1>3, <1>4, ClientTypes, HandlerTypes DEF Next

\* The type invariant of the sessions: cookies in a jar, tokens presented and the
\* allowlist's entries are always well formed, whatever fails half-way.
THEOREM SessionTypes == Spec => []TypeOK
<1>1. TypeInv => TypeOK BY DEF TypeInv
<1>2. QED BY TypeInit, TypeStep, <1>1, PTL DEF Spec
-----------------------------------------------------------------------------
\* The invariant behind the two safety properties. A token in the hands of a
\* browser or a handler belongs to a family already issued; a token whose SET is
\* still to come belongs to a family nobody else has.
Shown == HandedOut \cap Token
Storing(r) == At(r, "store")

FamiliesIssued ==
    /\ \A token \in Shown : token.family <= issued
    /\ \A r \in Requests : Storing(r) => req[r].cookie.family <= issued
    /\ \A f \in loggedOut : f <= issued

Fresh ==
    \A r \in Requests : Storing(r) =>
        /\ req[r].cookie.exp <= now + RefreshTtl
        /\ \A token \in Shown : token.family # req[r].cookie.family
        /\ \A q \in Requests \ {r} :
              Storing(q) => req[q].cookie.family # req[r].cookie.family

\* UnrevokedTokensWork, with the life of the entry.
EntriesLastLongEnough ==
    \A token \in Shown :
        now < token.exp /\ token.family \notin lost =>
            /\ store[token.family] # None
            /\ store[token.family].jti = token.jti
            /\ token.exp <= store[token.family].until

SessionInv ==
    FamiliesIssued /\ Fresh /\ EntriesLastLongEnough /\ LoggedOutStaysOut

LEMMA SessionInit == Init => SessionInv
<1>. SUFFICES ASSUME Init PROVE SessionInv OBVIOUS
<1>1. Shown = {} BY SessionsAssumption DEF Init, Shown, HandedOut, At
<1>2. QED
  BY <1>1 DEF Init, SessionInv, FamiliesIssued, Fresh, EntriesLastLongEnough,
              LoggedOutStaysOut, Storing, At

LEMMA ShownIs ==
    /\ \A t : t \in Shown <=>
          /\ t \in Token
          /\ \/ \E b \in Browsers : t = jar[b]
             \/ \E q \in Requests :
                   /\ req[q] # None
                   /\ \/ t = req[q].token
                      \/ req[q].stage = "answer" /\ t = req[q].cookie
    /\ \A t : t \in Shown' <=>
          /\ t \in Token
          /\ \/ \E b \in Browsers : t = jar'[b]
             \/ \E q \in Requests :
                   /\ req'[q] # None
                   /\ \/ t = req'[q].token
                      \/ req'[q].stage = "answer" /\ t = req'[q].cookie
BY DEF Shown, HandedOut, At

\* A step that changes one request shows no token but those in its answer, and
\* adds no SET to those that are still to come.
LEMMA RequestMoves ==
    ASSUME TypeInv, NEW r \in Requests, NEW record, NEW extra,
           req' = [req EXCEPT ![r] = record], jar' = jar,
           record # None => /\ record.token \in Shown \cup {None}
                            /\ record.stage # "store"
                            /\ record.stage = "answer" =>
                                  record.cookie \in extra \cup {None, Clear}
    PROVE  /\ Shown' \subseteq Shown \cup extra
           /\ \A q \in Requests : Storing(q)' =>
                  q # r /\ Storing(q) /\ req'[q].cookie = req[q].cookie
<1>. USE SessionsAssumption
<1>1. /\ req' = [req EXCEPT ![r] = record]
      /\ \A q \in Requests \ {r} : req'[q] = req[q]
      /\ req'[r] = record
  BY DEF TypeInv, TypeOK
<1>2. ASSUME NEW t \in Shown' PROVE t \in Shown \cup extra
  <2>1. t \in Token /\ t # None /\ t # Clear BY ShownIs, ClearIsNoToken
  <2>2. CASE \E b \in Browsers : t = jar'[b]
    BY <2>1, <2>2, ShownIs
  <2>3. CASE \E q \in Requests : /\ req'[q] # None
                                  /\ \/ t = req'[q].token
                                     \/ req'[q].stage = "answer" /\ t = req'[q].cookie
    <3>1. PICK q \in Requests : /\ req'[q] # None
                                 /\ \/ t = req'[q].token
                                    \/ req'[q].stage = "answer" /\ t = req'[q].cookie
      BY <2>3
    <3>2. CASE q = r BY <1>1, <2>1, <3>1, <3>2
    <3>3. CASE q # r BY <1>1, <2>1, <3>1, <3>3, ShownIs
    <3>4. QED BY <3>2, <3>3
  <2>4. QED BY <1>2, <2>2, <2>3, ShownIs
<1>3. QED BY <1>1, <1>2 DEF Storing, At

\* Such a step keeps the families apart, whatever it does to the allowlist.
LEMMA FamiliesKept ==
    ASSUME FamiliesIssued, Fresh, TypeInv,
           Shown' \subseteq Shown,
           \A q \in Requests : Storing(q)' => Storing(q) /\ req'[q].cookie = req[q].cookie,
           issued' = issued, now' \in {now, now + 1},
           \A f \in loggedOut' : f <= issued
    PROVE  FamiliesIssued' /\ Fresh'
<1>1. FamiliesIssued' BY DEF FamiliesIssued
<1>2. now \in Nat /\ RefreshTtl \in Nat BY SessionsAssumption DEF TypeInv, TypeOK
<1>3. ASSUME NEW q \in Requests, Storing(q)'
      PROVE  /\ req'[q].cookie.exp <= now' + RefreshTtl
             /\ \A token \in Shown' : token.family # req'[q].cookie.family
             /\ \A p \in Requests \ {q} :
                   Storing(p)' => req'[p].cookie.family # req'[q].cookie.family
  <2>1. Storing(q) /\ req'[q].cookie = req[q].cookie BY <1>3
  <2>2. req[q].cookie.exp \in Nat
    <3>1. req[q].cookie \in Token BY <2>1 DEF Storing, At, TypeInv, Shapes, Shaped
    <3>2. QED BY <3>1 DEF Token
  <2>3. req[q].cookie.exp <= now + RefreshTtl BY <2>1 DEF Fresh
  <2>4. QED BY <1>2, <2>1, <2>2, <2>3 DEF Fresh
<1>4. QED BY <1>1, <1>3 DEF Fresh

LEMMA EntriesKept ==
    ASSUME EntriesLastLongEnough, Shown' \subseteq Shown, now' = now,
           lost \subseteq lost',
           \A token \in Shown : token.family \notin lost' =>
                store'[token.family] = store[token.family]
    PROVE  EntriesLastLongEnough'
BY DEF EntriesLastLongEnough

LEMMA LogoutKept ==
    ASSUME LoggedOutStaysOut, loggedOut' = loggedOut,
           \A q \in Requests : Storing(q)' => Storing(q) /\ req'[q].cookie = req[q].cookie,
           \A f \in loggedOut : store[f] = None => store'[f] = None
    PROVE  LoggedOutStaysOut'
BY DEF LoggedOutStaysOut, Storing

\* A step that leaves the allowlist and the history alone, and shows no new token.
LEMMA NothingShown ==
    ASSUME TypeInv, SessionInv, Shown' \subseteq Shown,
           \A q \in Requests : Storing(q)' => Storing(q) /\ req'[q].cookie = req[q].cookie,
           UNCHANGED <<now, store, issued, loggedOut, lost>>
    PROVE  SessionInv'
<1>1. FamiliesIssued /\ Fresh /\ EntriesLastLongEnough /\ LoggedOutStaysOut
  BY DEF SessionInv
<1>2. FamiliesIssued' /\ Fresh'
  <2>1. \A f \in loggedOut' : f <= issued BY <1>1 DEF FamiliesIssued
  <2>2. QED BY <1>1, <2>1, FamiliesKept
<1>3. EntriesLastLongEnough' BY <1>1, EntriesKept
<1>4. LoggedOutStaysOut' BY <1>1, LogoutKept
<1>5. QED BY <1>2, <1>3, <1>4 DEF SessionInv

-----------------------------------------------------------------------------
LEMMA SessionClient ==
    ASSUME TypeInv, SessionInv, NEW r \in Requests, NEW b \in Browsers,
           (\E u \in Users : SignIn(r, b, u)) \/ Refresh(r, b) \/ Logout(r, b)
    PROVE  SessionInv'
<1>1. jar[b] # None => jar[b] \in Shown BY ShownIs DEF TypeInv, TypeOK
<1>2. UNCHANGED <<now, store, jar, issued, rotated, loggedOut, lost>>
  BY DEF SignIn, Refresh, Logout
<1>3. ASSUME NEW record, req' = [req EXCEPT ![r] = record],
             record.token \in Shown \cup {None}, record.stage # "store",
             record.stage = "answer" => record.cookie = Clear
      PROVE  SessionInv'
  <2>1. /\ Shown' \subseteq Shown \cup {}
        /\ \A q \in Requests : Storing(q)' =>
               q # r /\ Storing(q) /\ req'[q].cookie = req[q].cookie
    BY <1>2, <1>3, RequestMoves
  <2>2. QED BY <1>2, <2>1, NothingShown
<1>. DEFINE new(op, stage, u, token, cookie, status) ==
              [op |-> op, stage |-> stage, browser |-> b, user |-> u, token |-> token,
               cookie |-> cookie, status |-> status]
<1>4. ASSUME NEW u \in Users, SignIn(r, b, u) PROVE SessionInv'
  <2>. DEFINE x == new("signin", "issue", u, None, None, None)
  <2>1. req' = [req EXCEPT ![r] = x] BY <1>4 DEF SignIn, Begin
  <2>2. x.token = None /\ x.stage = "issue" OBVIOUS
  <2>. HIDE DEF x
  <2>3. QED BY <1>3, <2>1, <2>2
<1>5. ASSUME Refresh(r, b) PROVE SessionInv'
  <2>. DEFINE x == new("refresh", "check", jar[b].user, jar[b], None, None)
  <2>1. req' = [req EXCEPT ![r] = x] BY <1>5 DEF Refresh, Begin
  <2>2. x.token \in Shown /\ x.stage = "check" BY <1>1, <1>5 DEF Refresh
  <2>. HIDE DEF x
  <2>3. QED BY <1>3, <2>1, <2>2
<1>6. ASSUME Logout(r, b) PROVE SessionInv'
  <2>. DEFINE x == new("logout", "revoke", None, jar[b], None, None)
              y == new("logout", "answer", None, jar[b], Clear, 204)
  <2>1. req' = [req EXCEPT ![r] = x] \/ req' = [req EXCEPT ![r] = y]
    BY <1>6 DEF Logout, Begin
  <2>2. /\ x.token \in Shown \cup {None} /\ x.stage = "revoke"
        /\ y.token \in Shown \cup {None} /\ y.stage = "answer" /\ y.cookie = Clear
    BY <1>1
  <2>. HIDE DEF x, y
  <2>3. CASE req' = [req EXCEPT ![r] = x] BY <1>3, <2>2, <2>3
  <2>4. CASE req' = [req EXCEPT ![r] = y] BY <1>3, <2>2, <2>4
  <2>5. QED BY <2>1, <2>3, <2>4
<1>7. QED BY <1>4, <1>5, <1>6

\* What an answered request shows.
LEMMA AnswerShows ==
    ASSUME TypeInv, NEW r \in Requests, req[r] # None, NEW status, NEW cookie,
           req' = Answered(r, status, cookie), jar' = jar
    PROVE  /\ Shown' \subseteq Shown \cup {cookie}
           /\ cookie \in {None, Clear} => Shown' \subseteq Shown
           /\ \A q \in Requests : Storing(q)' =>
                  q # r /\ Storing(q) /\ req'[q].cookie = req[q].cookie
<1>1. req[r] \in Request BY DEF TypeInv, TypeOK
<1>. DEFINE x == [[[req[r] EXCEPT !.stage = "answer"] EXCEPT !.status = status]
                     EXCEPT !.cookie = cookie]
<1>2. req' = [req EXCEPT ![r] = x] BY DEF Answered, TypeInv, TypeOK
<1>3. /\ x.token = req[r].token /\ x.stage = "answer" /\ x.cookie = cookie
  BY <1>1 DEF Request
<1>4. req[r].token \in Shown \cup {None} BY <1>1, ShownIs DEF Request
<1>5. /\ Shown' \subseteq Shown \cup {cookie}
      /\ \A q \in Requests : Storing(q)' =>
             q # r /\ Storing(q) /\ req'[q].cookie = req[q].cookie
  <2>. HIDE DEF x
  <2>1. QED BY <1>2, <1>3, <1>4, RequestMoves
<1>6. \A t \in Shown' : t # None /\ t # Clear
  BY ShownIs, ClearIsNoToken, SessionsAssumption
<1>7. QED BY <1>5, <1>6

\* The SET of a token whose family nobody else has: other families keep their
\* entries, and the token's own entry outlives it.
LEMMA StoreKeeps ==
    ASSUME TypeInv, SessionInv, NEW r \in Requests, Storing(r), store' = Listed(r)
    PROVE  /\ req[r].cookie \in Token
           /\ \A token \in Shown : store'[token.family] = store[token.family]
           /\ \A f \in loggedOut : store'[f] = store[f]
           /\ store'[req[r].cookie.family] = [jti |-> req[r].cookie.jti,
                                             until |-> now + RefreshTtl]
           /\ req[r].cookie.exp <= now + RefreshTtl
<1>1. req[r].cookie \in Token BY DEF Storing, At, TypeInv, Shapes, Shaped
<1>2. req[r].cookie.family \in Families BY <1>1 DEF Token
<1>3. \A f \in Families : f # req[r].cookie.family => store'[f] = store[f]
  BY DEF Listed, TypeInv, TypeOK
<1>4. \A token \in Shown : token.family # req[r].cookie.family /\ token.family \in Families
  BY DEF SessionInv, Fresh, Shown, Token
<1>5. \A f \in loggedOut : f # req[r].cookie.family /\ f \in Families
  BY DEF SessionInv, LoggedOutStaysOut, Storing, TypeInv, TypeOK
<1>6. store'[req[r].cookie.family] = [jti |-> req[r].cookie.jti, until |-> now + RefreshTtl]
  BY <1>2 DEF Listed, TypeInv, TypeOK
<1>7. req[r].cookie.exp <= now + RefreshTtl BY DEF SessionInv, Fresh
<1>8. QED BY <1>1, <1>3, <1>4, <1>5, <1>6, <1>7

LEMMA SessionIssue ==
    ASSUME TypeInv, SessionInv, NEW r \in Requests, Issue(r)
    PROVE  SessionInv'
<1>. USE SessionsAssumption
<1>0. TypeOK BY DEF TypeInv
<1>1. FamiliesIssued /\ Fresh /\ EntriesLastLongEnough /\ LoggedOutStaysOut
  BY DEF SessionInv
<1>2. req[r] # None /\ req[r] \in Request BY <1>0 DEF Issue, At, TypeOK
<1>3. /\ \A q \in Requests \ {r} : req'[q] = req[q]
      /\ req'[r].cookie = Mint(r) /\ req'[r].token = req[r].token
      /\ req'[r].stage = "store"
  <2>. DEFINE x == [[req[r] EXCEPT !.stage = "store"] EXCEPT !.cookie = Mint(r)]
  <2>1. req' = [req EXCEPT ![r] = x] BY <1>0 DEF Issue, TypeOK
  <2>2. x.cookie = Mint(r) /\ x.token = req[r].token /\ x.stage = "store"
    BY <1>2 DEF Request
  <2>. HIDE DEF x
  <2>3. QED BY <1>0, <2>1, <2>2 DEF TypeOK
<1>4. Shown' \subseteq Shown
  <2>. SUFFICES ASSUME NEW t \in Shown' PROVE t \in Shown OBVIOUS
  <2>1. t \in Token BY ShownIs
  <2>2. CASE \E b \in Browsers : t = jar'[b] BY <2>1, <2>2, ShownIs DEF Issue
  <2>3. CASE \E q \in Requests : /\ req'[q] # None
                                  /\ \/ t = req'[q].token
                                     \/ req'[q].stage = "answer" /\ t = req'[q].cookie
    BY <1>2, <1>3, <2>1, <2>3, ShownIs
  <2>4. QED BY <2>2, <2>3, ShownIs
<1>5. \A q \in Requests \ {r} : Storing(q)' => Storing(q) /\ req'[q].cookie = req[q].cookie
  BY <1>3 DEF Storing, At
<1>6. issued \in Nat /\ issued' = issued + 1 /\ now \in Nat /\ now' = now
      /\ store' = store /\ lost' = lost /\ loggedOut' = loggedOut
  BY <1>0 DEF Issue, TypeOK
<1>7. Mint(r).family = issued + 1 /\ Mint(r).exp = now + RefreshTtl BY DEF Mint
<1>8. \A token \in Shown : token.family \in Nat /\ token.family <= issued
  BY <1>1 DEF FamiliesIssued, Shown, Token, Families
<1>9. \A q \in Requests : Storing(q) => req[q].cookie.family \in Nat
                                        /\ req[q].cookie.family <= issued
  <2>. SUFFICES ASSUME NEW q \in Requests, Storing(q)
                PROVE  req[q].cookie.family \in Nat /\ req[q].cookie.family <= issued
    OBVIOUS
  <2>1. req[q].cookie \in Token BY DEF Storing, At, TypeInv, Shapes, Shaped
  <2>2. QED BY <1>1, <2>1 DEF FamiliesIssued, Token, Families
<1>10. \A f \in loggedOut : f \in Nat /\ f <= issued
  BY <1>0, <1>1 DEF FamiliesIssued, TypeOK, Families
<1>11. FamiliesIssued'
  <2>1. \A token \in Shown' : token.family <= issued' BY <1>4, <1>6, <1>8
  <2>2. ASSUME NEW q \in Requests, Storing(q)' PROVE req'[q].cookie.family <= issued'
    <3>1. CASE q = r BY <1>3, <1>6, <1>7, <3>1
    <3>2. CASE q # r BY <1>5, <1>6, <1>9, <2>2, <3>2
    <3>3. QED BY <3>1, <3>2
  <2>3. \A f \in loggedOut' : f <= issued' BY <1>6, <1>10
  <2>4. QED BY <2>1, <2>2, <2>3 DEF FamiliesIssued
<1>12. Fresh'
  <2>1. ASSUME NEW q \in Requests, Storing(q)'
        PROVE  /\ req'[q].cookie.exp <= now' + RefreshTtl
               /\ \A token \in Shown' : token.family # req'[q].cookie.family
               /\ \A p \in Requests \ {q} :
                     Storing(p)' => req'[p].cookie.family # req'[q].cookie.family
    <3>1. CASE q = r
      <4>1. \A token \in Shown' : token.family # issued + 1 BY <1>4, <1>6, <1>8
      <4>2. \A p \in Requests \ {r} : Storing(p)' => req'[p].cookie.family # issued + 1
        BY <1>5, <1>6, <1>9
      <4>3. QED BY <1>3, <1>6, <1>7, <3>1, <4>1, <4>2
    <3>2. CASE q # r
      <4>1. Storing(q) /\ req'[q].cookie = req[q].cookie BY <1>5, <2>1, <3>2
      <4>2. req[q].cookie.family # issued + 1 BY <1>6, <1>9, <4>1
      <4>3. ASSUME NEW p \in Requests \ {q}, Storing(p)'
            PROVE  req'[p].cookie.family # req'[q].cookie.family
        <5>1. CASE p = r BY <1>3, <1>7, <4>1, <4>2, <5>1
        <5>2. CASE p # r BY <1>1, <1>5, <4>1, <4>3, <5>2 DEF Fresh
        <5>3. QED BY <5>1, <5>2
      <4>4. QED BY <1>1, <1>4, <1>6, <4>1, <4>3 DEF Fresh
    <3>3. QED BY <3>1, <3>2
  <2>2. QED BY <2>1 DEF Fresh
<1>13. EntriesLastLongEnough' BY <1>1, <1>4, <1>6, EntriesKept
<1>14. LoggedOutStaysOut'
  <2>1. ASSUME NEW f \in loggedOut, NEW q \in Requests, Storing(q)'
        PROVE  req'[q].cookie.family # f
    <3>1. CASE q = r BY <1>3, <1>6, <1>7, <1>10, <3>1
    <3>2. CASE q # r BY <1>1, <1>5, <2>1, <3>2 DEF LoggedOutStaysOut, Storing
    <3>3. QED BY <3>1, <3>2
  <2>2. QED BY <1>1, <1>6, <2>1 DEF LoggedOutStaysOut, Storing
<1>15. QED BY <1>11, <1>12, <1>13, <1>14 DEF SessionInv

LEMMA SessionStore ==
    ASSUME TypeInv, SessionInv, NEW r \in Requests, StoreDone(r) \/ StoreFails(r)
    PROVE  SessionInv'
<1>. USE SessionsAssumption
<1>0. TypeOK BY DEF TypeInv
<1>1. FamiliesIssued /\ Fresh /\ EntriesLastLongEnough /\ LoggedOutStaysOut
  BY DEF SessionInv
<1>2. Storing(r) /\ req[r] # None BY DEF StoreDone, StoreFails, Storing, At
<1>3. UNCHANGED <<now, jar, issued, loggedOut, lost>> BY DEF StoreDone, StoreFails
<1>4. req[r].cookie \in Token BY <1>2 DEF Storing, At, TypeInv, Shapes, Shaped
<1>5. CASE StoreDone(r)
  <2>. DEFINE cookie == req[r].cookie
  <2>1. \E status \in {200, 500} : req' = Answered(r, status, cookie)
    BY <1>5 DEF StoreDone
  <2>2. /\ Shown' \subseteq Shown \cup {cookie}
        /\ \A q \in Requests : Storing(q)' =>
               q # r /\ Storing(q) /\ req'[q].cookie = req[q].cookie
    BY <1>2, <1>3, <2>1, AnswerShows
  <2>3. /\ \A token \in Shown : store'[token.family] = store[token.family]
        /\ \A f \in loggedOut : store'[f] = store[f]
        /\ store'[cookie.family] = [jti |-> cookie.jti, until |-> now + RefreshTtl]
        /\ cookie.exp <= now + RefreshTtl
    BY <1>2, <1>5, StoreKeeps DEF StoreDone
  <2>4. FamiliesIssued'
    <3>1. cookie.family <= issued BY <1>1, <1>2 DEF FamiliesIssued
    <3>2. QED BY <1>1, <1>3, <2>2, <3>1 DEF FamiliesIssued
  <2>5. Fresh'
    <3>1. ASSUME NEW q \in Requests, Storing(q)'
          PROVE  /\ req'[q].cookie.exp <= now' + RefreshTtl
                 /\ \A token \in Shown' : token.family # req'[q].cookie.family
                 /\ \A p \in Requests \ {q} :
                       Storing(p)' => req'[p].cookie.family # req'[q].cookie.family
      <4>1. q # r /\ Storing(q) /\ req'[q].cookie = req[q].cookie BY <2>2, <3>1
      <4>2. cookie.family # req[q].cookie.family BY <1>1, <1>2, <4>1 DEF Fresh
      <4>3. \A token \in Shown' : token.family # req'[q].cookie.family
        BY <1>1, <2>2, <4>1, <4>2 DEF Fresh
      <4>4. QED BY <1>1, <1>3, <2>2, <4>1, <4>3 DEF Fresh
    <3>2. QED BY <3>1 DEF Fresh
  <2>6. EntriesLastLongEnough'
    <3>1. store'[cookie.family] # None
      <4>1. [jti |-> cookie.jti, until |-> now + RefreshTtl] \in Allowed
        BY <1>0, <1>4 DEF TypeOK, Allowed, Token
      <4>2. QED BY <2>3, <4>1
    <3>2. /\ store'[cookie.family].jti = cookie.jti
          /\ cookie.exp <= store'[cookie.family].until
      BY <2>3
    <3>3. ASSUME NEW token \in Shown', now' < token.exp, token.family \notin lost'
          PROVE  /\ store'[token.family] # None
                 /\ store'[token.family].jti = token.jti
                 /\ token.exp <= store'[token.family].until
      <4>1. CASE token = cookie BY <3>1, <3>2, <4>1
      <4>2. CASE token \in Shown BY <1>1, <1>3, <2>3, <3>3, <4>2 DEF EntriesLastLongEnough
      <4>3. QED BY <2>2, <3>3, <4>1, <4>2
    <3>4. QED BY <3>3 DEF EntriesLastLongEnough
  <2>7. LoggedOutStaysOut' BY <1>1, <1>3, <2>2, <2>3, LogoutKept
  <2>8. QED BY <2>4, <2>5, <2>6, <2>7 DEF SessionInv
<1>6. CASE StoreFails(r)
  <2>1. req' = Answered(r, 500, None) BY <1>6 DEF StoreFails, StoreRefused
  <2>2. /\ Shown' \subseteq Shown
        /\ \A q \in Requests : Storing(q)' =>
               q # r /\ Storing(q) /\ req'[q].cookie = req[q].cookie
    BY <1>2, <1>3, <2>1, AnswerShows
  <2>3. /\ \A token \in Shown : store'[token.family] = store[token.family]
        /\ \A f \in loggedOut : store'[f] = store[f]
    BY <1>2, <1>6, StoreKeeps DEF StoreFails
  <2>4. FamiliesIssued' /\ Fresh'
    <3>1. \A f \in loggedOut' : f <= issued BY <1>1, <1>3 DEF FamiliesIssued
    <3>2. QED BY <1>1, <1>3, <2>2, <3>1, FamiliesKept
  <2>5. EntriesLastLongEnough' BY <1>1, <1>3, <2>2, <2>3, EntriesKept
  <2>6. LoggedOutStaysOut' BY <1>1, <1>3, <2>2, <2>3, LogoutKept
  <2>7. QED BY <2>4, <2>5, <2>6 DEF SessionInv
<1>7. QED BY <1>5, <1>6

LEMMA SessionRevoke ==
    ASSUME TypeInv, SessionInv, NEW r \in Requests, RevokeDone(r) \/ RevokeFails(r)
    PROVE  SessionInv'
<1>. USE SessionsAssumption
<1>0. TypeOK BY DEF TypeInv
<1>1. FamiliesIssued /\ Fresh /\ EntriesLastLongEnough /\ LoggedOutStaysOut
  BY DEF SessionInv
<1>2. req[r] # None /\ At(r, "revoke") BY DEF RevokeDone, RevokeFails, At
<1>. DEFINE family == req[r].token.family
<1>3. req[r].token \in Token BY <1>2 DEF At, TypeInv, Shapes, Shaped
<1>4. req[r].token \in Shown /\ family \in Families BY <1>2, <1>3, ShownIs DEF Token
<1>5. UNCHANGED <<now, jar, issued>> BY DEF RevokeDone, RevokeFails
<1>6. \E status, cookie : cookie \in {None, Clear} /\ req' = Answered(r, status, cookie)
  BY DEF RevokeDone, RevokeFails
<1>7. /\ Shown' \subseteq Shown
      /\ \A q \in Requests : Storing(q)' =>
             q # r /\ Storing(q) /\ req'[q].cookie = req[q].cookie
  BY <1>2, <1>5, <1>6, AnswerShows
<1>8. /\ lost \subseteq lost'
      /\ \/ store' = store
         \/ store' = [store EXCEPT ![family] = None] /\ family \in lost'
      /\ \/ loggedOut' = loggedOut
         \/ /\ loggedOut' = loggedOut \cup {family}
            /\ store' = [store EXCEPT ![family] = None]
  BY DEF RevokeDone, RevokeFails, Unlisted
<1>9. FamiliesIssued' /\ Fresh'
  <2>1. family <= issued BY <1>1, <1>4 DEF FamiliesIssued
  <2>2. \A f \in loggedOut' : f <= issued BY <1>1, <1>8, <2>1 DEF FamiliesIssued
  <2>3. QED BY <1>1, <1>5, <1>7, <2>2, FamiliesKept
<1>10. EntriesLastLongEnough'
  <2>1. \A token \in Shown : token.family \notin lost' =>
            store'[token.family] = store[token.family]
    BY <1>0, <1>8 DEF TypeOK, Shown, Token
  <2>2. QED BY <1>1, <1>5, <1>7, <1>8, <2>1, EntriesKept
<1>11. LoggedOutStaysOut'
  <2>1. \A f \in Families : store[f] = None => store'[f] = None
    BY <1>0, <1>8 DEF TypeOK
  <2>2. CASE loggedOut' = loggedOut
    <3>1. \A f \in loggedOut : store[f] = None => store'[f] = None
      BY <1>0, <2>1 DEF TypeOK
    <3>2. QED BY <1>1, <1>7, <2>2, <3>1, LogoutKept
  <2>3. CASE /\ loggedOut' = loggedOut \cup {family}
             /\ store' = [store EXCEPT ![family] = None]
    <3>1. \A q \in Requests : Storing(q) => req[q].cookie.family # family
      BY <1>1, <1>4 DEF Fresh
    <3>2. store'[family] = None BY <1>0, <1>4, <2>3 DEF TypeOK
    <3>3. \A f \in loggedOut : store'[f] = None
      BY <1>0, <1>1, <2>1 DEF LoggedOutStaysOut, TypeOK
    <3>4. QED BY <1>1, <1>7, <2>3, <3>1, <3>2, <3>3 DEF LoggedOutStaysOut, Storing
  <2>4. QED BY <1>8, <2>2, <2>3
<1>12. QED BY <1>9, <1>10, <1>11 DEF SessionInv

LEMMA SessionHandler ==
    ASSUME TypeInv, SessionInv, NEW r \in Requests, HandlerStep(r) \/ Abort(r)
    PROVE  SessionInv'
<1>. USE SessionsAssumption
<1>0. TypeOK BY DEF TypeInv
<1>1. CASE Check(r)
  <2>1. req[r] # None /\ req[r] \in Request BY <1>0, <1>1 DEF Check, At, TypeOK
  <2>2. UNCHANGED <<now, store, jar, issued, loggedOut, lost>> BY <1>1 DEF Check
  <2>3. CASE \E status : req' = Answered(r, status, None)
    BY <2>1, <2>2, <2>3, AnswerShows, NothingShown
  <2>4. CASE \E stage \in {"issue", "revoke"} : req' = [req EXCEPT ![r].stage = stage]
    <3>1. PICK stage \in {"issue", "revoke"} : req' = [req EXCEPT ![r].stage = stage]
      BY <2>4
    <3>. DEFINE x == [req[r] EXCEPT !.stage = stage]
    <3>2. x.token = req[r].token /\ x.stage = stage BY <2>1 DEF Request
    <3>3. req' = [req EXCEPT ![r] = x] BY <1>0, <3>1 DEF TypeOK
    <3>4. req[r].token \in Shown \cup {None} BY <2>1, ShownIs DEF Request
    <3>. HIDE DEF x
    <3>5. /\ Shown' \subseteq Shown \cup {}
          /\ \A q \in Requests : Storing(q)' =>
                 q # r /\ Storing(q) /\ req'[q].cookie = req[q].cookie
      BY <2>2, <3>2, <3>3, <3>4, RequestMoves
    <3>6. QED BY <2>2, <3>5, NothingShown
  <2>5. QED BY <1>1, <2>3, <2>4 DEF Check
<1>2. CASE Issue(r) BY <1>2, SessionIssue
<1>3. CASE IssueFails(r)
  <2>1. req[r] # None /\ req' = Answered(r, 500, None) BY <1>3 DEF IssueFails, At
  <2>2. UNCHANGED <<now, store, jar, issued, loggedOut, lost>> BY <1>3 DEF IssueFails
  <2>3. QED BY <2>1, <2>2, AnswerShows, NothingShown
<1>4. CASE StoreDone(r) \/ StoreFails(r) BY <1>4, SessionStore
<1>5. CASE RevokeDone(r) \/ RevokeFails(r) BY <1>5, SessionRevoke
<1>6. CASE Receive(r) \/ Abort(r)
  <2>1. /\ req' = [req EXCEPT ![r] = None] /\ req[r] # None
        /\ UNCHANGED <<now, store, issued, loggedOut, lost>>
        /\ \A b \in Browsers : \/ jar'[b] \in {jar[b], None}
                              \/ /\ jar'[b] = req[r].cookie
                                 /\ req[r].stage = "answer"
    BY <1>0, <1>6 DEF Receive, Abort, At, TypeOK
  <2>2. \A q \in Requests : q # r => req'[q] = req[q] BY <1>0, <2>1 DEF TypeOK
  <2>3. req'[r] = None BY <1>0, <2>1 DEF TypeOK
  <2>4. Shown' \subseteq Shown
    <3>. SUFFICES ASSUME NEW t \in Shown' PROVE t \in Shown OBVIOUS
    <3>1. t \in Token BY ShownIs
    <3>2. CASE \E b \in Browsers : t = jar'[b] BY <2>1, <3>1, <3>2, ShownIs
    <3>3. CASE \E q \in Requests : /\ req'[q] # None
                                    /\ \/ t = req'[q].token
                                       \/ req'[q].stage = "answer" /\ t = req'[q].cookie
      BY <2>2, <2>3, <3>1, <3>3, ShownIs
    <3>4. QED BY <3>2, <3>3, ShownIs
  <2>5. \A q \in Requests : Storing(q)' => Storing(q) /\ req'[q].cookie = req[q].cookie
    BY <2>2, <2>3 DEF Storing, At
  <2>6. QED BY <2>1, <2>4, <2>5, NothingShown
<1>7. QED BY <1>1, <1>2, <1>3, <1>4, <1>5, <1>6 DEF HandlerStep

LEMMA SessionStep == TypeInv /\ SessionInv /\ [Next]_vars => SessionInv'
<1>. SUFFICES ASSUME TypeInv, SessionInv, [Next]_vars PROVE SessionInv'
  OBVIOUS
<1>. USE SessionsAssumption
<1>0. TypeOK BY DEF TypeInv
<1>1. FamiliesIssued /\ Fresh /\ EntriesLastLongEnough /\ LoggedOutStaysOut
  BY DEF SessionInv
<1>2. ASSUME UNCHANGED <<jar, req>>
      PROVE  /\ Shown' \subseteq Shown
             /\ \A q \in Requests : Storing(q)' =>
                    Storing(q) /\ req'[q].cookie = req[q].cookie
  BY <1>2 DEF Shown, HandedOut, Storing, At
<1>3. CASE Tick
  <2>1. FamiliesIssued' /\ Fresh'
    <3>1. \A f \in loggedOut' : f <= issued BY <1>1, <1>3 DEF Tick, FamiliesIssued
    <3>2. QED BY <1>1, <1>2, <1>3, <3>1, FamiliesKept DEF Tick
  <2>2. EntriesLastLongEnough'
    <3>1. ASSUME NEW token \in Shown', now' < token.exp, token.family \notin lost'
          PROVE  /\ store'[token.family] # None
                 /\ store'[token.family].jti = token.jti
                 /\ token.exp <= store'[token.family].until
      <4>1. token \in Shown /\ now' = now + 1 /\ now \in Nat /\ lost' = lost
        BY <1>0, <1>2, <1>3 DEF Tick, TypeOK
      <4>2. token.exp \in Nat /\ token.family \in Families BY <4>1 DEF Shown, Token
      <4>3. now < token.exp BY <3>1, <4>1, <4>2
      <4>4. /\ store[token.family] # None
            /\ store[token.family].jti = token.jti
            /\ token.exp <= store[token.family].until
        BY <1>1, <3>1, <4>1, <4>3 DEF EntriesLastLongEnough
      <4>5. store[token.family].until \in Nat
        BY <1>0, <4>2, <4>4 DEF TypeOK, Allowed
      <4>6. ~(store[token.family].until <= now + 1) BY <3>1, <4>1, <4>2, <4>4, <4>5
      <4>7. store'[token.family] = store[token.family] BY <1>3, <4>2, <4>6 DEF Tick
      <4>8. QED BY <4>4, <4>7
    <3>2. QED BY <3>1 DEF EntriesLastLongEnough
  <2>3. LoggedOutStaysOut'
    <3>1. \A f \in loggedOut : store[f] = None => store'[f] = None
      BY <1>0, <1>3 DEF Tick, TypeOK
    <3>2. QED BY <1>1, <1>2, <1>3, <3>1, LogoutKept DEF Tick
  <2>4. QED BY <2>1, <2>2, <2>3 DEF SessionInv
<1>4. CASE \E f \in Families : EvictLru(f)
  <2>1. PICK f \in Families : EvictLru(f) BY <1>4
  <2>2. FamiliesIssued' /\ Fresh'
    <3>1. \A g \in loggedOut' : g <= issued BY <1>1, <2>1 DEF EvictLru, FamiliesIssued
    <3>2. QED BY <1>1, <1>2, <2>1, <3>1, FamiliesKept DEF EvictLru
  <2>3. EntriesLastLongEnough'
    <3>1. \A token \in Shown : token.family \notin lost' =>
              store'[token.family] = store[token.family]
      BY <1>0, <2>1 DEF EvictLru, TypeOK, Shown, Token
    <3>2. QED BY <1>1, <1>2, <2>1, <3>1, EntriesKept DEF EvictLru
  <2>4. LoggedOutStaysOut'
    <3>1. \A g \in loggedOut : store[g] = None => store'[g] = None
      BY <1>0, <2>1 DEF EvictLru, TypeOK
    <3>2. QED BY <1>1, <1>2, <2>1, <3>1, LogoutKept DEF EvictLru
  <2>5. QED BY <2>2, <2>3, <2>4 DEF SessionInv
<1>5. CASE UNCHANGED vars
  BY <1>2, <1>5, NothingShown DEF vars
<1>6. QED BY <1>3, <1>4, <1>5, SessionClient, SessionHandler DEF Next

LEMMA SessionInvariant == Spec => [](TypeInv /\ SessionInv)
<1>1. Init => TypeInv /\ SessionInv BY TypeInit, SessionInit
<1>2. TypeInv /\ SessionInv /\ [Next]_vars => (TypeInv /\ SessionInv)'
  BY TypeStep, SessionStep
<1>3. QED BY <1>1, <1>2, PTL DEF Spec

\* A token that was handed out is the one the allowlist names until it expires,
\* is logged out or its entry is evicted, for every interleaving of rotations,
\* lost responses and Redis errors in rotateRefresh and issueTokens.
THEOREM TokensWork == Spec => []UnrevokedTokensWork
<1>1. SessionInv => UnrevokedTokensWork
  BY DEF SessionInv, EntriesLastLongEnough, UnrevokedTokensWork, Shown
<1>2. QED BY SessionInvariant, <1>1, PTL

\* A family whose logout was answered with 204 has no entry ever after.
THEOREM LogoutIsFinal == Spec => []LoggedOutStaysOut
<1>1. SessionInv => LoggedOutStaysOut BY DEF SessionInv
<1>2. QED BY SessionInvariant, <1>1, PTL
=============================================================================
