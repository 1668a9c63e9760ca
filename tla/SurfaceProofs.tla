------------------------------ MODULE SurfaceProofs ------------------------------
(***************************************************************************)
(* Theorems about the components at the edge of the system, for every set  *)
(* of accounts, links, keys, requests and tokens: the sign-in with GitHub, *)
(* what the pages of the web client show, the statistics of a link, and    *)
(* the reasons that answers carry.                                         *)
(*                                                                         *)
(* Each component has its inductive invariant, what starts it and what     *)
(* keeps it; the last part puts them side by side, as MCSurface does.      *)
(***************************************************************************)
EXTENDS MCSurface, WellFoundedInduction, FiniteSetTheorems, TLAPS

Cache == INSTANCE QueryCache

-----------------------------------------------------------------------------
(* The queries of the pages.                                               *)

\* What the operations on a query return.
LEMMA QueryTypes ==
    ASSUME NEW Data, NEW q \in Cache!Queries(Data), NEW d \in Data \cup {None}
    PROVE  /\ Cache!Cold \in Cache!Queries(Data)
           /\ Cache!Ask(q) \in Cache!Queries(Data)
           /\ Cache!Answer(q) \in Cache!Queries(Data) /\ Cache!Fail(q) \in Cache!Queries(Data)
           /\ Cache!Read(q, d) \in Cache!Queries(Data)
           /\ Cache!Mount(q) \in Cache!Queries(Data)
           /\ Cache!Invalidate(q) \in Cache!Queries(Data)
<1>1. Cache!Cold \in Cache!Queries(Data) BY DEF Cache!Cold, Cache!Queries, Cache!Retries
<1>. DEFINE idle(e, f) == [[[[[q EXCEPT !.data = e] EXCEPT !.failed = f]
                                EXCEPT !.phase = "idle"] EXCEPT !.got = None]
                                EXCEPT !.tries = 0]
            sent(f, n) == [[[[q EXCEPT !.failed = f] EXCEPT !.phase = "asked"]
                              EXCEPT !.got = None] EXCEPT !.tries = n]
<1>a. ASSUME NEW e \in Data \cup {None}, NEW f \in BOOLEAN
      PROVE  idle(e, f) \in Cache!Queries(Data)
  <2>. DEFINE x == [q EXCEPT !.data = e]
              y == [[x EXCEPT !.failed = f] EXCEPT !.phase = "idle"]
  <2>1. x \in Cache!Queries(Data) BY DEF Cache!Queries
  <2>. HIDE DEF x
  <2>2. y \in Cache!Queries(Data) BY <2>1 DEF Cache!Queries
  <2>. HIDE DEF y
  <2>. DEFINE z == [y EXCEPT !.got = None]
  <2>3. z \in Cache!Queries(Data) BY <2>2 DEF Cache!Queries
  <2>. HIDE DEF z
  <2>4. [z EXCEPT !.tries = 0] \in Cache!Queries(Data)
    BY <2>3 DEF Cache!Queries, Cache!Retries
  <2>5. QED BY <2>4 DEF x, y, z
<1>b. \A f \in BOOLEAN, n \in 0 .. 1 : sent(f, n) \in Cache!Queries(Data)
  BY DEF Cache!Queries, Cache!Retries
<1>c. q.data \in Data \cup {None} /\ q.got \in Data \cup {None} /\ q.failed \in BOOLEAN
      /\ q.tries \in 0 .. 1
  BY DEF Cache!Queries, Cache!Retries
<1>2. Cache!Ask(q) \in Cache!Queries(Data)
  <2>. DEFINE f == q.failed /\ q.data # None
  <2>1. f \in BOOLEAN BY <1>c
  <2>. HIDE DEF sent
  <2>2. sent(f, 0) \in Cache!Queries(Data)
    <3>. HIDE DEF f
    <3>1. QED BY <1>b, <2>1
  <2>. USE DEF sent
  <2>3. Cache!Ask(q) = sent(f, 0) BY DEF Cache!Ask, Cache!Queries
  <2>4. QED BY <2>2, <2>3
<1>3. Cache!Answer(q) \in Cache!Queries(Data)
  <2>1. Cache!Answer(q) = idle(q.got, FALSE) BY DEF Cache!Answer, Cache!Queries
  <2>2. QED BY <1>a, <1>c, <2>1
<1>4. Cache!Fail(q) \in Cache!Queries(Data)
  <2>1. CASE q.tries < 1
    <3>1. Cache!Fail(q) = sent(q.failed, q.tries + 1)
      BY <2>1 DEF Cache!Fail, Cache!Retries, Cache!Queries
    <3>2. q.tries + 1 \in 0 .. 1 BY <1>c, <2>1
    <3>3. QED BY <1>b, <1>c, <3>1, <3>2
  <2>2. CASE ~(q.tries < 1)
    <3>1. Cache!Fail(q) = idle(q.data, TRUE)
      BY <2>2 DEF Cache!Fail, Cache!Retries, Cache!Queries
    <3>2. QED BY <1>a, <1>c, <3>1
  <2>3. QED BY <2>1, <2>2
<1>5. Cache!Read(q, d) \in Cache!Queries(Data) BY DEF Cache!Read, Cache!Queries
<1>6. QED BY <1>1, <1>2, <1>3, <1>4, <1>5 DEF Cache!Mount, Cache!Invalidate

LEMMA QueryResults ==
    ASSUME NEW Data, NEW q \in Cache!Queries(Data), NEW d \in Data \cup {None}
    PROVE  /\ Cache!Read(q, d).phase = "read" /\ Cache!Read(q, d).got = d
           /\ Cache!Ask(q).phase = "asked" /\ Cache!Ask(q).data = q.data
           /\ Cache!Answer(q).phase = "idle" /\ Cache!Answer(q).data = q.got
           /\ Cache!Fail(q).phase \in {"idle", "asked"}
           /\ Cache!Fail(q).phase = "idle" => Cache!Fail(q).failed
           /\ Cache!Mount(q).phase = "asked" \/ (Cache!Underway(q) /\ Cache!Mount(q) = q)
           /\ Cache!Mount(q).data = q.data
           /\ \/ Cache!Invalidate(q).phase = "asked"
              \/ Cache!IsLoading(q) /\ Cache!Invalidate(q) = q
<1>1. Cache!Ask(q).phase = "asked" /\ Cache!Ask(q).data = q.data BY DEF Cache!Ask, Cache!Queries
<1>2. QED
  BY <1>1
     DEF Cache!Read, Cache!Answer, Cache!Fail, Cache!Mount, Cache!Invalidate, Cache!Queries

-----------------------------------------------------------------------------
(* GithubSignIn.                                                           *)

LEMMA NoAnswer == None # "dashboard"
BY SignInAssumption

LEMMA LeastIndex ==
    ASSUME NEW I \in SUBSET Nat, I # {}
    PROVE  Min(I) \in I
<1>. DEFINE R == OpToRel(<, Nat)
<1>1. IsWellFoundedOn(R, Nat) BY NatLessThanWellFounded
<1>2. \A i, j \in Nat : j < i => <<j, i>> \in R BY DEF OpToRel
<1>. HIDE DEF R
<1>3. PICK i \in I : \A j \in I : ~ (<<j, i>> \in R) BY <1>1, WFMin
<1>4. \A j \in I : ~ (j < i) BY <1>2, <1>3
<1>5. \A j \in I : i <= j BY <1>4
<1>6. QED BY <1>5 DEF Min

\* The callback that found an email found it with its own answer of GitHub.
FoundInv ==
    /\ \A c \in Callbacks : flow[c] # None /\ flow[c].stage = "resolve" =>
          /\ ended[c] # None /\ flow[c].email # None
          /\ flow[c].email = SelectVerifiedEmail(ended[c].mails)
    /\ \A c \in Callbacks : ended[c] # None /\ ended[c].answer = "dashboard" =>
          /\ ended[c].email # None
          /\ ended[c].email = SelectVerifiedEmail(ended[c].mails)

\* A token in Redis has let nobody pass, and one that was not minted neither; a
\* token that let one pass is gone for good, for no token is minted twice.
SignInInv ==
    /\ TypeOK
    /\ StateAdmitsOnce
    /\ \A t \in Tokens : t \in states \/ t \notin minted => passed[t] = 0
    /\ FoundInv

\* What selectVerifiedEmail returns: an address, of a verified entry, and of a
\* primary one if a verified one is.
LEMMA Selected ==
    ASSUME NEW mails \in Mails \cup {<<>>}, SelectVerifiedEmail(mails) # None
    PROVE  \E i \in DOMAIN mails :
              /\ mails[i].address = SelectVerifiedEmail(mails) /\ mails[i].verified
              /\ mails[i].address \in Addresses
              /\ (\E j \in DOMAIN mails : mails[j].verified /\ mails[j].primary)
                     => mails[i].primary
<1>. DEFINE verified == {i \in DOMAIN mails : mails[i].verified}
            primary == {i \in verified : mails[i].primary}
            best == IF primary = {} THEN verified ELSE primary
<1>1. mails \in Seq(Mail)
  <2>1. <<>> \in Seq(Mail) OBVIOUS
  <2>2. Mails \subseteq Seq(Mail) BY SignInAssumption
  <2>3. QED BY <2>1, <2>2
<1>2. verified # {} /\ SelectVerifiedEmail(mails) = mails[Min(best)].address
  BY DEF SelectVerifiedEmail
<1>3. best \in SUBSET Nat /\ best # {} BY <1>1, <1>2
<1>4. Min(best) \in best BY <1>3, LeastIndex
<1>. DEFINE i == Min(best)
<1>. HIDE DEF i
<1>5. i \in best /\ SelectVerifiedEmail(mails) = mails[i].address BY <1>2, <1>4 DEF i
<1>6. i \in DOMAIN mails /\ mails[i].verified /\ mails[i].address \in Addresses
  <2>1. i \in verified BY <1>5
  <2>2. i \in DOMAIN mails /\ mails[i].verified BY <2>1
  <2>3. mails[i] \in Mail BY <1>1, <2>2
  <2>4. QED BY <2>2, <2>3 DEF Mail
<1>7. ASSUME NEW j \in DOMAIN mails, mails[j].verified, mails[j].primary
      PROVE  mails[i].primary
  BY <1>5, <1>7
<1>8. QED BY <1>5, <1>6, <1>7

LEMMA SignInInit == Init => SignInInv
BY SignInAssumption DEF Init, SignInInv, StateAdmitsOnce, TypeOK, FoundInv

\* A callback moves: its flow and outcome become f and e.
LEMMA CallbackMoves ==
    ASSUME SignInInv, NEW c \in Callbacks, NEW f \in Flow \cup {None},
           NEW e \in Outcome \cup {None},
           flow' = [flow EXCEPT ![c] = f], ended' = [ended EXCEPT ![c] = e],
           f # None /\ f.stage = "resolve" =>
              e # None /\ f.email # None /\ f.email = SelectVerifiedEmail(e.mails),
           e # None /\ e.answer = "dashboard" =>
              e.email # None /\ e.email = SelectVerifiedEmail(e.mails)
    PROVE  /\ FoundInv'
           /\ flow' \in [Callbacks -> Flow \cup {None}]
           /\ ended' \in [Callbacks -> Outcome \cup {None}]
<1>1. /\ flow \in [Callbacks -> Flow \cup {None}]
      /\ ended \in [Callbacks -> Outcome \cup {None}] /\ FoundInv
  BY DEF SignInInv, TypeOK
<1>2. /\ flow' \in [Callbacks -> Flow \cup {None}] /\ flow'[c] = f
      /\ ended' \in [Callbacks -> Outcome \cup {None}] /\ ended'[c] = e
      /\ \A d \in Callbacks \ {c} : flow'[d] = flow[d] /\ ended'[d] = ended[d]
  BY <1>1
<1>3. FoundInv' BY <1>1, <1>2 DEF FoundInv
<1>4. QED BY <1>2, <1>3

\* A callback moves on, with states that only go and nobody passing.
LEMMA StatesGo ==
    ASSUME SignInInv, states' \subseteq states, UNCHANGED <<minted, passed>>,
           calls' \in 0 .. MaxCalls,
           FoundInv', flow' \in [Callbacks -> Flow \cup {None}],
           ended' \in [Callbacks -> Outcome \cup {None}]
    PROVE  SignInInv'
BY DEF SignInInv, StateAdmitsOnce, TypeOK

\* The outcome of a callback that fails.
LEMMA FailedInv ==
    ASSUME SignInInv, NEW c \in Callbacks, flow[c] # None,
           NEW cause \in {"state", "exchange", "emails", "unverified"},
           NEW mails \in Mails \cup {<<>>}, Failed(c, cause, mails)
    PROVE  /\ FoundInv'
           /\ flow' \in [Callbacks -> Flow \cup {None}]
           /\ ended' \in [Callbacks -> Outcome \cup {None}]
<1>. DEFINE e == [answer |-> "github-oauth-failed", cause |-> cause, email |-> flow[c].email,
                  mails |-> mails]
<1>1. flow' = [flow EXCEPT ![c] = None] /\ ended' = [ended EXCEPT ![c] = e]
  BY DEF Failed, End, Thrown
<1>2. flow[c] \in Flow BY DEF SignInInv, TypeOK
<1>3. e \in Outcome /\ e.answer # "dashboard" BY <1>2 DEF Outcome, Answers, Flow
<1>. HIDE DEF e
<1>4. QED BY <1>1, <1>3, CallbackMoves

\* A callback goes to its next phase, short of the accounts.
LEMMA ToInv ==
    ASSUME SignInInv, NEW c \in Callbacks, flow[c] # None,
           NEW stage \in {"exchange", "emails"}, To(c, stage)
    PROVE  /\ FoundInv'
           /\ flow' \in [Callbacks -> Flow \cup {None}]
           /\ ended' \in [Callbacks -> Outcome \cup {None}]
<1>. DEFINE f == [flow[c] EXCEPT !.stage = stage]
<1>1. /\ flow \in [Callbacks -> Flow \cup {None}]
      /\ ended \in [Callbacks -> Outcome \cup {None}] /\ FoundInv
  BY DEF SignInInv, TypeOK
<1>2. flow' = [flow EXCEPT ![c] = f] /\ ended' = [ended EXCEPT ![c] = ended[c]]
  BY <1>1 DEF To
<1>3. f \in Flow /\ f.stage = stage BY <1>1 DEF Flow
<1>. HIDE DEF f
<1>4. ended[c] \in Outcome \cup {None} BY <1>1
<1>5. QED BY <1>1, <1>2, <1>3, <1>4, CallbackMoves DEF FoundInv

LEMMA VerifyInv ==
    ASSUME SignInInv, NEW c \in Callbacks, Verify(c)
    PROVE  SignInInv'
<1>. DEFINE t == flow[c].token
<1>1. /\ t \in states /\ states' = states \ {t} /\ minted' = minted /\ calls' = calls
      /\ passed' = [passed EXCEPT ![t] = passed[t] + 1]
  BY DEF Verify, Consumed
<1>. HIDE DEF t
<1>2. t \in Tokens /\ t \in minted /\ passed[t] = 0 BY <1>1 DEF SignInInv, TypeOK
<1>3. /\ passed' \in [Tokens -> Nat] /\ passed'[t] = 1
      /\ \A s \in Tokens \ {t} : passed'[s] = passed[s]
  BY <1>1, <1>2 DEF SignInInv, TypeOK
<1>4. StateAdmitsOnce' BY <1>3 DEF SignInInv, StateAdmitsOnce
<1>5. /\ FoundInv' /\ flow' \in [Callbacks -> Flow \cup {None}]
      /\ ended' \in [Callbacks -> Outcome \cup {None}]
  BY ToInv DEF Verify, At
<1>6. TypeOK' BY <1>1, <1>3, <1>5 DEF SignInInv, TypeOK
<1>7. QED BY <1>1, <1>2, <1>3, <1>4, <1>5, <1>6 DEF SignInInv

\* validate: the email it goes on with is the one selected from the answer.
LEMMA ValidateInv ==
    ASSUME SignInInv, NEW c \in Callbacks, NEW mails \in Mails, Validate(c, mails)
    PROVE  SignInInv'
<1>. DEFINE email == SelectVerifiedEmail(mails)
            e == [answer |-> None, cause |-> "none", email |-> email, mails |-> mails]
<1>1. flow[c] # None /\ UNCHANGED <<states, minted, passed, calls>> BY DEF Validate, At
<1>2. CASE Failed(c, "emails", <<>>) \/ Failed(c, "unverified", mails)
  <2>1. /\ FoundInv' /\ flow' \in [Callbacks -> Flow \cup {None}]
        /\ ended' \in [Callbacks -> Outcome \cup {None}]
    BY <1>1, <1>2, FailedInv
  <2>2. QED BY <1>1, <2>1, StatesGo DEF SignInInv, TypeOK
<1>3. CASE /\ email # None
           /\ flow' = [flow EXCEPT ![c].stage = "resolve", ![c].email = email]
           /\ ended' = [ended EXCEPT ![c] = e]
  <2>1. email \in Addresses BY <1>3, Selected
  <2>. HIDE DEF email
  <2>. DEFINE f == [[flow[c] EXCEPT !.stage = "resolve"] EXCEPT !.email = email]
  <2>2. flow[c] \in Flow /\ flow \in [Callbacks -> Flow \cup {None}]
    BY <1>1 DEF SignInInv, TypeOK
  <2>3. f \in Flow /\ f.email = email BY <2>1, <2>2 DEF Flow
  <2>4. flow' = [flow EXCEPT ![c] = f] BY <1>3, <2>2
  <2>5. e \in Outcome /\ e.answer = None /\ e.mails = mails /\ e # None
    BY <2>1, SignInAssumption DEF Outcome, Answers
  <2>6. e.answer # "dashboard" BY <2>5, NoAnswer
  <2>. HIDE DEF f, e
  <2>7. email = SelectVerifiedEmail(e.mails) BY <2>5 DEF email
  <2>8. /\ FoundInv' /\ flow' \in [Callbacks -> Flow \cup {None}]
        /\ ended' \in [Callbacks -> Outcome \cup {None}]
    BY <1>3, <2>3, <2>4, <2>5, <2>6, <2>7, CallbackMoves
  <2>9. QED BY <1>1, <2>8, StatesGo DEF SignInInv, TypeOK
<1>4. QED BY <1>2, <1>3 DEF Validate

\* The callback ends with a session, or with an error of a store.
LEMMA ResolveInv ==
    ASSUME SignInInv, NEW c \in Callbacks, Resolve(c)
    PROVE  SignInInv'
<1>1. /\ flow[c] # None /\ flow[c].stage = "resolve"
      /\ UNCHANGED <<states, minted, passed, calls>>
  BY DEF Resolve, At
<1>2. /\ flow[c] \in Flow /\ ended[c] \in Outcome /\ flow[c].email # None
      /\ flow[c].email = SelectVerifiedEmail(ended[c].mails)
  BY <1>1 DEF SignInInv, TypeOK, FoundInv
<1>3. PICK answer \in {"dashboard", "problem"}, cause \in {"none", "resolve"} :
         End(c, answer, cause, ended[c].mails)
  BY DEF Resolve
<1>. DEFINE e == [answer |-> answer, cause |-> cause, email |-> flow[c].email,
                  mails |-> ended[c].mails]
<1>4. flow' = [flow EXCEPT ![c] = None] /\ ended' = [ended EXCEPT ![c] = e]
  BY <1>3 DEF End
<1>5. e \in Outcome /\ e.email = flow[c].email /\ e.mails = ended[c].mails
  BY <1>2 DEF Outcome, Answers, Flow
<1>. HIDE DEF e
<1>6. /\ FoundInv' /\ flow' \in [Callbacks -> Flow \cup {None}]
      /\ ended' \in [Callbacks -> Outcome \cup {None}]
  BY <1>2, <1>4, <1>5, CallbackMoves
<1>7. QED BY <1>1, <1>6, StatesGo DEF SignInInv, TypeOK

LEMMA SignInNext == SignInInv /\ [Next]_vars => SignInInv'
<1>. SUFFICES ASSUME SignInInv, [Next]_vars PROVE SignInInv' OBVIOUS
<1>0. /\ calls \in 0 .. MaxCalls /\ MaxCalls \in Nat /\ FoundInv
      /\ flow \in [Callbacks -> Flow \cup {None}]
      /\ ended \in [Callbacks -> Outcome \cup {None}]
  BY SignInAssumption DEF SignInInv, TypeOK
<1>1. ASSUME NEW t \in Tokens, Authorize(t) PROVE SignInInv'
  BY <1>1 DEF Authorize, SignInInv, StateAdmitsOnce, TypeOK, FoundInv
<1>2. ASSUME NEW t \in Tokens, Expire(t) PROVE SignInInv'
  BY <1>0, <1>2, StatesGo DEF Expire, FoundInv
<1>3. ASSUME NEW c \in Callbacks, NEW t \in Tokens, Call(c, t) PROVE SignInInv'
  <2>. DEFINE f == [token |-> t, stage |-> "verify", email |-> None]
  <2>1. /\ flow' = [flow EXCEPT ![c] = f] /\ ended' = [ended EXCEPT ![c] = None]
        /\ calls' \in 0 .. MaxCalls /\ UNCHANGED <<states, minted, passed>>
    BY <1>0, <1>3 DEF Call
  <2>2. f \in Flow /\ f.stage # "resolve" BY DEF Flow
  <2>. HIDE DEF f
  <2>3. /\ FoundInv' /\ flow' \in [Callbacks -> Flow \cup {None}]
        /\ ended' \in [Callbacks -> Outcome \cup {None}]
    BY <2>1, <2>2, CallbackMoves
  <2>4. QED BY <2>1, <2>3, StatesGo
<1>4. ASSUME NEW c \in Callbacks, CallbackStep(c) PROVE SignInInv'
  <2>1. CASE Verify(c) BY <2>1, VerifyInv
  <2>2. CASE Refuse(c)
    <3>1. /\ flow[c] # None /\ Failed(c, "state", <<>>) /\ states' \subseteq states
          /\ UNCHANGED <<minted, passed, calls>>
      BY <2>2 DEF Refuse, At
    <3>2. /\ FoundInv' /\ flow' \in [Callbacks -> Flow \cup {None}]
          /\ ended' \in [Callbacks -> Outcome \cup {None}]
      BY <3>1, FailedInv
    <3>3. QED BY <1>0, <3>1, <3>2, StatesGo
  <2>3. CASE Exchange(c)
    <3>1. /\ flow[c] # None /\ UNCHANGED <<states, minted, passed, calls>>
          /\ To(c, "emails") \/ Failed(c, "exchange", <<>>)
      BY <2>3 DEF Exchange, At
    <3>2. /\ FoundInv' /\ flow' \in [Callbacks -> Flow \cup {None}]
          /\ ended' \in [Callbacks -> Outcome \cup {None}]
      BY <3>1, FailedInv, ToInv
    <3>3. QED BY <1>0, <3>1, <3>2, StatesGo
  <2>4. CASE Resolve(c) BY <2>4, ResolveInv
  <2>5. ASSUME NEW mails \in Mails, Validate(c, mails) PROVE SignInInv'
    BY <2>5, ValidateInv
  <2>6. QED BY <1>4, <2>1, <2>2, <2>3, <2>4, <2>5 DEF CallbackStep
<1>5. CASE UNCHANGED vars BY <1>0, <1>5, StatesGo DEF vars, FoundInv
<1>6. QED BY <1>1, <1>2, <1>3, <1>4, <1>5 DEF Next

LEMMA SessionsVerified == SignInInv => SessionsAreVerified
<1>. SUFFICES ASSUME SignInInv, NEW c \in Callbacks, ended[c] # None,
                     ended[c].answer = "dashboard"
              PROVE  LET listed == {ended[c].mails[i] : i \in DOMAIN ended[c].mails}
                         chosen == {m \in listed : m.address = ended[c].email}
                     IN  /\ \E m \in chosen : m.verified
                         /\ (\E m \in listed : m.verified /\ m.primary) =>
                               \E m \in chosen : m.primary
  BY DEF SessionsAreVerified
<1>. DEFINE mails == ended[c].mails
            email == ended[c].email
<1>1. /\ mails \in Mails \cup {<<>>} /\ email # None /\ email = SelectVerifiedEmail(mails)
  BY DEF SignInInv, TypeOK, FoundInv, Outcome
<1>. HIDE DEF mails, email
<1>2. PICK i \in DOMAIN mails :
         /\ mails[i].address = email /\ mails[i].verified
         /\ (\E j \in DOMAIN mails : mails[j].verified /\ mails[j].primary) => mails[i].primary
  BY <1>1, Selected
<1>3. QED BY <1>2 DEF mails, email

-----------------------------------------------------------------------------
(* WebSession.                                                             *)

LEMMA NamesApart == Unknown \notin Users /\ None \notin Users /\ Unknown # None
BY SurfaceAssumption

\* The pages' queries are all of this kind.
LEMMA SessionQueries ==
    /\ \A Data : Session!Queries(Data) = Cache!Queries(Data)
    /\ Session!Cold = Cache!Cold
    /\ \A q : /\ Session!Ask(q) = Cache!Ask(q) /\ Session!Answer(q) = Cache!Answer(q)
              /\ Session!Fail(q) = Cache!Fail(q)
              /\ Session!Underway(q) = Cache!Underway(q)
              /\ \A d : Session!Read(q, d) = Cache!Read(q, d)
BY DEF Session!Queries, Session!Cold, Session!Ask, Session!Answer, Session!Fail,
       Session!Underway, Session!Read, Session!Retries, Cache!Queries, Cache!Cold, Cache!Ask,
       Cache!Answer, Cache!Fail, Cache!Underway, Cache!Read, Cache!Retries
PageStands == Session!ProtectedRoute(place, user)

\* While the client bootstraps nobody signs in or out, and only then may an
\* answer of /me name anybody; so no such answer meets another user's cookie.
ProbesInv ==
    /\ user = Unknown => entering = {} /\ ~leaving /\ awaited = {}
    /\ probe.on /\ probe.as \in Users => user = Unknown /\ jar \in {probe.as, None}

\* The request of a page that stands was sent as its user or without a cookie,
\* unless it is a carried one, or a sign-out that was answered has still to wait.
PageInv ==
    PageStands /\ ~carried /\ awaited = {} =>
        /\ page.phase = "read" => page.got \in {user, None}
        /\ page.phase = "idle" /\ ~page.failed => page.data = user

SessionInv == Session!TypeOK /\ Session!ShownUserIsTheCookies /\ ProbesInv /\ PageInv

-----------------------------------------------------------------------------
LEMMA SessionTypes ==
    ASSUME NEW q \in Session!Queries(Users), NEW j \in Users \cup {None}
    PROVE  /\ Session!Cold \in Session!Queries(Users)
           /\ Session!Ask(q) \in Session!Queries(Users)
           /\ Session!Answer(q) \in Session!Queries(Users)
           /\ Session!Fail(q) \in Session!Queries(Users)
           /\ Session!Read(q, j) \in Session!Queries(Users)
           /\ Session!Read(q, j).phase = "read" /\ Session!Read(q, j).got = j
           /\ Session!Answer(q).phase = "idle" /\ Session!Answer(q).data = q.got
           /\ Session!Fail(q).phase # "read"
           /\ Session!Fail(q).phase = "idle" => Session!Fail(q).failed
<1>1. q \in Cache!Queries(Users) BY SessionQueries
<1>2. QED BY <1>1, SessionQueries, QueryTypes, QueryResults

LEMMA SentTypes ==
    ASSUME NEW q \in Session!Queries(Users), NEW j \in Users \cup {None}
    PROVE  /\ Session!SentAtMount(q, j) \in Session!Queries(Users)
           /\ Session!Underway(q) => Session!SentAtMount(q, j) = q
           /\ ~Session!Underway(q) => /\ Session!SentAtMount(q, j).phase = "read"
                                      /\ Session!SentAtMount(q, j).got = j
<1>1. Session!Ask(q) \in Session!Queries(Users) BY SessionTypes
<1>2. /\ Session!Read(Session!Ask(q), j) \in Session!Queries(Users)
      /\ Session!Read(Session!Ask(q), j).phase = "read"
      /\ Session!Read(Session!Ask(q), j).got = j
  BY <1>1, SessionTypes
<1>3. QED BY <1>2 DEF Session!SentAtMount

LEMMA LoadedInv ==
    ASSUME NEW j \in Users \cup {None}, NEW pl \in Session!Places
    PROVE  /\ Session!Loaded(j, pl) => SessionInv
           /\ Session!Document(j, pl) => SessionInv'
<1>1. Session!Cold \in Session!Queries(Users)
  BY DEF Session!Cold, Session!Queries, Session!Retries
<1>2. Session!ProbeAs(j) \in [on : BOOLEAN, as : Users \cup {None}] /\ Session!ProbeAs(j).as = j
  BY DEF Session!ProbeAs
<1>3. ASSUME Session!Loaded(j, pl) PROVE SessionInv
  BY <1>1, <1>2, <1>3, NamesApart
     DEF Session!Loaded, SessionInv, Session!TypeOK, Session!ShownUserIsTheCookies, ProbesInv,
         PageInv, PageStands, Session!ProtectedRoute
<1>4. ASSUME Session!Document(j, pl) PROVE SessionInv'
  BY <1>1, <1>2, <1>4, NamesApart
     DEF Session!Document, SessionInv, Session!TypeOK, Session!ShownUserIsTheCookies, ProbesInv,
         PageInv, PageStands, Session!ProtectedRoute
<1>5. QED BY <1>3, <1>4

\* A user u is shown, with u's cookie or none: the page that mounts asks as u, or
\* joins a request and is carried.
LEMMA ShowInv ==
    ASSUME SessionInv, NEW u \in Users \cup {None, Unknown}, NEW j \in Users \cup {None},
           NEW pl \in Session!Places, Session!Show(pl, u, j), u \in Users /\ j # None => u = j,
           (awaited' = {} => awaited = {}) \/ u = None
    PROVE  /\ user' \in Users \cup {None, Unknown} /\ place' \in Session!Places
           /\ page' \in Session!Queries(Users) /\ carried' \in BOOLEAN
           /\ PageInv'
<1>. DEFINE mounts == Session!ProtectedRoute(place', u) /\ ~Session!ProtectedRoute(place, user)
            joins == Session!Underway(page) /\ page.got \notin {u, None}
<1>1. /\ user' = u /\ place' = Session!Routed(pl, u)
      /\ page' = IF mounts THEN Session!SentAtMount(page, j) ELSE page
      /\ carried' = CASE mounts -> joins \/ (carried /\ Session!Underway(page))
                      [] ~mounts /\ {u, user} \subseteq Users /\ u # user -> TRUE
                      [] OTHER -> carried
  BY DEF Session!Show
<1>2. page \in Session!Queries(Users) /\ carried \in BOOLEAN /\ joins \in BOOLEAN
      /\ Session!Underway(page) \in BOOLEAN
  BY DEF SessionInv, Session!TypeOK, Session!Underway
<1>3. page.phase \in {"idle", "asked", "read"} BY <1>2 DEF Session!Queries
<1>4. PageStands' = Session!ProtectedRoute(place', u)
  BY <1>1
     DEF PageStands, Session!ProtectedRoute
<1>5. place' \in Session!Places BY <1>1 DEF Session!Routed, Session!Places
<1>6. page' \in Session!Queries(Users) BY <1>1, <1>2, SentTypes
<1>7. CASE mounts
  <2>1. /\ carried' = (joins \/ (carried /\ Session!Underway(page)))
        /\ page' = Session!SentAtMount(page, j)
    BY <1>1, <1>7
  <2>2. u \in Users BY <1>7 DEF Session!ProtectedRoute
  <2>3. CASE Session!Underway(page)
    <3>1. page' = page BY <1>2, <2>1, <2>3, SentTypes
    <3>2. ~carried' => page.got \in {u, None} BY <2>1, <2>3
    <3>3. page.phase # "idle" BY <2>3 DEF Session!Underway
    <3>4. PageInv' BY <1>1, <3>1, <3>2, <3>3 DEF PageInv
    <3>5. QED BY <1>1, <1>2, <1>5, <1>6, <2>1, <3>4
  <2>4. CASE ~Session!Underway(page)
    <3>1. page'.phase = "read" /\ page'.got = j BY <1>2, <2>1, <2>4, SentTypes
    <3>2. page'.got \in {user', None} BY <1>1, <2>2, <3>1
    <3>3. PageInv' BY <3>1, <3>2 DEF PageInv
    <3>4. QED BY <1>1, <1>2, <1>5, <1>6, <2>1, <3>3
  <2>5. QED BY <2>3, <2>4
<1>8. CASE ~mounts
  <2>1. page' = page BY <1>1, <1>8
  <2>2. CASE {u, user} \subseteq Users /\ u # user
    <3>1. carried' = TRUE BY <1>1, <1>8, <2>2
    <3>2. QED BY <1>1, <1>5, <1>6, <3>1 DEF PageInv
  <2>3. CASE ~({u, user} \subseteq Users /\ u # user)
    <3>1. carried' = carried BY <1>1, <1>8, <2>3
    <3>2. PageStands' => PageStands /\ user' = user /\ u \in Users
      BY <1>1, <1>4, <1>8, <2>3 DEF PageStands, Session!ProtectedRoute
    <3>3. u \in Users /\ awaited' = {} => awaited = {} BY NamesApart
    <3>4. PageInv' BY <2>1, <3>1, <3>2, <3>3 DEF SessionInv, PageInv
    <3>5. QED BY <1>1, <1>2, <1>5, <1>6, <3>1, <3>4
  <2>4. QED BY <2>2, <2>3
<1>9. QED BY <1>7, <1>8

\* What is awaited shrinks, and nobody stops waiting before the end.
LEMMA OverWaits ==
    ASSUME Session!TypeOK, NEW what
    PROVE  /\ Session!Over(what) \subseteq SUBSET {"user", "page"}
           /\ Session!Over(what) = {} <=> awaited = {}
<1>1. \A w \in awaited : w \subseteq {"user", "page"} BY DEF Session!TypeOK
<1>2. Session!Over(what) \subseteq SUBSET {"user", "page"} BY <1>1 DEF Session!Over
<1>3. \A w \in awaited : w \ {what} \in Session!Over(what) BY DEF Session!Over
<1>4. Session!Over(what) = {} => awaited = {} BY <1>3
<1>5. awaited = {} => Session!Over(what) = {} BY DEF Session!Over
<1>6. QED BY <1>2, <1>4, <1>5

\* Steps that end or restart the request of the page.
LEMMA PageEndsInv ==
    ASSUME SessionInv, NEW q \in Session!Queries(Users), Session!PageEnds(q),
           PageStands /\ ~carried /\ awaited = {} =>
               /\ q.phase = "read" => q.got \in {user, None}
               /\ q.phase = "idle" /\ ~q.failed => q.data = user
    PROVE  SessionInv'
<1>1. /\ page' = q /\ awaited' \in {awaited, Session!Over("page")}
      /\ UNCHANGED <<jar, user, probe, place, entering, loading, leaving, carried>>
  BY DEF Session!PageEnds
<1>2. awaited' \subseteq SUBSET {"user", "page"} /\ (awaited' = {} <=> awaited = {})
  BY <1>1, OverWaits DEF SessionInv, Session!TypeOK
<1>3. QED
  BY <1>1, <1>2
     DEF SessionInv, Session!TypeOK, Session!ShownUserIsTheCookies, ProbesInv, PageInv,
         PageStands, Session!ProtectedRoute

LEMMA PageStepInv ==
    ASSUME SessionInv,
           \/ Session!PageAnswered \/ Session!PageFails
           \/ Session!PageRetried \/ Session!PageForgotten
    PROVE  SessionInv'
<1>1. page \in Session!Queries(Users) /\ jar \in Users \cup {None}
  BY DEF SessionInv, Session!TypeOK
<1>2. CASE Session!PageAnswered
  <2>1. Session!Answer(page) \in Session!Queries(Users) /\ Session!Answer(page).phase = "idle"
        /\ Session!Answer(page).data = page.got
    BY <1>1, SessionTypes
  <2>2. page.phase = "read" /\ page.got # None /\ Session!PageEnds(Session!Answer(page))
    BY <1>2 DEF Session!PageAnswered
  <2>3. QED BY <2>1, <2>2, PageEndsInv DEF SessionInv, PageInv
<1>3. CASE Session!PageFails
  <2>1. Session!Fail(page) \in Session!Queries(Users) /\ Session!Fail(page).phase # "read"
        /\ (Session!Fail(page).phase = "idle" => Session!Fail(page).failed)
    BY <1>1, SessionTypes
  <2>2. Session!PageEnds(Session!Fail(page)) BY <1>3 DEF Session!PageFails
  <2>3. QED BY <2>1, <2>2, PageEndsInv
<1>4. CASE Session!PageRetried
  <2>1. /\ Session!Read(page, jar) \in Session!Queries(Users)
        /\ Session!Read(page, jar).phase = "read" /\ Session!Read(page, jar).got = jar
    BY <1>1, SessionTypes
  <2>2. Session!PageEnds(Session!Read(page, jar)) BY <1>4 DEF Session!PageRetried
  <2>3. PageStands => jar \in {user, None}
    BY DEF PageStands, Session!ProtectedRoute, SessionInv, Session!ShownUserIsTheCookies
  <2>4. QED BY <2>1, <2>2, <2>3, PageEndsInv
<1>5. CASE Session!PageForgotten
  <2>1. Session!Cold \in Session!Queries(Users) BY <1>1, SessionTypes
  <2>2. ~PageStands /\ Session!PageEnds(Session!Cold)
    BY <1>5
       DEF Session!PageForgotten, PageStands
  <2>3. QED BY <2>1, <2>2, PageEndsInv
<1>6. QED BY <1>2, <1>3, <1>4, <1>5

LEMMA SessionInit == Session!Init => SessionInv
BY LoadedInv DEF Session!Init

LEMMA SessionStep == ASSUME SessionInv, [Session!Next]_sessionVars PROVE SessionInv'
<1>0. Session!TypeOK /\ Session!ShownUserIsTheCookies /\ ProbesInv /\ PageInv BY DEF SessionInv
<1>1. ASSUME NEW pl \in Session!Places, Session!Navigate(pl) PROVE SessionInv'
  <2>1. Session!Show(pl, user, jar) /\ awaited' = awaited BY <1>1 DEF Session!Navigate
  <2>2. /\ user' \in Users \cup {None, Unknown} /\ place' \in Session!Places
        /\ page' \in Session!Queries(Users) /\ carried' \in BOOLEAN /\ PageInv'
    BY <1>0, <2>1, ShowInv DEF Session!TypeOK, Session!ShownUserIsTheCookies
  <2>3. user' = user BY <2>1 DEF Session!Show
  <2>4. QED
    BY <1>0, <1>1, <2>2, <2>3
       DEF Session!Navigate, SessionInv, Session!TypeOK, Session!ShownUserIsTheCookies,
           ProbesInv
<1>2. CASE Session!fetchMe
  <2>1. PICK u \in {probe.as, None} : Session!Show(place, u, jar) BY <1>2 DEF Session!fetchMe
  <2>2. u \in Users \cup {None} /\ u # Unknown BY <1>0, <2>1, NamesApart DEF Session!TypeOK
  <2>3. u \in Users => user = Unknown /\ jar \in {u, None}
    BY <1>0, <1>2, <2>1, NamesApart DEF Session!fetchMe, ProbesInv
  <2>4. leaving' = leaving /\ jar' = jar /\ entering' = entering /\ probe' = Session!NoProbe
        /\ awaited' \subseteq SUBSET {"user", "page"} /\ (awaited' = {} <=> awaited = {})
    BY <1>0, <1>2, OverWaits DEF Session!fetchMe
  <2>5. /\ user' \in Users \cup {None, Unknown} /\ place' \in Session!Places
        /\ page' \in Session!Queries(Users) /\ carried' \in BOOLEAN /\ PageInv'
    BY <1>0, <2>1, <2>2, <2>3, <2>4, ShowInv DEF Session!TypeOK
  <2>6. user' = u BY <2>1 DEF Session!Show
  <2>7. probe' \in [on : BOOLEAN, as : Users \cup {None}] /\ ~probe'.on
    BY <2>4 DEF Session!NoProbe
  <2>8. loading' \in BOOLEAN
    BY <1>0, <1>2 DEF Session!fetchMe, Session!TypeOK, Session!GuestRoute
  <2>9. QED
    BY <1>0, <2>2, <2>3, <2>4, <2>5, <2>6, <2>7, <2>8
       DEF SessionInv, Session!TypeOK, Session!ShownUserIsTheCookies, ProbesInv
<1>3. CASE Session!Reload \/ Session!loginWithGithub
  <2>1. \E j \in Users \cup {None}, pl \in Session!Places : Session!Document(j, pl)
    BY <1>0, <1>3 DEF Session!Reload, Session!loginWithGithub, Session!TypeOK, Session!Places
  <2>2. QED BY <2>1, LoadedInv
<1>4. CASE Session!Expire
  BY <1>0, <1>4
     DEF Session!Expire, SessionInv, Session!TypeOK, Session!ShownUserIsTheCookies, ProbesInv,
         PageInv, PageStands, Session!ProtectedRoute
<1>5. ASSUME NEW f \in Session!Forms, Session!handleSubmit(f) \/ Session!SubmitRefused(f)
      PROVE  SessionInv'
  BY <1>0, <1>5, NamesApart
     DEF Session!handleSubmit, Session!SubmitRefused, Session!GuestRoute, SessionInv,
         Session!TypeOK, Session!ShownUserIsTheCookies, ProbesInv, PageInv, PageStands,
         Session!ProtectedRoute
<1>6. ASSUME NEW f \in Session!Forms, Session!LoggedIn(f) PROVE SessionInv'
  <2>1. f.user \in Users BY DEF Session!Forms
  <2>2. /\ Session!Show("page", f.user, f.user) /\ leaving' = leaving /\ jar' = f.user
        /\ probe' = probe /\ awaited' = awaited /\ loading' = FALSE
        /\ entering' \subseteq entering /\ entering # {}
    BY <1>6 DEF Session!LoggedIn
  <2>3. /\ user' \in Users \cup {None, Unknown} /\ place' \in Session!Places
        /\ page' \in Session!Queries(Users) /\ carried' \in BOOLEAN /\ PageInv'
    BY <2>1, <2>2, ShowInv DEF Session!Places
  <2>4. user' = f.user BY <2>2 DEF Session!Show
  <2>5. user # Unknown BY <1>0, <2>2 DEF ProbesInv
  <2>6. user' # Unknown BY <2>1, <2>4, NamesApart
  <2>7. QED
    BY <1>0, <2>1, <2>2, <2>3, <2>4, <2>5, <2>6
       DEF SessionInv, Session!TypeOK, Session!ShownUserIsTheCookies, ProbesInv
<1>7. ASSUME NEW f \in Session!Forms, Session!Registered(f) PROVE SessionInv'
  <2>1. /\ Session!Show("page", user, jar) /\ leaving' = leaving /\ jar' = jar
        /\ probe' = probe /\ awaited' = awaited /\ loading' = FALSE
        /\ entering' \subseteq entering
    BY <1>7 DEF Session!Registered
  <2>2. /\ user' \in Users \cup {None, Unknown} /\ place' \in Session!Places
        /\ page' \in Session!Queries(Users) /\ carried' \in BOOLEAN /\ PageInv'
    BY <1>0, <2>1, ShowInv DEF Session!TypeOK, Session!ShownUserIsTheCookies, Session!Places
  <2>3. user' = user BY <2>1 DEF Session!Show
  <2>4. QED
    BY <1>0, <2>1, <2>2, <2>3
       DEF SessionInv, Session!TypeOK, Session!ShownUserIsTheCookies, ProbesInv
<1>8. CASE Session!logout \/ Session!LogoutFails
  <2>1. /\ leaving' \in BOOLEAN
        /\ UNCHANGED <<jar, user, probe, place, page, entering, loading, awaited, carried>>
    BY <1>8 DEF Session!logout, Session!LogoutFails
  <2>2. user # Unknown
    BY <1>0, <1>8, NamesApart
       DEF Session!logout, Session!LogoutFails, Session!NavActions, ProbesInv
  <2>3. QED
    BY <1>0, <2>1, <2>2
       DEF SessionInv, Session!TypeOK, Session!ShownUserIsTheCookies, ProbesInv, PageInv,
           PageStands, Session!ProtectedRoute
<1>9. CASE Session!LoggedOut
  <2>1. /\ leaving /\ leaving' \in BOOLEAN /\ jar' = None
        /\ probe' = Session!ProbeAs(None)
        /\ UNCHANGED <<user, place, entering, loading, carried>>
    BY <1>9 DEF Session!LoggedOut
  <2>2. page' \in Session!Queries(Users)
    <3>1. page \in Session!Queries(Users) BY <1>0 DEF Session!TypeOK
    <3>2. Session!Ask(page) \in Session!Queries(Users) BY <3>1, SessionTypes
    <3>3. Session!Read(Session!Ask(page), None) \in Session!Queries(Users) BY <3>2, SessionTypes
    <3>4. QED BY <1>9, <3>1, <3>3 DEF Session!LoggedOut
  <2>3. awaited' \subseteq SUBSET {"user", "page"} /\ awaited' # {}
    <3>1. PICK w \in SUBSET {"user", "page"} : awaited' = awaited \cup {w}
      BY <1>9 DEF Session!LoggedOut
    <3>2. awaited \subseteq SUBSET {"user", "page"} BY <1>0 DEF Session!TypeOK
    <3>3. QED BY <3>1, <3>2
  <2>4. probe' \in [on : BOOLEAN, as : Users \cup {None}] /\ probe'.as = None
    BY <2>1 DEF Session!ProbeAs
  <2>5. QED
    BY <1>0, <2>1, <2>2, <2>3, <2>4, NamesApart
       DEF SessionInv, Session!TypeOK, Session!ShownUserIsTheCookies, ProbesInv, PageInv
<1>10. CASE Session!LogoutEnds
  <2>1. /\ Session!Show("guest", None, jar) /\ leaving' = leaving /\ jar' = jar
        /\ probe' = probe /\ awaited' = awaited \ {{}} /\ entering' = entering
        /\ awaited # {} /\ loading' = (loading /\ Session!GuestRoute(place, user))
    BY <1>10 DEF Session!LogoutEnds
  <2>2. /\ user' \in Users \cup {None, Unknown} /\ place' \in Session!Places
        /\ page' \in Session!Queries(Users) /\ carried' \in BOOLEAN /\ PageInv'
    BY <1>0, <2>1, ShowInv, NamesApart DEF Session!TypeOK, Session!Places
  <2>3. user' = None /\ user # Unknown BY <1>0, <2>1 DEF Session!Show, ProbesInv
  <2>4. loading' \in BOOLEAN BY <1>0, <2>1 DEF Session!TypeOK, Session!GuestRoute
  <2>5. QED
    BY <1>0, <2>1, <2>2, <2>3, <2>4, NamesApart
       DEF SessionInv, Session!TypeOK, Session!ShownUserIsTheCookies, ProbesInv
<1>11. CASE UNCHANGED sessionVars
  BY <1>0, <1>11
     DEF sessionVars, SessionInv, Session!TypeOK, Session!ShownUserIsTheCookies, ProbesInv,
         PageInv, PageStands, Session!ProtectedRoute
<1>12. QED
  BY <1>1, <1>2, <1>3, <1>4, <1>5, <1>6, <1>7, <1>8, <1>9, <1>10, <1>11, PageStepInv
     DEF Session!Next

-----------------------------------------------------------------------------
(* WebLinks.                                                               *)

LEMMA DashboardQueries ==
    /\ \A Data : Dashboard!Queries(Data) = Cache!Queries(Data)
    /\ Dashboard!Cold = Cache!Cold
    /\ \A q : /\ Dashboard!Ask(q) = Cache!Ask(q) /\ Dashboard!Answer(q) = Cache!Answer(q)
              /\ Dashboard!Fail(q) = Cache!Fail(q) /\ Dashboard!Mount(q) = Cache!Mount(q)
              /\ Dashboard!Invalidate(q) = Cache!Invalidate(q)
              /\ Dashboard!Underway(q) = Cache!Underway(q)
              /\ Dashboard!IsLoading(q) = Cache!IsLoading(q)
              /\ \A d : Dashboard!Read(q, d) = Cache!Read(q, d)
BY DEF Dashboard!Queries, Dashboard!Cold, Dashboard!Ask, Dashboard!Answer, Dashboard!Fail,
       Dashboard!Underway, Dashboard!Read, Dashboard!Retries, Dashboard!Mount,
       Dashboard!Invalidate, Dashboard!IsLoading, Cache!Queries, Cache!Cold, Cache!Ask,
       Cache!Answer, Cache!Fail, Cache!Underway, Cache!Read, Cache!Retries, Cache!Mount,
       Cache!Invalidate, Cache!IsLoading

LEMMA LinksQuery ==
    ASSUME NEW q \in Dashboard!Queries(Dashboard!Rows), NEW d \in Dashboard!Rows
    PROVE  /\ Dashboard!Ask(q) \in Dashboard!Queries(Dashboard!Rows)
           /\ Dashboard!Read(q, d) \in Dashboard!Queries(Dashboard!Rows)
           /\ Dashboard!Answer(q) \in Dashboard!Queries(Dashboard!Rows)
           /\ Dashboard!Fail(q) \in Dashboard!Queries(Dashboard!Rows)
           /\ Dashboard!Mount(q) \in Dashboard!Queries(Dashboard!Rows)
           /\ Dashboard!Invalidate(q) \in Dashboard!Queries(Dashboard!Rows)
           /\ Dashboard!Read(q, d).phase = "read" /\ Dashboard!Read(q, d).got = d
           /\ Dashboard!Answer(q).phase = "idle" /\ Dashboard!Answer(q).data = q.got
           /\ Dashboard!Fail(q).phase # "read"
           /\ Dashboard!Fail(q).phase = "idle" => Dashboard!Fail(q).failed
           /\ Dashboard!Mount(q).phase = "idle" => FALSE
           /\ Dashboard!Mount(q).phase = "read" => Dashboard!Mount(q) = q
           /\ Dashboard!Invalidate(q).phase = "idle" => FALSE
<1>1. q \in Cache!Queries(Dashboard!Rows) BY DashboardQueries
<1>2. Dashboard!IsLoading(q) => q.phase # "idle" BY DEF Dashboard!IsLoading, Dashboard!Underway
<1>3. Cache!Underway(q) => q.phase # "idle" BY DEF Cache!Underway
<1>4. QED BY <1>1, <1>2, <1>3, DashboardQueries, QueryTypes, QueryResults

\* A change that the server made is not settled yet.
ChangeUnsettled == \E c \in Calls : call[c] # None /\ call[c].reply \in {"ok", "lost"}

\* What the load underway has read is what the server keeps, unless a change was
\* made that is to be settled or was missed; and so is what the page shows, once
\* its load is over.
RowsInv ==
    ~ChangeUnsettled /\ ~missed =>
        /\ links.phase = "read" => links.got = rows
        /\ at = "page" /\ links.phase = "idle" /\ ~links.failed => links.data = rows

DashboardInv == Dashboard!TypeOK /\ RowsInv

LEMMA DashboardInit == Dashboard!Init => DashboardInv
<1>. SUFFICES ASSUME Dashboard!Init PROVE DashboardInv OBVIOUS
<1>1. Cache!Cold \in Cache!Queries(Dashboard!Rows)
  BY DEF Cache!Cold, Cache!Queries, Cache!Retries
<1>2. rows \in Dashboard!Rows BY DEF Dashboard!Init
<1>3. links = Dashboard!Ask(Dashboard!Cold) BY DEF Dashboard!Init
<1>4. links \in Dashboard!Queries(Dashboard!Rows) BY <1>1, <1>3, DashboardQueries, QueryTypes
<1>5. links.phase = "asked"
  <2>1. Cache!Ask(Cache!Cold).phase = "asked" BY <1>1, <1>2, QueryResults
  <2>2. QED BY <1>3, <2>1, DashboardQueries
<1>6. RowsInv BY <1>5 DEF RowsInv
<1>7. Dashboard!TypeOK BY <1>2, <1>4 DEF Dashboard!Init, Dashboard!TypeOK, Dashboard!LinksSet
<1>8. QED BY <1>6, <1>7 DEF DashboardInv

\* Steps of the page alone, and of the requests' bookkeeping.
LEMMA DashboardQuiet ==
    ASSUME DashboardInv, UNCHANGED <<rows, links, missed>>,
           at' \in {"page", "away"}, at' = "page" => at = "page",
           correction' \in Dashboard!Correction \cup {None},
           retireCandidate' \in Slugs \cup {None},
           pageError' \in BOOLEAN, shortening' \in BOOLEAN,
           call' \in [Calls -> Dashboard!Request \cup {None}],
           ChangeUnsettled => ChangeUnsettled'
    PROVE  DashboardInv'
<1>1. Dashboard!TypeOK' BY DEF DashboardInv, Dashboard!TypeOK, Dashboard!LinksSet
<1>2. RowsInv' BY DEF DashboardInv, RowsInv
<1>3. QED BY <1>1, <1>2 DEF DashboardInv

\* A request that is sent, answered or forgotten.
LEMMA CallChanges ==
    ASSUME DashboardInv, NEW c \in Calls, NEW r \in Dashboard!Request \cup {None},
           call' = [call EXCEPT ![c] = r]
    PROVE  /\ call' \in [Calls -> Dashboard!Request \cup {None}]
           /\ call'[c] = r /\ \A d \in Calls \ {c} : call'[d] = call[d]
BY DEF DashboardInv, Dashboard!TypeOK

LEMMA CallReplied ==
    ASSUME DashboardInv, NEW c \in Calls, call[c] # None, NEW how \in {"ok", "refused", "lost"},
           Dashboard!Replied(c, how)
    PROVE  /\ call' \in [Calls -> Dashboard!Request \cup {None}]
           /\ call'[c] # None /\ call'[c].reply = how
           /\ \A d \in Calls \ {c} : call'[d] = call[d]
<1>. DEFINE r == [[call[c] EXCEPT !.reply = how] EXCEPT !.url = None]
<1>1. call[c] \in Dashboard!Request BY DEF DashboardInv, Dashboard!TypeOK
<1>2. r \in Dashboard!Request /\ r.reply = how BY <1>1 DEF Dashboard!Request
<1>3. call' = [call EXCEPT ![c] = r] BY DEF Dashboard!Replied, DashboardInv, Dashboard!TypeOK
<1>. HIDE DEF r
<1>4. r # None BY <1>2, SurfaceAssumption
<1>5. QED BY <1>2, <1>3, <1>4, CallChanges

LEMMA CallSent ==
    ASSUME DashboardInv, NEW c \in Calls, NEW op \in {"shorten", "correct", "retire"},
           NEW s \in Slugs \cup {None}, NEW u \in Urls \cup {None}, Dashboard!Send(c, op, s, u)
    PROVE  /\ call' \in [Calls -> Dashboard!Request \cup {None}]
           /\ ChangeUnsettled => ChangeUnsettled'
<1>. DEFINE r == [op |-> op, slug |-> s, url |-> u, reply |-> "none", mine |-> TRUE]
<1>1. r \in Dashboard!Request BY DEF Dashboard!Request
<1>2. call[c] = None /\ call' = [call EXCEPT ![c] = r] BY DEF Dashboard!Send
<1>. HIDE DEF r
<1>3. call' \in [Calls -> Dashboard!Request \cup {None}]
      /\ \A d \in Calls \ {c} : call'[d] = call[d]
  BY <1>1, <1>2, CallChanges
<1>4. QED BY <1>2, <1>3 DEF ChangeUnsettled

\* The load: asked for, read and answered.
LEMMA DashboardLoads ==
    ASSUME DashboardInv, Dashboard!loadUserLinks \/ Dashboard!LinksLoaded \/ Dashboard!Return
    PROVE  DashboardInv'
<1>1. /\ links \in Dashboard!Queries(Dashboard!Rows) /\ rows \in Dashboard!Rows
      /\ Dashboard!TypeOK /\ RowsInv
  BY DEF DashboardInv, Dashboard!TypeOK
<1>2. CASE Dashboard!loadUserLinks
  <2>1. /\ links' = Dashboard!Read(links, rows) /\ missed' = FALSE
        /\ UNCHANGED <<rows, at, correction, retireCandidate, pageError, shortening, call>>
    BY <1>2 DEF Dashboard!loadUserLinks
  <2>2. /\ links' \in Dashboard!Queries(Dashboard!Rows)
        /\ links'.phase = "read" /\ links'.got = rows'
    BY <1>1, <2>1, LinksQuery
  <2>3. Dashboard!TypeOK' BY <1>1, <2>1, <2>2 DEF Dashboard!TypeOK, Dashboard!LinksSet
  <2>4. QED BY <2>2, <2>3 DEF DashboardInv, RowsInv
<1>3. CASE Dashboard!LinksLoaded
  <2>1. /\ \/ links' = Dashboard!Fail(links)
           \/ links.phase = "read" /\ links' = Dashboard!Answer(links)
        /\ UNCHANGED <<rows, at, correction, retireCandidate, pageError, shortening, call,
                       missed>>
    BY <1>3 DEF Dashboard!LinksLoaded
  <2>2. /\ links' \in Dashboard!Queries(Dashboard!Rows) /\ links'.phase # "read"
        /\ links'.phase = "idle" =>
              links'.failed \/ (links.phase = "read" /\ links'.data = links.got)
    BY <1>1, <2>1, LinksQuery
  <2>3. Dashboard!TypeOK' BY <1>1, <2>1, <2>2 DEF Dashboard!TypeOK, Dashboard!LinksSet
  <2>4. ChangeUnsettled' = ChangeUnsettled BY <2>1 DEF ChangeUnsettled
  <2>5. RowsInv' BY <1>1, <2>1, <2>2, <2>4 DEF RowsInv
  <2>6. QED BY <2>3, <2>5 DEF DashboardInv
<1>4. CASE Dashboard!Return
  <2>1. /\ links' = Dashboard!Mount(links) /\ at' = "page"
        /\ UNCHANGED <<rows, correction, retireCandidate, pageError, shortening, call, missed>>
    BY <1>4 DEF Dashboard!Return
  <2>2. /\ links' \in Dashboard!Queries(Dashboard!Rows) /\ links'.phase # "idle"
        /\ links'.phase = "read" => links' = links
    BY <1>1, <2>1, LinksQuery
  <2>3. Dashboard!TypeOK' BY <1>1, <2>1, <2>2 DEF Dashboard!TypeOK, Dashboard!LinksSet
  <2>4. ChangeUnsettled' = ChangeUnsettled BY <2>1 DEF ChangeUnsettled
  <2>5. RowsInv' BY <1>1, <2>1, <2>2, <2>4 DEF RowsInv
  <2>6. QED BY <2>3, <2>5 DEF DashboardInv
<1>5. QED BY <1>2, <1>3, <1>4

\* The server makes a change, which is then unsettled, or refuses it.
LEMMA DashboardServed ==
    ASSUME DashboardInv, NEW c \in Calls, Dashboard!Serve(c) \/ Dashboard!LoseReply(c)
    PROVE  DashboardInv'
<1>1. /\ call[c] # None /\ Dashboard!TypeOK /\ RowsInv
      /\ UNCHANGED <<links, at, correction, retireCandidate, pageError, shortening, missed>>
  BY DEF Dashboard!Serve, Dashboard!LoseReply, DashboardInv
<1>2. call[c] \in Dashboard!Request BY <1>1 DEF Dashboard!TypeOK
<1>3. CASE Dashboard!LoseReply(c)
  <2>1. Dashboard!Replied(c, "lost") /\ rows' = rows BY <1>3 DEF Dashboard!LoseReply
  <2>2. /\ call' \in [Calls -> Dashboard!Request \cup {None}]
        /\ call'[c] # None /\ call'[c].reply = "lost"
    BY <1>1, <2>1, CallReplied
  <2>3. ChangeUnsettled' BY <2>2 DEF ChangeUnsettled
  <2>4. QED BY <1>1, <2>1, <2>2, <2>3, DashboardQuiet DEF Dashboard!TypeOK
<1>4. CASE Dashboard!Serve(c) /\ Dashboard!Refuse(c)
  <2>1. Dashboard!Replied(c, "refused") /\ rows' = rows /\ call[c].reply = "none"
    BY <1>4 DEF Dashboard!Serve, Dashboard!Refuse
  <2>2. /\ call' \in [Calls -> Dashboard!Request \cup {None}]
        /\ \A d \in Calls \ {c} : call'[d] = call[d]
    BY <1>1, <2>1, CallReplied
  <2>3. ChangeUnsettled => ChangeUnsettled' BY <2>1, <2>2 DEF ChangeUnsettled
  <2>4. QED BY <1>1, <2>1, <2>2, <2>3, DashboardQuiet DEF Dashboard!TypeOK
<1>5. CASE Dashboard!Serve(c) /\ ~Dashboard!Refuse(c)
  <2>1. Dashboard!Replied(c, "ok") /\ rows' \in Dashboard!Rows
    BY <1>1, <1>2, <1>5
       DEF Dashboard!Serve, Dashboard!ServeShorten, Dashboard!ServeCorrect,
           Dashboard!ServeRetire, Dashboard!Rows, Dashboard!Request, Dashboard!TypeOK
  <2>2. /\ call' \in [Calls -> Dashboard!Request \cup {None}]
        /\ call'[c] # None /\ call'[c].reply = "ok"
    BY <1>1, <2>1, CallReplied
  <2>3. ChangeUnsettled' BY <2>2 DEF ChangeUnsettled
  <2>4. Dashboard!TypeOK' BY <1>1, <2>1, <2>2 DEF Dashboard!TypeOK, Dashboard!LinksSet
  <2>5. QED BY <2>3, <2>4 DEF DashboardInv, RowsInv
<1>6. QED BY <1>3, <1>4, <1>5

\* A change that is settled restarts the load, or is recorded as missed.
LEMMA DashboardSettles ==
    ASSUME DashboardInv, NEW c \in Calls, Dashboard!Settle(c)
    PROVE  DashboardInv'
<1>1. /\ Dashboard!TypeOK /\ RowsInv /\ call[c] # None /\ call[c].reply # "none"
      /\ call' = [call EXCEPT ![c] = None] /\ UNCHANGED <<rows, at>>
  BY DEF DashboardInv, Dashboard!Settle
<1>2. /\ call[c] \in Dashboard!Request /\ links \in Dashboard!Queries(Dashboard!Rows)
      /\ rows \in Dashboard!Rows
  BY <1>1 DEF Dashboard!TypeOK
<1>3. /\ call' \in [Calls -> Dashboard!Request \cup {None}]
      /\ call'[c] = None /\ \A d \in Calls \ {c} : call'[d] = call[d]
  BY <1>1, CallChanges
<1>4. /\ correction' \in Dashboard!Correction \cup {None}
      /\ retireCandidate' \in Slugs \cup {None}
      /\ pageError' \in BOOLEAN /\ shortening' \in BOOLEAN
  <2>1. call[c].mine \in BOOLEAN BY <1>2 DEF Dashboard!Request
  <2>2. CASE Dashboard!Shortened(c)
    BY <1>1, <2>1, <2>2 DEF Dashboard!Shortened, Dashboard!TypeOK
  <2>3. CASE Dashboard!Retired(c)
    BY <1>1, <2>1, <2>3 DEF Dashboard!Retired, Dashboard!TypeOK
  <2>4. CASE Dashboard!Corrected(c)
    <3>1. UNCHANGED <<shortening, retireCandidate, pageError>>
      BY <2>4 DEF Dashboard!Corrected
    <3>2. correction' \in {correction, Dashboard!correctionReducer("close"),
                           Dashboard!correctionReducer("refused")}
      BY <2>1, <2>4 DEF Dashboard!Corrected
    <3>3. Dashboard!correctionReducer("close") = None BY DEF Dashboard!correctionReducer
    <3>4. Dashboard!correctionReducer("refused") \in Dashboard!Correction \cup {None}
      BY <1>1 DEF Dashboard!correctionReducer, Dashboard!TypeOK, Dashboard!Correction
    <3>5. QED BY <1>1, <3>1, <3>2, <3>3, <3>4 DEF Dashboard!TypeOK
  <2>5. QED BY <2>2, <2>3, <2>4 DEF Dashboard!Settle
<1>5. IF call[c].reply = "ok" THEN Dashboard!InvalidateLinks ELSE Dashboard!NoLoad(c)
  BY DEF Dashboard!Settle, Dashboard!Shortened, Dashboard!Corrected, Dashboard!Retired
<1>6. CASE call[c].reply = "ok"
  <2>1. /\ links' = IF at = "page" THEN Dashboard!Invalidate(links) ELSE links
        /\ missed' = (missed \/ links'.phase = "read")
    BY <1>5, <1>6 DEF Dashboard!InvalidateLinks
  <2>2. /\ links' \in Dashboard!Queries(Dashboard!Rows)
        /\ at = "page" => links'.phase # "idle"
    BY <1>2, <2>1, LinksQuery
  <2>3. Dashboard!TypeOK'
    BY <1>1, <1>3, <1>4, <2>1, <2>2 DEF Dashboard!TypeOK, Dashboard!LinksSet
  <2>4. RowsInv' BY <1>1, <2>1, <2>2 DEF RowsInv
  <2>5. QED BY <2>3, <2>4 DEF DashboardInv
<1>7. CASE call[c].reply = "lost"
  <2>1. links' = links /\ missed' = TRUE BY <1>5, <1>7 DEF Dashboard!NoLoad
  <2>2. Dashboard!TypeOK'
    BY <1>1, <1>3, <1>4, <2>1 DEF Dashboard!TypeOK, Dashboard!LinksSet
  <2>3. QED BY <2>1, <2>2 DEF DashboardInv, RowsInv
<1>8. CASE call[c].reply = "refused"
  <2>1. links' = links /\ missed' = missed
    BY <1>1, <1>5, <1>8 DEF Dashboard!NoLoad, Dashboard!TypeOK
  <2>2. ChangeUnsettled => ChangeUnsettled' BY <1>3, <1>8 DEF ChangeUnsettled
  <2>3. QED BY <1>1, <1>3, <1>4, <2>1, <2>2, DashboardQuiet DEF Dashboard!TypeOK
<1>9. QED BY <1>1, <1>2, <1>6, <1>7, <1>8 DEF Dashboard!Request

\* What the owner does on the page.
LEMMA DashboardActs ==
    ASSUME DashboardInv,
           \/ Dashboard!Leave
           \/ Dashboard!handleCancelCorrection \/ Dashboard!handleCancelRetire
           \/ \E s \in Slugs : Dashboard!handleOpenCorrection(s) \/ Dashboard!handleRetire(s)
           \/ UNCHANGED dashboardVars
    PROVE  DashboardInv'
<1>1. Dashboard!TypeOK BY DEF DashboardInv
<1>2. CASE Dashboard!Leave
  <2>1. call' = [c \in Calls |-> IF call[c] = None THEN None
                                 ELSE [call[c] EXCEPT !.mine = FALSE]]
    BY <1>2 DEF Dashboard!Leave
  <2>2. ASSUME NEW c \in Calls, call[c] # None
        PROVE  /\ [call[c] EXCEPT !.mine = FALSE] \in Dashboard!Request
               /\ [call[c] EXCEPT !.mine = FALSE].reply = call[c].reply
    <3>1. call[c] \in Dashboard!Request BY <1>1, <2>2 DEF Dashboard!TypeOK
    <3>2. QED BY <3>1 DEF Dashboard!Request
  <2>3. call' \in [Calls -> Dashboard!Request \cup {None}] BY <2>1, <2>2
  <2>4. \A c \in Calls : call[c] # None => call'[c] # None /\ call'[c].reply = call[c].reply
    BY <2>1, <2>2, SurfaceAssumption
  <2>5. ChangeUnsettled => ChangeUnsettled' BY <2>4 DEF ChangeUnsettled
  <2>6. QED
    BY <1>1, <1>2, <2>3, <2>5, DashboardQuiet DEF Dashboard!Leave, Dashboard!TypeOK
<1>3. CASE call' = call
  <2>1. ChangeUnsettled' = ChangeUnsettled BY <1>3 DEF ChangeUnsettled
  <2>2. CASE Dashboard!handleCancelCorrection
    BY <1>1, <2>1, <2>2, DashboardQuiet DEF Dashboard!handleCancelCorrection, Dashboard!TypeOK
  <2>3. CASE Dashboard!handleCancelRetire
    BY <1>1, <2>1, <2>3, DashboardQuiet DEF Dashboard!handleCancelRetire, Dashboard!TypeOK
  <2>4. ASSUME NEW s \in Slugs, Dashboard!handleOpenCorrection(s) PROVE DashboardInv'
    <3>1. [slug |-> s, phase |-> "editing", error |-> FALSE] \in Dashboard!Correction
      BY DEF Dashboard!Correction
    <3>2. QED
      BY <1>1, <2>1, <2>4, <3>1, DashboardQuiet
         DEF Dashboard!handleOpenCorrection, Dashboard!TypeOK
  <2>5. ASSUME NEW s \in Slugs, Dashboard!handleRetire(s) PROVE DashboardInv'
    BY <1>1, <2>1, <2>5, DashboardQuiet DEF Dashboard!handleRetire, Dashboard!TypeOK
  <2>6. CASE UNCHANGED dashboardVars
    BY <1>1, <2>1, <2>6, DashboardQuiet DEF dashboardVars, Dashboard!TypeOK
  <2>7. QED BY <1>2, <2>2, <2>3, <2>4, <2>5, <2>6
<1>4. QED
  BY <1>2, <1>3
     DEF Dashboard!handleCancelCorrection, Dashboard!handleCancelRetire,
         Dashboard!handleOpenCorrection, Dashboard!handleRetire, dashboardVars

\* The requests the page sends.
LEMMA DashboardSends ==
    ASSUME DashboardInv, NEW c \in Calls,
           \/ Dashboard!handleRetireConfirm(c)
           \/ \E u \in Urls : \/ Dashboard!Shorten(c, u)
                              \/ \E s \in Slugs : Dashboard!handleConfirmCorrection(c, s, u)
    PROVE  DashboardInv'
<1>1. Dashboard!TypeOK BY DEF DashboardInv
<1>2. CASE Dashboard!handleRetireConfirm(c)
  <2>1. Dashboard!Send(c, "retire", retireCandidate, None)
    BY <1>2 DEF Dashboard!handleRetireConfirm
  <2>2. retireCandidate \in Slugs \cup {None} BY <1>1 DEF Dashboard!TypeOK
  <2>3. call' \in [Calls -> Dashboard!Request \cup {None}]
        /\ (ChangeUnsettled => ChangeUnsettled')
    BY <2>1, <2>2, CallSent
  <2>4. QED
    BY <1>1, <1>2, <2>3, DashboardQuiet DEF Dashboard!handleRetireConfirm, Dashboard!TypeOK
<1>3. ASSUME NEW u \in Urls, Dashboard!Shorten(c, u) PROVE DashboardInv'
  <2>1. Dashboard!Send(c, "shorten", None, u) BY <1>3 DEF Dashboard!Shorten
  <2>2. call' \in [Calls -> Dashboard!Request \cup {None}]
        /\ (ChangeUnsettled => ChangeUnsettled')
    BY <2>1, CallSent
  <2>3. QED BY <1>1, <1>3, <2>2, DashboardQuiet DEF Dashboard!Shorten, Dashboard!TypeOK
<1>4. ASSUME NEW u \in Urls, NEW s \in Slugs, Dashboard!handleConfirmCorrection(c, s, u)
      PROVE  DashboardInv'
  <2>1. Dashboard!Send(c, "correct", s, u) BY <1>4 DEF Dashboard!handleConfirmCorrection
  <2>2. call' \in [Calls -> Dashboard!Request \cup {None}]
        /\ (ChangeUnsettled => ChangeUnsettled')
    BY <2>1, CallSent
  <2>3. correction' \in Dashboard!Correction
    <3>1. correction \in Dashboard!Correction
      BY <1>1, <1>4
         DEF Dashboard!handleConfirmCorrection, Dashboard!DestinationCorrection,
             Dashboard!TypeOK
    <3>2. correction' = [correction EXCEPT !.phase = "saving"]
      BY <1>4 DEF Dashboard!handleConfirmCorrection
    <3>3. QED BY <3>1, <3>2 DEF Dashboard!Correction
  <2>4. QED
    BY <1>1, <1>4, <2>2, <2>3, DashboardQuiet
       DEF Dashboard!handleConfirmCorrection, Dashboard!TypeOK
<1>5. QED BY <1>2, <1>3, <1>4

LEMMA DashboardStep == ASSUME DashboardInv, [Dashboard!Next]_dashboardVars PROVE DashboardInv'
<1>1. CASE UNCHANGED dashboardVars BY <1>1, DashboardActs
<1>2. CASE Dashboard!Next
  BY <1>2, DashboardLoads, DashboardActs, DashboardSends, DashboardServed, DashboardSettles
     DEF Dashboard!Next
<1>3. QED BY <1>1, <1>2

LEMMA DashboardShows == DashboardInv => Dashboard!SetShowsTheRows
<1>1. SUFFICES ASSUME DashboardInv, \A c \in Calls : call[c] = None
               PROVE  Dashboard!SetShowsTheRows
  BY DEF Dashboard!SetShowsTheRows
<1>2. ~ChangeUnsettled BY <1>1 DEF ChangeUnsettled
<1>3. QED
  BY <1>1, <1>2 DEF DashboardInv, RowsInv, Dashboard!SetShowsTheRows, Dashboard!Underway

-----------------------------------------------------------------------------
(* WebKeys.                                                                *)

LEMMA KeysQueries ==
    /\ \A Data : ApiKeysPage!Queries(Data) = Cache!Queries(Data)
    /\ ApiKeysPage!Cold = Cache!Cold
    /\ \A q : /\ ApiKeysPage!Ask(q) = Cache!Ask(q) /\ ApiKeysPage!Answer(q) = Cache!Answer(q)
              /\ ApiKeysPage!Fail(q) = Cache!Fail(q)
              /\ ApiKeysPage!Invalidate(q) = Cache!Invalidate(q)
              /\ ApiKeysPage!Underway(q) = Cache!Underway(q)
              /\ ApiKeysPage!IsLoading(q) = Cache!IsLoading(q)
              /\ \A d : ApiKeysPage!Read(q, d) = Cache!Read(q, d)
BY DEF ApiKeysPage!Queries, ApiKeysPage!Cold, ApiKeysPage!Ask, ApiKeysPage!Answer,
       ApiKeysPage!Fail, ApiKeysPage!Underway, ApiKeysPage!Read, ApiKeysPage!Retries,
       ApiKeysPage!Invalidate, ApiKeysPage!IsLoading, Cache!Queries, Cache!Cold, Cache!Ask,
       Cache!Answer, Cache!Fail, Cache!Underway, Cache!Read, Cache!Retries, Cache!Invalidate,
       Cache!IsLoading

LEMMA ReviewQuery ==
    ASSUME NEW q \in ApiKeysPage!Queries(ApiKeysPage!Standings),
           NEW d \in ApiKeysPage!Standings
    PROVE  /\ ApiKeysPage!Read(q, d) \in ApiKeysPage!Queries(ApiKeysPage!Standings)
           /\ ApiKeysPage!Answer(q) \in ApiKeysPage!Queries(ApiKeysPage!Standings)
           /\ ApiKeysPage!Fail(q) \in ApiKeysPage!Queries(ApiKeysPage!Standings)
           /\ ApiKeysPage!Invalidate(q) \in ApiKeysPage!Queries(ApiKeysPage!Standings)
           /\ ApiKeysPage!Read(q, d).phase = "read" /\ ApiKeysPage!Read(q, d).got = d
           /\ ApiKeysPage!Answer(q).phase = "idle" /\ ApiKeysPage!Answer(q).data = q.got
           /\ ApiKeysPage!Fail(q).phase # "read"
           /\ ApiKeysPage!Fail(q).phase = "idle" => ApiKeysPage!Fail(q).failed
           /\ ApiKeysPage!Invalidate(q).phase # "idle"
<1>1. q \in Cache!Queries(ApiKeysPage!Standings) BY KeysQueries
<1>2. ApiKeysPage!IsLoading(q) => q.phase # "idle"
  BY DEF ApiKeysPage!IsLoading, ApiKeysPage!Underway
<1>3. QED BY <1>1, <1>2, KeysQueries, QueryTypes, QueryResults

\* A change that the server made is not settled yet.
KeyUnsettled == \E c \in Asks : ask[c] # None /\ ask[c].reply \in {"ok", "lost"}

\* The load underway has read the standings of now, unless a change was made that
\* is to be settled or of which the list was told nothing; and so has the list.
StandingsInv ==
    ~KeyUnsettled /\ ~untold =>
        /\ review.phase = "read" => review.got = standing
        /\ review.phase = "idle" /\ ~review.failed => review.data = standing

\* The answer of an issue that was made carries the key, whose secret it shows.
KeyGiven ==
    \A c \in Asks : ask[c] # None /\ ask[c].op = "issue" /\ ask[c].reply = "ok" =>
        ask[c].key \in Keys

KeysInv == ApiKeysPage!TypeOK /\ StandingsInv /\ KeyGiven

LEMMA KeysInit == ApiKeysPage!Init => KeysInv
<1>. SUFFICES ASSUME ApiKeysPage!Init PROVE KeysInv OBVIOUS
<1>1. Cache!Cold \in Cache!Queries(ApiKeysPage!Standings)
  BY DEF Cache!Cold, Cache!Queries, Cache!Retries
<1>2. standing \in ApiKeysPage!Standings BY DEF ApiKeysPage!Init
<1>3. review = ApiKeysPage!Ask(ApiKeysPage!Cold) BY DEF ApiKeysPage!Init
<1>4. review \in ApiKeysPage!Queries(ApiKeysPage!Standings)
  BY <1>1, <1>3, KeysQueries, QueryTypes
<1>5. review.phase = "asked"
  <2>1. Cache!Ask(Cache!Cold).phase = "asked" BY <1>1, <1>2, QueryResults
  <2>2. QED BY <1>3, <2>1, KeysQueries
<1>6. issueOutcome.kind = "idle" /\ issueOutcome.key = None
      /\ issueOutcome \in [kind : {"idle", "underway", "refused", "issued"},
                           key : Keys \cup {None}]
  BY DEF ApiKeysPage!Init, ApiKeysPage!Outcome
<1>7. ApiKeysPage!TypeOK
  BY <1>2, <1>4, <1>6 DEF ApiKeysPage!Init, ApiKeysPage!TypeOK, ApiKeysPage!SecretShowing
<1>8. QED BY <1>5, <1>7 DEF ApiKeysPage!Init, KeysInv, StandingsInv, KeyGiven

\* One request changes.
LEMMA AskChanges ==
    ASSUME KeysInv, NEW c \in Asks, NEW r \in ApiKeysPage!Request \cup {None},
           ask' = [ask EXCEPT ![c] = r],
           r # None /\ r.op = "issue" /\ r.reply = "ok" => r.key \in Keys
    PROVE  /\ ask' \in [Asks -> ApiKeysPage!Request \cup {None}]
           /\ ask'[c] = r /\ \A d \in Asks \ {c} : ask'[d] = ask[d]
           /\ KeyGiven'
<1>1. ask' \in [Asks -> ApiKeysPage!Request \cup {None}]
      /\ ask'[c] = r /\ \A d \in Asks \ {c} : ask'[d] = ask[d]
  BY DEF KeysInv, ApiKeysPage!TypeOK
<1>2. QED BY <1>1 DEF KeysInv, KeyGiven

LEMMA KeysLoad ==
    ASSUME KeysInv, ApiKeysPage!loadApiKeys \/ ApiKeysPage!KeysLoaded
    PROVE  KeysInv'
<1>1. /\ ApiKeysPage!TypeOK /\ StandingsInv /\ KeyGiven
      /\ review \in ApiKeysPage!Queries(ApiKeysPage!Standings)
      /\ standing \in ApiKeysPage!Standings
  BY DEF KeysInv, ApiKeysPage!TypeOK
<1>2. UNCHANGED <<standing, issueOutcome, ask, adrift>>
  BY DEF ApiKeysPage!loadApiKeys, ApiKeysPage!KeysLoaded
<1>3. KeyUnsettled' = KeyUnsettled /\ KeyGiven' BY <1>1, <1>2 DEF KeyUnsettled, KeyGiven
<1>4. CASE ApiKeysPage!loadApiKeys
  <2>1. review' = ApiKeysPage!Read(review, standing) /\ untold' = FALSE
    BY <1>4 DEF ApiKeysPage!loadApiKeys
  <2>2. /\ review' \in ApiKeysPage!Queries(ApiKeysPage!Standings)
        /\ review'.phase = "read" /\ review'.got = standing'
    BY <1>1, <1>2, <2>1, ReviewQuery
  <2>3. ApiKeysPage!TypeOK'
    BY <1>1, <1>2, <2>1, <2>2 DEF ApiKeysPage!TypeOK, ApiKeysPage!SecretShowing
  <2>4. QED BY <1>3, <2>2, <2>3 DEF KeysInv, StandingsInv
<1>5. CASE ApiKeysPage!KeysLoaded
  <2>1. /\ \/ review' = ApiKeysPage!Fail(review)
           \/ review.phase = "read" /\ review' = ApiKeysPage!Answer(review)
        /\ untold' = untold
    BY <1>5 DEF ApiKeysPage!KeysLoaded
  <2>2. /\ review' \in ApiKeysPage!Queries(ApiKeysPage!Standings) /\ review'.phase # "read"
        /\ review'.phase = "idle" =>
              review'.failed \/ (review.phase = "read" /\ review'.data = review.got)
    BY <1>1, <2>1, ReviewQuery
  <2>3. ApiKeysPage!TypeOK'
    BY <1>1, <1>2, <2>1, <2>2 DEF ApiKeysPage!TypeOK, ApiKeysPage!SecretShowing
  <2>4. StandingsInv' BY <1>1, <1>2, <1>3, <2>1, <2>2 DEF StandingsInv
  <2>5. QED BY <1>3, <2>3, <2>4 DEF KeysInv
<1>6. QED BY <1>4, <1>5

LEMMA KeysAct ==
    ASSUME KeysInv, NEW c \in Asks,
           ApiKeysPage!handleIssue(c) \/ \E k \in Keys : ApiKeysPage!handleRevoke(c, k)
    PROVE  KeysInv'
<1>1. ApiKeysPage!TypeOK /\ StandingsInv /\ KeyGiven BY DEF KeysInv
<1>2. PICK op \in {"issue", "revoke"}, k \in Keys \cup {None} : ApiKeysPage!Send(c, op, k)
  BY DEF ApiKeysPage!handleIssue, ApiKeysPage!handleRevoke
<1>. DEFINE r == [op |-> op, key |-> k, reply |-> "none"]
<1>3. r \in ApiKeysPage!Request /\ r.reply = "none" BY DEF ApiKeysPage!Request
<1>4. ask[c] = None /\ ask' = [ask EXCEPT ![c] = r] BY <1>2 DEF ApiKeysPage!Send
<1>. HIDE DEF r
<1>5. /\ ask' \in [Asks -> ApiKeysPage!Request \cup {None}] /\ KeyGiven'
      /\ \A d \in Asks \ {c} : ask'[d] = ask[d]
  BY <1>3, <1>4, AskChanges
<1>6. UNCHANGED <<standing, review, adrift, untold>>
  BY DEF ApiKeysPage!handleIssue, ApiKeysPage!handleRevoke
<1>7. /\ issueOutcome' \in [kind : {"idle", "underway", "refused", "issued"},
                            key : Keys \cup {None}]
      /\ ApiKeysPage!SecretShowing' <=> issueOutcome'.key # None
  <2>1. CASE issueOutcome' = issueOutcome
    BY <1>1, <2>1 DEF ApiKeysPage!TypeOK, ApiKeysPage!SecretShowing
  <2>2. CASE issueOutcome' = ApiKeysPage!Outcome("underway", None)
    BY <2>2 DEF ApiKeysPage!Outcome, ApiKeysPage!SecretShowing
  <2>3. QED BY <2>1, <2>2 DEF ApiKeysPage!handleIssue, ApiKeysPage!handleRevoke
<1>8. ApiKeysPage!TypeOK' BY <1>1, <1>5, <1>6, <1>7 DEF ApiKeysPage!TypeOK
<1>9. KeyUnsettled => KeyUnsettled' BY <1>4, <1>5 DEF KeyUnsettled
<1>10. StandingsInv' BY <1>1, <1>6, <1>9 DEF StandingsInv
<1>11. QED BY <1>5, <1>8, <1>10 DEF KeysInv

LEMMA AppliedTypes ==
    ASSUME KeysInv, NEW op, NEW k \in Keys, ApiKeysPage!Applied(op, k)
    PROVE  standing' \in ApiKeysPage!Standings
BY DEF KeysInv, ApiKeysPage!TypeOK, ApiKeysPage!Standings, ApiKeysPage!Applied

\* The server makes a change, which is then unsettled, or refuses it; or the request
\* is given up, and then it is as if it had been refused.
LEMMA KeysServed ==
    ASSUME KeysInv, NEW c \in Asks,
           ApiKeysPage!Serve(c) \/ ApiKeysPage!LoseReply(c) \/ ApiKeysPage!GiveUp(c)
    PROVE  KeysInv'
<1>1. /\ ApiKeysPage!TypeOK /\ StandingsInv /\ KeyGiven /\ ask[c] # None
      /\ UNCHANGED <<review, issueOutcome, untold>>
  BY DEF KeysInv, ApiKeysPage!Serve, ApiKeysPage!LoseReply, ApiKeysPage!GiveUp
<1>2. ask[c] \in ApiKeysPage!Request BY <1>1 DEF ApiKeysPage!TypeOK
<1>3. PICK r \in ApiKeysPage!Request :
         /\ ask' = [ask EXCEPT ![c] = r]
         /\ r.op = "issue" /\ r.reply = "ok" => r.key \in Keys
         /\ \/ r.reply \in {"ok", "lost"} /\ standing' \in ApiKeysPage!Standings
            \/ r.reply = "refused" /\ ask[c].reply = "none" /\ standing' = standing
  <2>1. CASE ApiKeysPage!LoseReply(c)
    <3>. DEFINE r == [ask[c] EXCEPT !.reply = "lost"]
    <3>1. r \in ApiKeysPage!Request /\ r.reply = "lost" BY <1>2 DEF ApiKeysPage!Request
    <3>2. ask' = [ask EXCEPT ![c] = r] /\ standing' = standing
      BY <2>1, <1>1 DEF ApiKeysPage!LoseReply, ApiKeysPage!TypeOK
    <3>. HIDE DEF r
    <3>3. QED BY <1>1, <3>1, <3>2 DEF ApiKeysPage!TypeOK
  <2>2. CASE \E k \in Keys :
                /\ ApiKeysPage!Applied(ask[c].op, k)
                /\ ask' = [ask EXCEPT ![c].key = k, ![c].reply = "ok"]
    <3>1. PICK k \in Keys : /\ ApiKeysPage!Applied(ask[c].op, k)
                            /\ ask' = [ask EXCEPT ![c].key = k, ![c].reply = "ok"]
      BY <2>2
    <3>. DEFINE r == [[ask[c] EXCEPT !.key = k] EXCEPT !.reply = "ok"]
    <3>2. r \in ApiKeysPage!Request /\ r.reply = "ok" /\ r.key = k
      BY <1>2 DEF ApiKeysPage!Request
    <3>3. ask' = [ask EXCEPT ![c] = r] BY <1>1, <3>1 DEF ApiKeysPage!TypeOK
    <3>4. standing' \in ApiKeysPage!Standings BY <3>1, AppliedTypes
    <3>. HIDE DEF r
    <3>5. QED BY <3>2, <3>3, <3>4
  <2>3. CASE /\ ask' = [ask EXCEPT ![c].reply = "refused"] /\ standing' = standing
             /\ ask[c].reply = "none"
    <3>. DEFINE r == [ask[c] EXCEPT !.reply = "refused"]
    <3>1. r \in ApiKeysPage!Request /\ r.reply = "refused"
      BY <1>2, <2>3 DEF ApiKeysPage!Request
    <3>2. ask' = [ask EXCEPT ![c] = r] BY <1>1, <2>3 DEF ApiKeysPage!TypeOK
    <3>. HIDE DEF r
    <3>3. QED BY <2>3, <3>1, <3>2
  <2>4. QED BY <2>1, <2>2, <2>3 DEF ApiKeysPage!Serve, ApiKeysPage!GiveUp
<1>4. /\ ask' \in [Asks -> ApiKeysPage!Request \cup {None}] /\ KeyGiven'
      /\ ask'[c] = r /\ \A d \in Asks \ {c} : ask'[d] = ask[d]
  BY <1>3, AskChanges
<1>5. standing' \in ApiKeysPage!Standings BY <1>1, <1>3 DEF ApiKeysPage!TypeOK
<1>6. adrift' \subseteq ApiKeysPage!Adrift
  <2>1. [op |-> ask[c].op, key |-> ask[c].key] \in ApiKeysPage!Adrift
    BY <1>2 DEF ApiKeysPage!Request, ApiKeysPage!Adrift
  <2>2. \/ adrift' = adrift
        \/ adrift' = adrift \cup {[op |-> ask[c].op, key |-> ask[c].key]}
    BY DEF ApiKeysPage!Serve, ApiKeysPage!LoseReply, ApiKeysPage!GiveUp
  <2>3. QED BY <1>1, <2>1, <2>2 DEF ApiKeysPage!TypeOK
<1>7. ApiKeysPage!TypeOK'
  BY <1>1, <1>4, <1>5, <1>6 DEF ApiKeysPage!TypeOK, ApiKeysPage!SecretShowing
<1>8. r # None BY <1>3, SurfaceAssumption
<1>9. StandingsInv'
  <2>1. CASE r.reply \in {"ok", "lost"}
    BY <1>4, <1>8, <2>1 DEF StandingsInv, KeyUnsettled
  <2>2. CASE r.reply = "refused" /\ ask[c].reply = "none" /\ standing' = standing
    <3>1. KeyUnsettled => KeyUnsettled' BY <1>4, <2>2 DEF KeyUnsettled
    <3>2. QED BY <1>1, <2>2, <3>1 DEF StandingsInv
  <2>3. QED BY <1>3, <2>1, <2>2
<1>10. QED BY <1>4, <1>7, <1>9 DEF KeysInv

\* A change that was given up is one the list was told nothing of.
LEMMA KeysServedLate ==
    ASSUME KeysInv, NEW a \in adrift, ApiKeysPage!ServeLate(a)
    PROVE  KeysInv'
<1>1. /\ ApiKeysPage!TypeOK /\ StandingsInv /\ KeyGiven
      /\ UNCHANGED <<review, issueOutcome, ask>>
      /\ adrift' \subseteq adrift /\ untold' = (untold \/ standing' # standing)
  BY DEF KeysInv, ApiKeysPage!ServeLate
<1>2. standing' \in ApiKeysPage!Standings
  BY <1>1, AppliedTypes DEF ApiKeysPage!ServeLate, ApiKeysPage!TypeOK
<1>3. ApiKeysPage!TypeOK'
  BY <1>1, <1>2 DEF ApiKeysPage!TypeOK, ApiKeysPage!SecretShowing
<1>4. KeyGiven' /\ KeyUnsettled' = KeyUnsettled BY <1>1 DEF KeyGiven, KeyUnsettled
<1>5. StandingsInv' BY <1>1, <1>4 DEF StandingsInv
<1>6. QED BY <1>3, <1>4, <1>5 DEF KeysInv

\* Whatever is settled restarts the load, but an issue that gave nothing.
LEMMA KeysSettle ==
    ASSUME KeysInv, NEW c \in Asks, ApiKeysPage!Settle(c)
    PROVE  KeysInv'
<1>1. /\ ApiKeysPage!TypeOK /\ StandingsInv /\ KeyGiven
      /\ ask[c] # None /\ ask[c].reply # "none"
      /\ ask' = [ask EXCEPT ![c] = None] /\ UNCHANGED <<standing, adrift>>
  BY DEF KeysInv, ApiKeysPage!Settle
<1>2. /\ ask[c] \in ApiKeysPage!Request
      /\ review \in ApiKeysPage!Queries(ApiKeysPage!Standings)
      /\ standing \in ApiKeysPage!Standings
  BY <1>1 DEF ApiKeysPage!TypeOK
<1>3. /\ ask' \in [Asks -> ApiKeysPage!Request \cup {None}] /\ KeyGiven'
      /\ ask'[c] = None /\ \A d \in Asks \ {c} : ask'[d] = ask[d]
  BY <1>1, AskChanges
<1>4. /\ issueOutcome' \in [kind : {"idle", "underway", "refused", "issued"},
                            key : Keys \cup {None}]
      /\ ApiKeysPage!SecretShowing' <=> issueOutcome'.key # None
  <2>1. CASE issueOutcome' = issueOutcome
    BY <1>1, <2>1 DEF ApiKeysPage!TypeOK, ApiKeysPage!SecretShowing
  <2>2. CASE issueOutcome' = ApiKeysPage!Outcome("refused", None)
    BY <2>2 DEF ApiKeysPage!Outcome, ApiKeysPage!SecretShowing
  <2>3. CASE /\ issueOutcome' = ApiKeysPage!Outcome("issued", ask[c].key)
             /\ ask[c].op = "issue" /\ ask[c].reply = "ok"
    <3>1. ask[c].key \in Keys /\ ask[c].key # None
      BY <1>1, <2>3, SurfaceAssumption DEF KeyGiven
    <3>2. QED BY <2>3, <3>1 DEF ApiKeysPage!Outcome, ApiKeysPage!SecretShowing
  <2>4. QED
    BY <2>1, <2>2, <2>3 DEF ApiKeysPage!Settle, ApiKeysPage!Issued, ApiKeysPage!Revoked
<1>5. \/ /\ review' = ApiKeysPage!Invalidate(review)
         /\ untold' = (untold \/ review'.phase = "read")
      \/ review' = review /\ untold' = TRUE
      \/ review' = review /\ untold' = untold /\ ask[c].reply = "refused"
  <2>1. CASE ApiKeysPage!InvalidateKeys BY <2>1 DEF ApiKeysPage!InvalidateKeys
  <2>2. CASE /\ review' = review /\ untold' = (untold \/ ask[c].reply = "lost")
             /\ ask[c].reply # "ok"
    BY <1>1, <1>2, <2>2 DEF ApiKeysPage!TypeOK, ApiKeysPage!Request
  <2>3. QED BY <2>1, <2>2 DEF ApiKeysPage!Settle, ApiKeysPage!Issued, ApiKeysPage!Revoked
<1>6. review' \in ApiKeysPage!Queries(ApiKeysPage!Standings) /\ untold' \in BOOLEAN
  <2>1. ApiKeysPage!Invalidate(review) \in ApiKeysPage!Queries(ApiKeysPage!Standings)
    BY <1>2, ReviewQuery
  <2>2. untold' \in BOOLEAN BY <1>1, <1>5 DEF ApiKeysPage!TypeOK
  <2>3. QED BY <1>2, <1>5, <2>1, <2>2
<1>7. ApiKeysPage!TypeOK' BY <1>1, <1>3, <1>4, <1>6 DEF ApiKeysPage!TypeOK
<1>8. StandingsInv'
  <2>1. CASE /\ review' = ApiKeysPage!Invalidate(review)
             /\ untold' = (untold \/ review'.phase = "read")
    <3>1. review'.phase # "idle" BY <1>2, <2>1, ReviewQuery
    <3>2. QED BY <2>1, <3>1 DEF StandingsInv
  <2>2. CASE review' = review /\ untold' = untold /\ ask[c].reply = "refused"
    <3>1. KeyUnsettled => KeyUnsettled' BY <1>3, <2>2 DEF KeyUnsettled
    <3>2. QED BY <1>1, <2>2, <3>1 DEF StandingsInv
  <2>3. QED BY <1>5, <2>1, <2>2 DEF StandingsInv
<1>9. QED BY <1>3, <1>7, <1>8 DEF KeysInv

LEMMA KeysStep == ASSUME KeysInv, [ApiKeysPage!Next]_keysVars PROVE KeysInv'
<1>1. CASE UNCHANGED keysVars
  BY <1>1
     DEF keysVars, KeysInv, ApiKeysPage!TypeOK, ApiKeysPage!SecretShowing, StandingsInv,
         KeyUnsettled, KeyGiven
<1>2. CASE ApiKeysPage!Next
  BY <1>2, KeysLoad, KeysAct, KeysServed, KeysServedLate, KeysSettle DEF ApiKeysPage!Next
<1>3. QED BY <1>1, <1>2

LEMMA KeysShow == KeysInv => ApiKeysPage!ListCarriesTheTruth
<1>1. SUFFICES ASSUME KeysInv, \A c \in Asks : ask[c] = None
               PROVE  ApiKeysPage!ListCarriesTheTruth
  BY DEF ApiKeysPage!ListCarriesTheTruth
<1>2. ~KeyUnsettled BY <1>1 DEF KeyUnsettled
<1>3. QED
  BY <1>1, <1>2
     DEF KeysInv, StandingsInv, ApiKeysPage!ListCarriesTheTruth, ApiKeysPage!Underway

-----------------------------------------------------------------------------
(* WebPreferences.                                                         *)

\* The head leaves its color on the body where its script runs, once the document is
\* loaded; and the preference held is the system's, unless a change is to be delivered
\* or fell before the subscription.
ModeInv ==
    /\ doc.initialBg = IF policy = "open" THEN doc.due ELSE None
    /\ doc.inlineBg = IF doc.loaded THEN doc.initialBg ELSE None
    /\ doc.stage # "subscribed" => ~doc.told
    /\ doc.stage # "head" /\ ~doc.told /\ ~doc.unheard => doc.prefersDark = osDark

PreferencesInv == Preferences!TypeOK /\ ModeInv

\* The document that a load begins with.
LEMMA HeadTypes ==
    LET d == Preferences!HeadRead(
                 Preferences!resolveEffectiveMode(Preferences!readPersistedMode, osDark))
    IN  /\ d \in Preferences!Documents
        /\ d.initialBg = (IF policy = "open" THEN d.due ELSE None) /\ d.inlineBg = None
        /\ ~d.loaded /\ d.stage = "head" /\ ~d.told
<1>. DEFINE due == Preferences!resolveEffectiveMode(Preferences!readPersistedMode, osDark)
<1>1. Preferences!readPersistedMode \in Preferences!THEME_MODE_VALUES
  BY DEF Preferences!readPersistedMode, Preferences!THEME_MODE_VALUES
<1>2. due \in Preferences!Surfaces
  BY <1>1
     DEF Preferences!resolveEffectiveMode, Preferences!Surfaces, Preferences!THEME_MODE_VALUES
<1>. HIDE DEF due
<1>3. Preferences!HeadRead(due) \in Preferences!Documents
  BY <1>2
     DEF Preferences!HeadRead, Preferences!Documents, Preferences!InlineScripts,
         Preferences!THEME_MODE_VALUES, Preferences!LANGUAGE_VALUES
<1>4. /\ Preferences!HeadRead(due).initialBg =
            IF policy = "open" THEN Preferences!HeadRead(due).due ELSE None
      /\ Preferences!HeadRead(due).inlineBg = None /\ ~Preferences!HeadRead(due).loaded
      /\ Preferences!HeadRead(due).stage = "head" /\ ~Preferences!HeadRead(due).told
  BY DEF Preferences!HeadRead, Preferences!InlineScripts
<1>5. QED BY <1>3, <1>4 DEF due

LEMMA PreferencesInit == Preferences!Init => PreferencesInv
<1>. SUFFICES ASSUME Preferences!Init PROVE PreferencesInv OBVIOUS
<1>1. /\ doc \in Preferences!Documents
      /\ doc.initialBg = (IF policy = "open" THEN doc.due ELSE None) /\ doc.inlineBg = None
      /\ ~doc.loaded /\ doc.stage = "head" /\ ~doc.told
  BY HeadTypes DEF Preferences!Init
<1>2. Preferences!TypeOK BY <1>1 DEF Preferences!Init, Preferences!TypeOK
<1>3. QED BY <1>1, <1>2 DEF PreferencesInv, ModeInv

\* What a step makes of the document, one field after the other.
LEMMA DocumentChanges ==
    ASSUME NEW d \in Preferences!Documents
    PROVE  /\ [[d EXCEPT !.loaded = TRUE] EXCEPT !.inlineBg = d.initialBg]
                 \in Preferences!Documents
           /\ [d EXCEPT !.stage = "subscribed"] \in Preferences!Documents
           /\ \A b \in BOOLEAN, c \in BOOLEAN :
                 [[d EXCEPT !.told = b] EXCEPT !.unheard = c] \in Preferences!Documents
           /\ \A b \in BOOLEAN : [d EXCEPT !.prefersDark = b] \in Preferences!Documents
           /\ \A b \in BOOLEAN : [d EXCEPT !.panel = b] \in Preferences!Documents
           /\ \A m \in Preferences!THEME_MODE_VALUES :
                 [d EXCEPT !.mode = m] \in Preferences!Documents
           /\ \A l \in Preferences!LANGUAGE_VALUES :
                 [d EXCEPT !.language = l] \in Preferences!Documents
           /\ [d EXCEPT !.stage = "rendered"] \in Preferences!Documents
<1>. USE DEF Preferences!Documents
<1>1. [[d EXCEPT !.loaded = TRUE] EXCEPT !.inlineBg = d.initialBg] \in Preferences!Documents
  OBVIOUS
<1>2. /\ [d EXCEPT !.stage = "subscribed"] \in Preferences!Documents
      /\ [d EXCEPT !.stage = "rendered"] \in Preferences!Documents
  OBVIOUS
<1>3. ASSUME NEW b \in BOOLEAN, NEW c \in BOOLEAN
      PROVE  [[d EXCEPT !.told = b] EXCEPT !.unheard = c] \in Preferences!Documents
  OBVIOUS
<1>4. ASSUME NEW b \in BOOLEAN
      PROVE  /\ [d EXCEPT !.prefersDark = b] \in Preferences!Documents
             /\ [d EXCEPT !.panel = b] \in Preferences!Documents
  OBVIOUS
<1>5. ASSUME NEW m \in Preferences!THEME_MODE_VALUES
      PROVE  [d EXCEPT !.mode = m] \in Preferences!Documents
  OBVIOUS
<1>6. ASSUME NEW l \in Preferences!LANGUAGE_VALUES
      PROVE  [d EXCEPT !.language = l] \in Preferences!Documents
  OBVIOUS
<1>7. QED BY <1>1, <1>2, <1>3, <1>4, <1>5, <1>6

LEMMA PreferencesNext == ASSUME PreferencesInv, Preferences!Next PROVE PreferencesInv'
<1>0. /\ Preferences!TypeOK /\ ModeInv /\ doc \in Preferences!Documents
      /\ osDark \in BOOLEAN
  BY DEF PreferencesInv, Preferences!TypeOK
<1>1. CASE Preferences!Reload
  <2>1. UNCHANGED <<policy, stored, locale, storable, osDark>> BY <1>1 DEF Preferences!Reload
  <2>2. /\ doc' \in Preferences!Documents
        /\ doc'.initialBg = (IF policy = "open" THEN doc'.due ELSE None)
        /\ doc'.inlineBg = None /\ ~doc'.loaded /\ doc'.stage = "head" /\ ~doc'.told
    BY <1>1, HeadTypes DEF Preferences!Reload
  <2>3. QED BY <1>0, <2>1, <2>2 DEF PreferencesInv, ModeInv, Preferences!TypeOK
<1>2. CASE Preferences!DOMContentLoaded
  <2>1. /\ UNCHANGED <<policy, stored, locale, storable, osDark>>
        /\ doc' = [[doc EXCEPT !.loaded = TRUE] EXCEPT !.inlineBg = doc.initialBg]
    BY <1>0, <1>2 DEF Preferences!DOMContentLoaded, Preferences!Documents
  <2>2. doc' \in Preferences!Documents BY <1>0, <2>1, DocumentChanges
  <2>3. /\ doc'.initialBg = doc.initialBg /\ doc'.inlineBg = doc.initialBg
        /\ doc'.due = doc.due /\ doc'.loaded = TRUE
        /\ doc'.stage = doc.stage /\ doc'.told = doc.told /\ doc'.unheard = doc.unheard
        /\ doc'.prefersDark = doc.prefersDark
    BY <1>0, <2>1 DEF Preferences!Documents
  <2>4. QED BY <1>0, <2>1, <2>2, <2>3 DEF PreferencesInv, ModeInv, Preferences!TypeOK
<1>3. CASE Preferences!ThemeModeProvider
  <2>1. /\ Preferences!readPersistedMode \in Preferences!THEME_MODE_VALUES
        /\ Preferences!detectLanguage \in Preferences!LANGUAGE_VALUES
    BY DEF Preferences!readPersistedMode, Preferences!THEME_MODE_VALUES,
           Preferences!detectLanguage, Preferences!LANGUAGE_VALUES
  <2>. DEFINE mode == Preferences!readPersistedMode
              language == Preferences!detectLanguage
              d1 == [doc EXCEPT !.stage = "rendered"]
              d2 == [d1 EXCEPT !.mode = mode]
              d3 == [d2 EXCEPT !.prefersDark = osDark]
              d4 == [d3 EXCEPT !.language = language]
  <2>2. /\ UNCHANGED <<policy, stored, storable, osDark>> /\ doc.stage = "head"
        /\ doc' = [doc EXCEPT !.stage = "rendered", !.mode = mode,
                              !.prefersDark = osDark, !.language = language]
        /\ locale' = IF storable THEN language ELSE locale
    BY <1>3 DEF Preferences!ThemeModeProvider
  <2>. HIDE DEF mode, language
  <2>3. doc' = d4 BY <1>0, <2>2 DEF Preferences!Documents
  <2>4. /\ d4 \in Preferences!Documents
        /\ d4.initialBg = doc.initialBg /\ d4.inlineBg = doc.inlineBg
        /\ d4.due = doc.due /\ d4.loaded = doc.loaded
        /\ d4.stage = "rendered" /\ d4.told = doc.told /\ d4.prefersDark = osDark
    <3>1. /\ d1 \in Preferences!Documents
          /\ d1.initialBg = doc.initialBg /\ d1.inlineBg = doc.inlineBg
          /\ d1.due = doc.due /\ d1.loaded = doc.loaded
          /\ d1.stage = "rendered" /\ d1.told = doc.told
      BY <1>0 DEF Preferences!Documents
    <3>. HIDE DEF d1
    <3>2. /\ d2 \in Preferences!Documents
          /\ d2.initialBg = doc.initialBg /\ d2.inlineBg = doc.inlineBg
          /\ d2.due = doc.due /\ d2.loaded = doc.loaded
          /\ d2.stage = "rendered" /\ d2.told = doc.told
      BY <2>1, <3>1 DEF Preferences!Documents, mode
    <3>. HIDE DEF d2
    <3>3. /\ d3 \in Preferences!Documents
          /\ d3.initialBg = doc.initialBg /\ d3.inlineBg = doc.inlineBg
          /\ d3.due = doc.due /\ d3.loaded = doc.loaded
          /\ d3.stage = "rendered" /\ d3.told = doc.told /\ d3.prefersDark = osDark
      BY <1>0, <3>2 DEF Preferences!Documents
    <3>. HIDE DEF d3
    <3>4. QED BY <2>1, <3>3 DEF Preferences!Documents, language
  <2>5. locale' \in Preferences!LANGUAGE_VALUES \cup {None, "unknown"}
    BY <1>0, <2>1, <2>2 DEF Preferences!TypeOK, language
  <2>. HIDE DEF d4
  <2>6. QED
    BY <1>0, <2>2, <2>3, <2>4, <2>5 DEF PreferencesInv, ModeInv, Preferences!TypeOK
<1>4. CASE Preferences!Subscribe
  <2>1. /\ UNCHANGED <<policy, stored, locale, storable, osDark>> /\ doc.stage = "rendered"
        /\ doc' = [doc EXCEPT !.stage = "subscribed"]
    BY <1>4 DEF Preferences!Subscribe
  <2>2. doc' \in Preferences!Documents BY <1>0, <2>1, DocumentChanges
  <2>3. /\ doc'.initialBg = doc.initialBg /\ doc'.inlineBg = doc.inlineBg
        /\ doc'.due = doc.due /\ doc'.loaded = doc.loaded
        /\ doc'.told = doc.told /\ doc'.unheard = doc.unheard
        /\ doc'.prefersDark = doc.prefersDark
    BY <1>0, <2>1 DEF Preferences!Documents
  <2>4. QED BY <1>0, <2>1, <2>2, <2>3 DEF PreferencesInv, ModeInv, Preferences!TypeOK
<1>5. CASE Preferences!OsChanges
  <2>. DEFINE told == doc.told \/ doc.stage = "subscribed"
              unheard == doc.unheard \/ doc.stage = "rendered"
  <2>1. told \in BOOLEAN /\ unheard \in BOOLEAN BY <1>0 DEF Preferences!Documents
  <2>2. /\ UNCHANGED <<policy, stored, locale, storable>> /\ osDark' = ~osDark
        /\ doc' = [doc EXCEPT !.told = told, !.unheard = unheard]
    BY <1>5 DEF Preferences!OsChanges
  <2>. HIDE DEF told, unheard
  <2>3. doc' = [[doc EXCEPT !.told = told] EXCEPT !.unheard = unheard]
    BY <1>0, <2>2 DEF Preferences!Documents
  <2>4. doc' \in Preferences!Documents BY <1>0, <2>1, <2>3, DocumentChanges
  <2>5. /\ doc'.initialBg = doc.initialBg /\ doc'.inlineBg = doc.inlineBg
        /\ doc'.due = doc.due /\ doc'.loaded = doc.loaded
        /\ doc'.stage = doc.stage /\ doc'.told = told /\ doc'.unheard = unheard
    BY <1>0, <2>3 DEF Preferences!Documents
  <2>6. doc.stage \in {"head", "rendered", "subscribed"} BY <1>0 DEF Preferences!Documents
  <2>7. /\ doc.stage = "rendered" => unheard
        /\ doc.stage = "subscribed" => told
        /\ doc.stage # "subscribed" => ~told \/ doc.told
    BY DEF told, unheard
  <2>8. /\ doc'.stage # "head" => doc'.told \/ doc'.unheard
        /\ doc'.stage # "subscribed" => ~doc'.told
    BY <1>0, <2>5, <2>6, <2>7 DEF ModeInv
  <2>9. /\ doc'.initialBg = IF policy' = "open" THEN doc'.due ELSE None
        /\ doc'.inlineBg = IF doc'.loaded THEN doc'.initialBg ELSE None
    BY <1>0, <2>2, <2>5 DEF ModeInv
  <2>10. ModeInv' BY <2>8, <2>9 DEF ModeInv
  <2>11. QED BY <1>0, <2>2, <2>4, <2>10 DEF PreferencesInv, Preferences!TypeOK
<1>6. CASE Preferences!onChange
  <2>. DEFINE d1 == [doc EXCEPT !.prefersDark = osDark]
  <2>1. /\ UNCHANGED <<policy, stored, locale, storable, osDark>> /\ doc.told
        /\ doc' = [doc EXCEPT !.prefersDark = osDark, !.told = FALSE, !.unheard = FALSE]
    BY <1>6 DEF Preferences!onChange, Preferences!matches
  <2>2. doc' = [[d1 EXCEPT !.told = FALSE] EXCEPT !.unheard = FALSE]
    BY <1>0, <2>1 DEF Preferences!Documents
  <2>3. /\ d1 \in Preferences!Documents /\ d1.prefersDark = osDark
        /\ d1.initialBg = doc.initialBg /\ d1.inlineBg = doc.inlineBg
        /\ d1.due = doc.due /\ d1.loaded = doc.loaded
    BY <1>0 DEF Preferences!Documents
  <2>. HIDE DEF d1
  <2>4. doc' \in Preferences!Documents BY <2>2, <2>3, DocumentChanges
  <2>5. /\ doc'.initialBg = doc.initialBg /\ doc'.inlineBg = doc.inlineBg
        /\ doc'.due = doc.due /\ doc'.loaded = doc.loaded
        /\ doc'.told = FALSE /\ doc'.prefersDark = osDark
    BY <2>2, <2>3 DEF Preferences!Documents
  <2>6. QED BY <1>0, <2>1, <2>4, <2>5 DEF PreferencesInv, ModeInv, Preferences!TypeOK
<1>7. CASE Preferences!SettingsPanel
  <2>1. PICK d \in {[doc EXCEPT !.panel = ~doc.panel]}
                 \cup {[doc EXCEPT !.mode = m] : m \in Preferences!THEME_MODE_VALUES}
                 \cup {[doc EXCEPT !.language = l] : l \in Preferences!LANGUAGE_VALUES} :
           doc' = d
    BY <1>7
       DEF Preferences!SettingsPanel, Preferences!openSettings, Preferences!closeSettings,
           Preferences!TogglePanel, Preferences!handleSelectMode,
           Preferences!handleSelectLanguage
  <2>2. /\ stored' \in Preferences!THEME_MODE_VALUES \cup {None, "unknown"}
        /\ locale' \in Preferences!LANGUAGE_VALUES \cup {None, "unknown"}
        /\ UNCHANGED <<policy, storable, osDark>>
    BY <1>0, <1>7
       DEF Preferences!SettingsPanel, Preferences!openSettings, Preferences!closeSettings,
           Preferences!TogglePanel, Preferences!handleSelectMode,
           Preferences!handleSelectLanguage, Preferences!TypeOK
  <2>3. doc.panel \in BOOLEAN BY <1>0 DEF Preferences!Documents
  <2>4. doc' \in Preferences!Documents BY <1>0, <2>1, <2>3, DocumentChanges
  <2>5. /\ doc'.initialBg = doc.initialBg /\ doc'.inlineBg = doc.inlineBg
        /\ doc'.due = doc.due /\ doc'.loaded = doc.loaded
        /\ doc'.stage = doc.stage /\ doc'.told = doc.told /\ doc'.unheard = doc.unheard
        /\ doc'.prefersDark = doc.prefersDark
    BY <1>0, <2>1 DEF Preferences!Documents
  <2>6. QED BY <1>0, <2>2, <2>4, <2>5 DEF PreferencesInv, ModeInv, Preferences!TypeOK
<1>8. CASE Preferences!OtherTab
  BY <1>0, <1>8 DEF Preferences!OtherTab, PreferencesInv, ModeInv, Preferences!TypeOK
<1>9. QED BY <1>1, <1>2, <1>3, <1>4, <1>5, <1>6, <1>7, <1>8 DEF Preferences!Next

LEMMA PreferencesStep ==
    ASSUME PreferencesInv, [Preferences!Next]_preferencesVars PROVE PreferencesInv'
<1>1. CASE UNCHANGED preferencesVars
  BY <1>1 DEF preferencesVars, PreferencesInv, ModeInv, Preferences!TypeOK
<1>2. QED BY <1>1, PreferencesNext

LEMMA PreferencesShow == PreferencesInv => Preferences!SurfaceObeysTheMode
<1>. SUFFICES ASSUME PreferencesInv, doc.stage = "subscribed", ~doc.told, ~doc.unheard
              PROVE  Preferences!Surface =
                        IF policy = "open" /\ doc.loaded THEN doc.due
                        ELSE Preferences!resolveEffectiveMode(doc.mode, osDark)
  BY DEF Preferences!SurfaceObeysTheMode, Preferences!InlineScripts
<1>1. doc.due # None
  BY SurfaceAssumption
     DEF PreferencesInv, Preferences!TypeOK, Preferences!Documents, Preferences!Surfaces
<1>2. /\ doc.inlineBg = IF policy = "open" /\ doc.loaded THEN doc.due ELSE None
      /\ doc.prefersDark = osDark
  BY DEF PreferencesInv, ModeInv
<1>3. QED BY <1>1, <1>2 DEF Preferences!Surface, Preferences!Canvas

-----------------------------------------------------------------------------
(* WebLanding.                                                             *)

LEMMA LandingQueries ==
    /\ \A Data : Landing!Queries(Data) = Cache!Queries(Data)
    /\ Landing!Cold = Cache!Cold
    /\ \A q : /\ Landing!Ask(q) = Cache!Ask(q) /\ Landing!Answer(q) = Cache!Answer(q)
              /\ Landing!Fail(q) = Cache!Fail(q) /\ Landing!Mount(q) = Cache!Mount(q)
              /\ Landing!Invalidate(q) = Cache!Invalidate(q)
              /\ \A d : Landing!Read(q, d) = Cache!Read(q, d)
BY DEF Landing!Queries, Landing!Cold, Landing!Ask, Landing!Answer, Landing!Fail,
       Landing!Invalidate, Landing!IsLoading, Cache!Invalidate, Cache!IsLoading,
       Landing!Underway, Landing!Read, Landing!Retries, Landing!Mount, Cache!Queries,
       Cache!Cold, Cache!Ask, Cache!Answer, Cache!Fail, Cache!Underway, Cache!Read,
       Cache!Retries, Cache!Mount

Flags == {"on", "off"}

Offered == Landing!LandingPage /\ config.data = "on"

\* The moment of the page and of the section is one, of a link that exists and of a
\* page that stands; the card has it too, unless the flag took the card away; and so
\* is what an answer may make of it.
MomentInv ==
    /\ moment <=> section.link # None
    /\ section.link # None =>
          /\ Landing!LandingPage /\ section.link \in made
          /\ hidden \/ card.link # None
    /\ card.link # None => Offered /\ (hidden \/ card.link = section.link)
    /\ \A a \in Asks : asked[a] # None =>
          /\ asked[a].from # "gone" => Landing!LandingPage
          /\ asked[a].from = "card" => Offered
          /\ asked[a].from = "page" => hidden
          /\ asked[a].link # None => asked[a].link \in made

LandingInv == Landing!TypeOK /\ MomentInv

Cards == [link : Links \cup {None}, loading : BOOLEAN, error : BOOLEAN]
Sections == [link : Links \cup {None}, declined : BOOLEAN]
Takes == [outcome : {"idle", "landed", "failed"}, writing : BOOLEAN]

\* The variables, and what a request is.
LEMMA LandingTypes ==
    ASSUME LandingInv
    PROVE  /\ config \in Landing!Queries(Flags) /\ invalidated \in BOOLEAN /\ setting \in Flags
           /\ signing \subseteq {"sent", "ending"} /\ made \subseteq Links
           /\ visitor \in {"unknown", "nobody", "somebody"} /\ route \in {"landing", "elsewhere"}
           /\ moment \in BOOLEAN /\ hidden \in BOOLEAN
           /\ section \in Sections /\ card \in Cards /\ take \in Takes
           /\ asked \in [Asks -> Landing!Request \cup {None}]
           /\ \A a \in Asks : asked[a] # None => asked[a] \in Landing!Request
           /\ MomentInv
BY DEF LandingInv, Landing!TypeOK, Flags, Cards, Sections, Takes

LEMMA LandingInit == Landing!Init => LandingInv
<1>. SUFFICES ASSUME Landing!Init PROVE LandingInv OBVIOUS
<1>1. config \in Landing!Queries(Flags)
  BY DEF Landing!Init, Landing!Cold, Landing!Queries, Landing!Retries
<1>2. Landing!TypeOK
  BY <1>1
     DEF Landing!Init, Landing!TypeOK, Flags, Landing!NoMoment, Landing!Blank, Landing!NoTake
<1>3. MomentInv
  BY DEF Landing!Init, MomentInv, Landing!NoMoment, Landing!Blank
<1>4. QED BY <1>2, <1>3 DEF LandingInv

\* The flag's query changes, or somebody comes or goes without a page that stands.
LEMMA LandingQuiet ==
    ASSUME LandingInv, UNCHANGED <<moment, section, card, hidden, asked>>,
           made \subseteq made', made' \subseteq Links,
           take' \in Takes, invalidated' \in BOOLEAN, signing' \subseteq {"sent", "ending"},
           visitor' \in {"unknown", "nobody", "somebody"}, route' \in {"landing", "elsewhere"},
           setting' \in Flags, config' \in Landing!Queries(Flags),
           Landing!LandingPage => Landing!LandingPage', Offered => Offered'
    PROVE  LandingInv'
<1>1. Landing!TypeOK' BY DEF LandingInv, Landing!TypeOK, Flags, Takes
<1>2. MomentInv' BY DEF LandingInv, MomentInv
<1>3. QED BY <1>1, <1>2 DEF LandingInv

\* What becomes of the requests when those who sent them go.
LEMMA AskedMoves ==
    ASSUME LandingInv, NEW a \in Asks, asked[a] # None, NEW f \in {"card", "page", "gone"}
    PROVE  /\ [asked[a] EXCEPT !.from = f] \in Landing!Request
           /\ [asked[a] EXCEPT !.from = f].from = f
           /\ [asked[a] EXCEPT !.from = f].link = asked[a].link
<1>1. asked[a] \in Landing!Request BY LandingTypes
<1>2. QED BY <1>1 DEF Landing!Request

\* The page that stood goes with what its components remember.
LEMMA LandingUnmounts ==
    ASSUME LandingInv, Landing!Unmounted, UNCHANGED <<setting, config, invalidated, made>>,
           signing' \subseteq {"sent", "ending"},
           visitor' \in {"unknown", "nobody", "somebody"}, route' \in {"landing", "elsewhere"}
    PROVE  LandingInv'
<1>1. /\ moment' = FALSE /\ section' = Landing!NoMoment /\ card' = Landing!Blank
      /\ hidden' = FALSE /\ take' = Landing!NoTake
      /\ asked' = [a \in Asks |-> IF asked[a] = None THEN None
                                  ELSE [asked[a] EXCEPT !.from = "gone"]]
  BY DEF Landing!Unmounted
<1>2. /\ asked' \in [Asks -> Landing!Request \cup {None}]
      /\ \A a \in Asks : asked'[a] # None =>
            asked[a] # None /\ asked'[a].from = "gone" /\ asked'[a].link = asked[a].link
  BY <1>1, AskedMoves
<1>3. Landing!TypeOK'
  BY <1>1, <1>2
     DEF LandingInv, Landing!TypeOK, Landing!NoMoment, Landing!Blank, Landing!NoTake
<1>4. MomentInv'
  BY <1>1, <1>2 DEF LandingInv, MomentInv, Landing!NoMoment, Landing!Blank
<1>5. QED BY <1>3, <1>4 DEF LandingInv

LEMMA LandingGoes ==
    ASSUME LandingInv, NEW who \in {"unknown", "nobody", "somebody"},
           NEW where \in {"landing", "elsewhere"}, Landing!Go(who, where),
           visitor = "nobody" /\ who # "nobody" => who = "somebody",
           signing' \subseteq {"sent", "ending"}
    PROVE  LandingInv'
<1>. DEFINE to == IF where = "landing" /\ who = "somebody" THEN "elsewhere" ELSE where
<1>1. /\ visitor' = who /\ route' = to /\ UNCHANGED <<setting, invalidated, made>>
      /\ CASE Landing!LandingPage /\ to # "landing" -> Landing!Unmounted /\ UNCHANGED config
           [] ~Landing!LandingPage /\ to = "landing" /\ who = "nobody" -> Landing!Mounted
           [] OTHER -> UNCHANGED <<config, moment, section, card, hidden, take, asked>>
  BY DEF Landing!Go, Landing!view
<1>2. to \in {"landing", "elsewhere"} OBVIOUS
<1>3. /\ config \in Landing!Queries(Flags) /\ setting \in Flags /\ made \subseteq Links
      /\ take \in Takes /\ invalidated \in BOOLEAN
  BY LandingTypes
<1>4. CASE Landing!LandingPage /\ to # "landing"
  BY <1>1, <1>2, <1>4, LandingUnmounts
<1>5. CASE ~Landing!LandingPage /\ to = "landing" /\ who = "nobody"
  <2>1. /\ config' = IF config.data = None \/ invalidated THEN Landing!Mount(config)
                     ELSE config
        /\ UNCHANGED <<moment, section, card, hidden, take, asked>>
    BY <1>1, <1>5 DEF Landing!Mounted, Landing!view
  <2>2. config' \in Landing!Queries(Flags)
    BY <1>3, <2>1, LandingQueries, QueryTypes
  <2>3. ~Offered BY <1>5 DEF Offered
  <2>4. QED BY <1>1, <1>2, <1>3, <1>5, <2>1, <2>2, <2>3, LandingQuiet
<1>6. CASE /\ ~(Landing!LandingPage /\ to # "landing")
           /\ ~(~Landing!LandingPage /\ to = "landing" /\ who = "nobody")
  <2>1. UNCHANGED <<config, moment, section, card, hidden, take, asked>> BY <1>1, <1>6
  <2>2. Landing!LandingPage => Landing!LandingPage'
    BY <1>1, <1>6, <2>1 DEF Landing!LandingPage
  <2>3. Offered => Offered' BY <2>1, <2>2 DEF Offered
  <2>4. QED BY <1>1, <1>2, <1>3, <2>1, <2>2, <2>3, LandingQuiet
<1>7. QED BY <1>4, <1>5, <1>6

\* A sign-out starts, fails, or marks the flag's query: the answer of before stays.
LEMMA LandingLeaves ==
    ASSUME LandingInv, Landing!logout \/ Landing!LogoutFails \/ Landing!LoggedOut
    PROVE  LandingInv'
<1>1. /\ UNCHANGED <<visitor, route, setting, made, moment, section, card, hidden, take, asked>>
      /\ config' = config \/ config' = Landing!Invalidate(config)
      /\ invalidated' \in BOOLEAN
  BY LandingTypes
     DEF Landing!logout, Landing!LogoutFails, Landing!LoggedOut, Landing!flag, Landing!view
<1>2. signing' \subseteq {"sent", "ending"}
  <2>1. signing \subseteq {"sent", "ending"} BY LandingTypes
  <2>2. CASE Landing!logout BY <2>1, <2>2 DEF Landing!logout
  <2>3. CASE Landing!LogoutFails BY <2>1, <2>3 DEF Landing!LogoutFails
  <2>4. CASE Landing!LoggedOut BY <2>1, <2>4 DEF Landing!LoggedOut
  <2>5. QED BY <2>2, <2>3, <2>4
<1>3. config \in Cache!Queries(Flags) BY LandingTypes, LandingQueries
<1>4. Cache!Invalidate(config) \in Cache!Queries(Flags) /\ Cache!Invalidate(config).data = config.data
  BY <1>3, QueryTypes DEF Cache!Invalidate, Cache!Ask, Cache!Queries
<1>5. config' \in Landing!Queries(Flags) /\ config'.data = config.data
  BY <1>1, <1>3, <1>4, LandingQueries
<1>6. Landing!LandingPage' = Landing!LandingPage /\ Offered' = Offered
  BY <1>1, <1>5 DEF Offered, Landing!LandingPage
<1>7. QED BY <1>1, <1>2, <1>5, <1>6, LandingTypes, LandingQuiet

\* The flag is asked for; the answer of before stays.
LEMMA LandingFlag ==
    ASSUME LandingInv, Landing!fetchGuestFlag \/ Landing!FlagFails \/ Landing!Configure
    PROVE  LandingInv'
<1>1. /\ UNCHANGED <<visitor, route, signing, invalidated, made>>
      /\ UNCHANGED <<moment, section, card, hidden, take, asked>>
      /\ setting' \in Flags
  BY LandingTypes
     DEF Landing!fetchGuestFlag, Landing!FlagFails, Landing!Configure, Landing!session,
         Landing!view, Flags
<1>2. config \in Cache!Queries(Flags) /\ setting \in Flags BY LandingTypes, LandingQueries
<1>3. config' \in {config, Cache!Read(config, setting), Cache!Fail(config)}
  BY LandingQueries DEF Landing!fetchGuestFlag, Landing!FlagFails, Landing!Configure
<1>4. /\ Cache!Read(config, setting) \in Cache!Queries(Flags)
      /\ Cache!Fail(config) \in Cache!Queries(Flags)
  BY <1>2, QueryTypes
<1>5. /\ Cache!Read(config, setting).data = config.data
      /\ Cache!Fail(config).data = config.data
  BY <1>2 DEF Cache!Read, Cache!Fail, Cache!Queries
<1>6. config' \in Landing!Queries(Flags) /\ config'.data = config.data
  BY <1>2, <1>3, <1>4, <1>5, LandingQueries
<1>7. Landing!LandingPage' = Landing!LandingPage /\ Offered' = Offered
  BY <1>1, <1>6 DEF Offered, Landing!LandingPage
<1>8. QED BY <1>1, <1>6, <1>7, LandingTypes, LandingQuiet

\* The card that the flag takes away goes with its moment; the section keeps its own.
LEMMA LandingHides ==
    ASSUME LandingInv, Landing!Hidden, UNCHANGED <<visitor, route, signing, setting, made>>,
           config' \in Landing!Queries(Flags), invalidated' \in BOOLEAN
    PROVE  LandingInv'
<1>1. /\ hidden' = TRUE /\ card' = Landing!Blank /\ take' = Landing!NoTake
      /\ asked' = [a \in Asks |-> IF asked[a] # None /\ asked[a].from = "card"
                                  THEN [asked[a] EXCEPT !.from = "page"] ELSE asked[a]]
      /\ UNCHANGED <<moment, section>>
  BY DEF Landing!Hidden
<1>2. \A a \in Asks : asked[a] # None => asked[a].from \in {"card", "page", "gone"}
  BY LandingTypes DEF Landing!Request
<1>3. /\ asked' \in [Asks -> Landing!Request \cup {None}]
      /\ \A a \in Asks : asked'[a] # None =>
            /\ asked[a] # None /\ asked'[a].link = asked[a].link
            /\ asked'[a].from \in {"page", "gone"}
            /\ asked'[a].from # "gone" => asked[a].from # "gone"
  BY <1>1, <1>2, AskedMoves, LandingTypes
<1>4. Landing!TypeOK'
  BY <1>1, <1>3 DEF LandingInv, Landing!TypeOK, Landing!Blank, Landing!NoTake, Flags
<1>5. Landing!LandingPage' = Landing!LandingPage BY DEF Landing!LandingPage
<1>6. MomentInv' BY <1>1, <1>3, <1>5 DEF LandingInv, MomentInv, Landing!Blank
<1>7. QED BY <1>4, <1>6 DEF LandingInv

LEMMA LandingAnswered == ASSUME LandingInv, Landing!parseConfigBody PROVE LandingInv'
<1>. DEFINE q == [config EXCEPT !.got = "off"]
<1>1. config \in Landing!Queries(Flags) BY LandingTypes
<1>2. q \in Landing!Queries(Flags) BY <1>1 DEF Landing!Queries, Flags
<1>. HIDE DEF q
<1>3. config' = Landing!Answer(config) \/ config' = Landing!Answer(q)
  BY DEF Landing!parseConfigBody, q
<1>4. config' \in Landing!Queries(Flags)
  BY <1>1, <1>2, <1>3, LandingQueries, QueryTypes
<1>5. /\ UNCHANGED <<visitor, route, signing, setting, made>> /\ invalidated' = FALSE
      /\ IF /\ Landing!GuestShortenSection
            /\ Landing!useGuestShortenEnabled(config') # "enabled"
         THEN Landing!Hidden
         ELSE UNCHANGED <<moment, section, card, hidden, take, asked>>
  BY DEF Landing!parseConfigBody, Landing!session, Landing!view
<1>6. CASE Landing!Hidden BY <1>4, <1>5, <1>6, LandingHides
<1>7. CASE /\ UNCHANGED <<moment, section, card, hidden, take, asked>>
           /\ \/ ~Landing!GuestShortenSection
              \/ Landing!useGuestShortenEnabled(config') = "enabled"
  <2>1. Landing!LandingPage' = Landing!LandingPage BY <1>5 DEF Landing!LandingPage
  <2>2. Landing!useGuestShortenEnabled(config') = "enabled" => config'.data = "on"
    BY DEF Landing!useGuestShortenEnabled
  <2>3. Offered => Landing!GuestShortenSection
    <3>1. config.data = "on" => Landing!useGuestShortenEnabled(config) = "enabled"
      BY SurfaceAssumption DEF Landing!useGuestShortenEnabled, Landing!IsLoading
    <3>2. QED BY <3>1 DEF Offered, Landing!GuestShortenSection
  <2>4. Offered => Offered' BY <1>7, <2>1, <2>2, <2>3 DEF Offered
  <2>5. QED BY <1>4, <1>5, <1>7, <2>1, <2>4, LandingTypes, LandingQuiet
<1>8. QED BY <1>5, <1>6, <1>7

\* One request changes beside the page.
LEMMA AskedChanges ==
    ASSUME LandingInv, NEW a \in Asks, NEW r \in Landing!Request \cup {None},
           asked' = [asked EXCEPT ![a] = r]
    PROVE  /\ asked' \in [Asks -> Landing!Request \cup {None}]
           /\ asked'[a] = r /\ \A b \in Asks \ {a} : asked'[b] = asked[b]
BY DEF LandingInv, Landing!TypeOK

LEMMA LandingSubmits ==
    ASSUME LandingInv, NEW a \in Asks, Landing!handleSubmit(a)
    PROVE  LandingInv'
<1>. DEFINE r == [link |-> None, served |-> FALSE, from |-> "card"]
<1>1. /\ Landing!ShortenForm /\ asked' = [asked EXCEPT ![a] = r]
      /\ card' = [card EXCEPT !.loading = TRUE]
      /\ UNCHANGED <<visitor, route, signing, setting, config, invalidated, made>>
      /\ UNCHANGED <<moment, section, hidden, take>>
  BY DEF Landing!handleSubmit, Landing!session, Landing!flag
<1>2. r \in Landing!Request /\ r.link = None /\ r.from = "card" BY DEF Landing!Request
<1>. HIDE DEF r
<1>3. /\ asked' \in [Asks -> Landing!Request \cup {None}]
      /\ asked'[a] = r /\ \A b \in Asks \ {a} : asked'[b] = asked[b]
  BY <1>1, <1>2, AskedChanges
<1>4. Landing!TypeOK /\ MomentInv BY DEF LandingInv
<1>5. card' \in [link : Links \cup {None}, loading : BOOLEAN, error : BOOLEAN]
      /\ card'.link = card.link
  BY <1>1, <1>4 DEF Landing!TypeOK
<1>6. Offered
  BY <1>1
     DEF Landing!ShortenForm, Landing!GuestShortenSection, Landing!useGuestShortenEnabled,
         Offered
<1>7. Landing!TypeOK' BY <1>1, <1>3, <1>4, <1>5 DEF Landing!TypeOK
<1>8. Offered' /\ Landing!LandingPage' BY <1>1, <1>6 DEF Offered, Landing!LandingPage
<1>9. MomentInv' BY <1>1, <1>2, <1>3, <1>4, <1>5, <1>8, SurfaceAssumption DEF MomentInv
<1>10. QED BY <1>7, <1>9 DEF LandingInv

LEMMA LandingServed ==
    ASSUME LandingInv, NEW a \in Asks, Landing!attemptShorten(a)
    PROVE  LandingInv'
<1>1. /\ asked[a] # None
      /\ UNCHANGED <<visitor, route, signing, setting, config, invalidated>>
      /\ UNCHANGED <<moment, section, card, hidden, take>>
  BY DEF Landing!attemptShorten, Landing!session, Landing!flag
<1>2. Landing!TypeOK /\ MomentInv BY DEF LandingInv
<1>3. asked[a] \in Landing!Request BY <1>1, <1>2 DEF Landing!TypeOK
<1>4. PICK r \in Landing!Request :
         /\ asked' = [asked EXCEPT ![a] = r] /\ r.from = asked[a].from
         /\ made \subseteq made' /\ made' \subseteq Links
         /\ r.link # None => r.link \in made' \/ r.link = asked[a].link
  <2>1. ASSUME NEW l \in Links \ made, made' = made \cup {l}, NEW got \in {l, None},
               asked' = [asked EXCEPT ![a].link = got, ![a].served = TRUE]
        PROVE  \E r \in Landing!Request :
                  /\ asked' = [asked EXCEPT ![a] = r] /\ r.from = asked[a].from
                  /\ made \subseteq made' /\ made' \subseteq Links
                  /\ r.link # None => r.link \in made' \/ r.link = asked[a].link
    <3>. DEFINE r == [[asked[a] EXCEPT !.link = got] EXCEPT !.served = TRUE]
    <3>1. /\ r \in Landing!Request /\ r.link = got /\ r.from = asked[a].from
      BY <1>3, <2>1 DEF Landing!Request
    <3>2. asked' = [asked EXCEPT ![a] = r] BY <1>2, <2>1 DEF Landing!TypeOK
    <3>3. made' \subseteq Links BY <1>2, <2>1 DEF Landing!TypeOK
    <3>. HIDE DEF r
    <3>4. QED BY <2>1, <3>1, <3>2, <3>3
  <2>2. ASSUME made' = made, asked' = [asked EXCEPT ![a].served = TRUE]
        PROVE  \E r \in Landing!Request :
                  /\ asked' = [asked EXCEPT ![a] = r] /\ r.from = asked[a].from
                  /\ made \subseteq made' /\ made' \subseteq Links
                  /\ r.link # None => r.link \in made' \/ r.link = asked[a].link
    <3>. DEFINE r == [asked[a] EXCEPT !.served = TRUE]
    <3>1. /\ r \in Landing!Request /\ r.link = asked[a].link /\ r.from = asked[a].from
      BY <1>3 DEF Landing!Request
    <3>2. asked' = [asked EXCEPT ![a] = r] BY <1>2, <2>2 DEF Landing!TypeOK
    <3>3. made' \subseteq Links BY <1>2, <2>2 DEF Landing!TypeOK
    <3>. HIDE DEF r
    <3>4. QED BY <2>2, <3>1, <3>2, <3>3
  <2>3. QED BY <2>1, <2>2 DEF Landing!attemptShorten
<1>5. /\ asked' \in [Asks -> Landing!Request \cup {None}]
      /\ asked'[a] = r /\ \A b \in Asks \ {a} : asked'[b] = asked[b]
  BY <1>4, AskedChanges
<1>6. Landing!TypeOK' BY <1>1, <1>2, <1>4, <1>5 DEF Landing!TypeOK
<1>7. Offered' = Offered /\ Landing!LandingPage' = Landing!LandingPage
  BY <1>1 DEF Offered, Landing!LandingPage
<1>8. MomentInv' BY <1>1, <1>2, <1>4, <1>5, <1>7 DEF MomentInv
<1>9. QED BY <1>6, <1>8 DEF LandingInv

\* An answer makes the moment in the page, the section and the card that asked, or
\* leaves it alone.
LEMMA LandingSettles ==
    ASSUME LandingInv, NEW a \in Asks, Landing!Settle(a)
    PROVE  LandingInv'
<1>1. /\ asked[a] # None /\ asked' = [asked EXCEPT ![a] = None]
      /\ UNCHANGED <<visitor, route, signing, setting, config, invalidated, made, hidden, take>>
  BY DEF Landing!Settle, Landing!session, Landing!flag
<1>2. Landing!TypeOK /\ MomentInv BY DEF LandingInv
<1>3. asked[a] \in Landing!Request /\ asked[a].from \in {"card", "page", "gone"}
  BY <1>1, <1>2 DEF Landing!TypeOK, Landing!Request
<1>4. /\ asked' \in [Asks -> Landing!Request \cup {None}]
      /\ asked'[a] = None /\ \A b \in Asks \ {a} : asked'[b] = asked[b]
  BY <1>1, AskedChanges
<1>5. Offered' = Offered /\ Landing!LandingPage' = Landing!LandingPage
  BY <1>1 DEF Offered, Landing!LandingPage
<1>6. CASE asked[a].from # "gone" /\ asked[a].link # None
  <2>. DEFINE l == asked[a].link
  <2>1. /\ section' = [section EXCEPT !.link = l] /\ moment' = TRUE
        /\ card' = IF asked[a].from = "card"
                   THEN [link |-> l, loading |-> FALSE, error |-> FALSE] ELSE card
    BY <1>6 DEF Landing!Settle, Landing!handleShortened, Landing!Reconciled
  <2>2. l \in made /\ l # None /\ Landing!LandingPage BY <1>1, <1>2, <1>6 DEF MomentInv
  <2>3. l \in Links BY <1>2, <2>2 DEF Landing!TypeOK
  <2>4. \/ asked[a].from = "card" /\ Offered
        \/ asked[a].from = "page" /\ hidden
    BY <1>1, <1>2, <1>3, <1>6 DEF MomentInv
  <2>. HIDE DEF l
  <2>5. section' \in [link : Links \cup {None}, declined : BOOLEAN] /\ section'.link = l
    BY <1>2, <2>1, <2>3 DEF Landing!TypeOK
  <2>6. /\ card' \in [link : Links \cup {None}, loading : BOOLEAN, error : BOOLEAN]
        /\ \/ card'.link = l /\ Offered
           \/ card' = card /\ hidden
    BY <1>2, <2>1, <2>3, <2>4 DEF Landing!TypeOK
  <2>7. Landing!TypeOK' BY <1>1, <1>2, <1>4, <2>1, <2>5, <2>6 DEF Landing!TypeOK
  <2>8. MomentInv' BY <1>1, <1>2, <1>4, <1>5, <2>1, <2>2, <2>5, <2>6 DEF MomentInv
  <2>9. QED BY <2>7, <2>8 DEF LandingInv
<1>7. CASE ~(asked[a].from # "gone" /\ asked[a].link # None)
  <2>1. UNCHANGED <<moment, section>> BY <1>7 DEF Landing!Settle
  <2>2. card' \in {card, [[card EXCEPT !.loading = FALSE] EXCEPT !.error = TRUE]}
    BY <1>2, <1>7 DEF Landing!Settle, Landing!TypeOK
  <2>3. card' \in [link : Links \cup {None}, loading : BOOLEAN, error : BOOLEAN]
        /\ card'.link = card.link
    BY <1>2, <2>2 DEF Landing!TypeOK
  <2>4. Landing!TypeOK' BY <1>1, <1>2, <1>4, <2>1, <2>3 DEF Landing!TypeOK
  <2>5. MomentInv' BY <1>1, <1>2, <1>4, <1>5, <2>1, <2>3 DEF MomentInv
  <2>6. QED BY <2>4, <2>5 DEF LandingInv
<1>8. QED BY <1>6, <1>7

LEMMA LandingTakes ==
    ASSUME LandingInv,
           \/ Landing!handleDecline \/ Landing!copy \/ Landing!useCopyToClipboard
           \/ UNCHANGED landingVars
    PROVE  LandingInv'
<1>1. UNCHANGED <<visitor, route, signing, setting, config, invalidated, made>>
  BY DEF Landing!handleDecline, Landing!copy, Landing!useCopyToClipboard, landingVars,
         Landing!session, Landing!flag
<1>2. UNCHANGED <<moment, card, hidden, asked>>
  BY DEF Landing!handleDecline, Landing!copy, Landing!useCopyToClipboard, landingVars
<1>3. section' \in Sections /\ section'.link = section.link
  BY LandingTypes
     DEF Landing!handleDecline, Landing!copy, Landing!useCopyToClipboard, landingVars, Sections
<1>4. take' \in Takes
  BY LandingTypes
     DEF Landing!handleDecline, Landing!copy, Landing!useCopyToClipboard, landingVars, Takes
<1>5. Offered' = Offered /\ Landing!LandingPage' = Landing!LandingPage
  BY <1>1 DEF Offered, Landing!LandingPage
<1>6. Landing!TypeOK'
  BY <1>1, <1>2, <1>3, <1>4 DEF LandingInv, Landing!TypeOK, Sections, Takes
<1>7. MomentInv' BY <1>1, <1>2, <1>3, <1>5 DEF LandingInv, MomentInv
<1>8. QED BY <1>6, <1>7 DEF LandingInv

LEMMA LandingStep == ASSUME LandingInv, [Landing!Next]_landingVars PROVE LandingInv'
<1>1. /\ visitor \in {"unknown", "nobody", "somebody"} /\ route \in {"landing", "elsewhere"}
      /\ signing \subseteq {"sent", "ending"}
  BY LandingTypes
<1>2. CASE Landing!Bootstrapped
  BY <1>1, <1>2, LandingGoes DEF Landing!Bootstrapped
<1>3. CASE Landing!SignIn BY <1>1, <1>3, LandingGoes DEF Landing!SignIn
<1>4. CASE Landing!SignOut
  <2>1. Landing!Go("nobody", "elsewhere") /\ signing' \subseteq {"sent", "ending"}
    BY <1>1, <1>4 DEF Landing!SignOut
  <2>2. QED BY <2>1, LandingGoes
<1>5. CASE Landing!Navigate BY <1>1, <1>5, LandingGoes DEF Landing!Navigate
<1>6. CASE UNCHANGED landingVars BY <1>6, LandingTakes
<1>7. QED
  BY <1>2, <1>3, <1>4, <1>5, <1>6, LandingLeaves, LandingFlag, LandingAnswered,
     LandingSubmits, LandingServed, LandingSettles, LandingTakes
     DEF Landing!Next

LEMMA LandingShows == LandingInv => Landing!OfferStandsBesideTheLink
<1>1. SUFFICES ASSUME LandingInv,
                      \/ Landing!RegisterOfferBand
                      \/ Landing!LandingPage /\ ~Landing!FirstSightStatement
               PROVE  /\ section.link \in made
                      /\ hidden \/ (Landing!LandingResultMoment /\ card.link = section.link)
  BY DEF Landing!OfferStandsBesideTheLink
<1>2. section.link # None
  BY <1>1 DEF Landing!RegisterOfferBand, Landing!FirstSightStatement, LandingInv, MomentInv
<1>3. /\ section.link \in made
      /\ hidden \/ (Offered /\ card.link = section.link /\ card.link # None)
  BY <1>1, <1>2 DEF LandingInv, MomentInv
<1>4. Offered => Landing!GuestShortenSection
  BY SurfaceAssumption
     DEF Offered, Landing!GuestShortenSection, Landing!useGuestShortenEnabled,
         Landing!IsLoading
<1>5. QED BY <1>3, <1>4 DEF Landing!LandingResultMoment

-----------------------------------------------------------------------------
(* Sums, as ClickStatistics counts them.                                   *)

LEMMA CardinalityIsOne == \A S : Statistics!Cardinality(S) = Cardinality(S)
BY DEF Statistics!Cardinality, Cardinality

LEMMA SetInduction ==
    ASSUME NEW S, IsFiniteSet(S), NEW G \in SUBSET (SUBSET S), {} \in G,
           \A T \in G : \A x \in S \ T : T \cup {x} \in G
    PROVE  S \in G
<1>. DEFINE R == StrictSubsetOrdering(S)
            B == (SUBSET S) \ G
<1>1. IsWellFoundedOn(R, SUBSET S)
  BY FS_StrictSubsetOrderingWellFounded, FS_FiniteSubsetsOfFinite
<1>2. \A x, y \in SUBSET S : y \subseteq x /\ y # x => <<y, x>> \in R
  BY DEF StrictSubsetOrdering
<1>. HIDE DEF R
<1>3. SUFFICES ASSUME B # {} PROVE FALSE OBVIOUS
<1>4. PICK T \in B : \A y \in B : ~ (<<y, T>> \in R) BY <1>1, <1>3, WFMin
<1>5. PICK x \in T : TRUE BY <1>4
<1>6. T \ {x} \in SUBSET S /\ T \ {x} # T /\ T \ {x} \subseteq T BY <1>4, <1>5
<1>7. T \ {x} \in G BY <1>2, <1>4, <1>6
<1>8. (T \ {x}) \cup {x} = T /\ x \in S \ (T \ {x}) BY <1>4, <1>5
<1>9. QED BY <1>4, <1>7, <1>8

\* What a sum counts: f[x] things for each x.
Things(S, f) == UNION {{x} \X (1 .. f[x]) : x \in S}

LEMMA ThingsOfOne ==
    ASSUME NEW f, NEW x, f[x] \in Nat
    PROVE  IsFiniteSet({x} \X (1 .. f[x])) /\ Cardinality({x} \X (1 .. f[x])) = f[x]
<1>1. IsFiniteSet(1 .. f[x]) /\ Cardinality(1 .. f[x]) = f[x] BY FS_Interval
<1>2. IsFiniteSet({x}) /\ Cardinality({x}) = 1 BY FS_Singleton
<1>3. IsFiniteSet({x} \X (1 .. f[x])) BY <1>1, <1>2, FS_Product
<1>4. Cardinality({x} \X (1 .. f[x])) = 1 * f[x] BY <1>1, <1>2, FS_Product
<1>5. QED BY <1>3, <1>4

LEMMA ThingsOfBoth ==
    ASSUME NEW S, NEW T, NEW f
    PROVE  /\ Things(S \cup T, f) = Things(S, f) \cup Things(T, f)
           /\ S \cap T = {} => Things(S, f) \cap Things(T, f) = {}
           /\ \A x : Things({x}, f) = {x} \X (1 .. f[x])
           /\ Things({}, f) = {}
BY DEF Things

LEMMA ThingsFinite ==
    ASSUME NEW S, IsFiniteSet(S), NEW f, \A x \in S : f[x] \in Nat
    PROVE  IsFiniteSet(Things(S, f))
<1>. DEFINE G == {T \in SUBSET S : IsFiniteSet(Things(T, f))}
<1>1. {} \in G BY FS_EmptySet, ThingsOfBoth
<1>2. ASSUME NEW T \in G, NEW x \in S \ T PROVE T \cup {x} \in G
  <2>1. IsFiniteSet(Things(T, f)) BY <1>2
  <2>2. IsFiniteSet(Things({x}, f))
    <3>1. IsFiniteSet({x} \X (1 .. f[x])) BY <1>2, ThingsOfOne
    <3>2. QED BY <3>1, ThingsOfBoth
  <2>3. Things(T \cup {x}, f) = Things(T, f) \cup Things({x}, f) BY ThingsOfBoth
  <2>4. IsFiniteSet(Things(T \cup {x}, f)) BY <2>1, <2>2, <2>3, FS_Union
  <2>5. QED BY <1>2, <2>4
<1>3. S \in G
  <2>. HIDE DEF G
  <2>1. G \in SUBSET (SUBSET S) BY DEF G
  <2>2. QED BY <1>1, <1>2, <2>1, SetInduction
<1>4. QED BY <1>3

\* A sum over two sets apart; over nothing, and over one.
LEMMA SumOfBoth ==
    ASSUME NEW S, IsFiniteSet(S), NEW T, IsFiniteSet(T), S \cap T = {}, NEW f,
           \A x \in S \cup T : f[x] \in Nat
    PROVE  /\ Statistics!SumOf(S, f) \in Nat
           /\ Statistics!SumOf(S \cup T, f) = Statistics!SumOf(S, f) + Statistics!SumOf(T, f)
<1>1. \A U : Statistics!SumOf(U, f) = Cardinality(Things(U, f))
  BY CardinalityIsOne DEF Statistics!SumOf, Things
<1>2. IsFiniteSet(Things(S, f)) /\ IsFiniteSet(Things(T, f)) BY ThingsFinite
<1>3. Things(S, f) \cap Things(T, f) = {} BY ThingsOfBoth
<1>4. /\ Cardinality(Things(S, f)) \in Nat /\ Cardinality(Things(T, f)) \in Nat
      /\ Cardinality({}) = 0
  BY <1>2, FS_CardinalityType, FS_EmptySet
<1>5. Cardinality(Things(S, f) \cup Things(T, f)) =
         Cardinality(Things(S, f)) + Cardinality(Things(T, f)) - Cardinality({})
  BY <1>2, <1>3, FS_Union
<1>6. Statistics!SumOf(S \cup T, f) = Statistics!SumOf(S, f) + Statistics!SumOf(T, f)
  <2>1. Things(S \cup T, f) = Things(S, f) \cup Things(T, f) BY ThingsOfBoth
  <2>2. /\ Statistics!SumOf(S \cup T, f) = Cardinality(Things(S \cup T, f))
        /\ Statistics!SumOf(S, f) = Cardinality(Things(S, f))
        /\ Statistics!SumOf(T, f) = Cardinality(Things(T, f))
    BY <1>1
  <2>3. Cardinality(Things(S, f) \cup Things(T, f)) =
           Cardinality(Things(S, f)) + Cardinality(Things(T, f))
    BY <1>4, <1>5
  <2>4. QED BY <2>1, <2>2, <2>3
<1>7. QED BY <1>1, <1>4, <1>6

LEMMA SumOfNone == ASSUME NEW f PROVE Statistics!SumOf({}, f) = 0
<1>1. IsFiniteSet({}) /\ Cardinality({}) = 0 BY FS_EmptySet
<1>2. Things({}, f) = {} BY ThingsOfBoth
<1>3. QED BY <1>1, <1>2, CardinalityIsOne DEF Statistics!SumOf, Things

LEMMA SumOfOne ==
    ASSUME NEW f, NEW x, f[x] \in Nat
    PROVE  Statistics!SumOf({x}, f) = f[x]
<1>1. Cardinality({x} \X (1 .. f[x])) = f[x] BY ThingsOfOne
<1>2. Things({x}, f) = {x} \X (1 .. f[x]) BY ThingsOfBoth
<1>3. QED BY <1>1, <1>2, CardinalityIsOne DEF Statistics!SumOf, Things

LEMMA SumType ==
    ASSUME NEW S, IsFiniteSet(S), NEW f, \A x \in S : f[x] \in Nat
    PROVE  Statistics!SumOf(S, f) \in Nat
<1>1. IsFiniteSet(Things(S, f)) BY ThingsFinite
<1>2. Cardinality(Things(S, f)) \in Nat BY <1>1, FS_CardinalityType
<1>3. QED BY <1>2, CardinalityIsOne DEF Statistics!SumOf, Things

\* An element is taken out of a sum.
LEMMA SumWithout ==
    ASSUME NEW S, IsFiniteSet(S), NEW f, \A x \in S : f[x] \in Nat, NEW y \in S
    PROVE  /\ Statistics!SumOf(S, f) \in Nat /\ Statistics!SumOf(S \ {y}, f) \in Nat
           /\ Statistics!SumOf(S, f) = Statistics!SumOf(S \ {y}, f) + f[y]
<1>1. IsFiniteSet(S \ {y}) /\ IsFiniteSet({y}) BY FS_RemoveElement, FS_Singleton
<1>2. (S \ {y}) \cup {y} = S /\ (S \ {y}) \cap {y} = {} OBVIOUS
<1>3. \A x \in (S \ {y}) \cup {y} : f[x] \in Nat OBVIOUS
<1>4. /\ Statistics!SumOf(S \ {y}, f) \in Nat
      /\ Statistics!SumOf((S \ {y}) \cup {y}, f) =
            Statistics!SumOf(S \ {y}, f) + Statistics!SumOf({y}, f)
  BY <1>1, <1>2, <1>3, SumOfBoth
<1>5. Statistics!SumOf({y}, f) = f[y] BY SumOfOne
<1>6. Statistics!SumOf(S, f) = Statistics!SumOf((S \ {y}) \cup {y}, f) BY <1>2, Zenon
<1>7. f[y] \in Nat OBVIOUS
<1>8. QED BY <1>4, <1>5, <1>6, <1>7

\* Sums depend on the values only, and grow with them.
LEMMA SumGrows ==
    ASSUME NEW S, IsFiniteSet(S), NEW f, NEW g,
           \A x \in S : f[x] \in Nat /\ g[x] \in Nat /\ f[x] <= g[x]
    PROVE  Statistics!SumOf(S, f) <= Statistics!SumOf(S, g)
<1>1. IsFiniteSet(Things(S, f)) /\ IsFiniteSet(Things(S, g)) BY ThingsFinite
<1>2. \A x \in S : 1 .. f[x] \subseteq 1 .. g[x] OBVIOUS
<1>3. Things(S, f) \in SUBSET Things(S, g) BY <1>2 DEF Things
<1>4. Cardinality(Things(S, f)) <= Cardinality(Things(S, g)) BY <1>1, <1>3, FS_Subset
<1>5. QED BY <1>4, CardinalityIsOne DEF Statistics!SumOf, Things

LEMMA SumSame ==
    ASSUME NEW S, NEW f, NEW g, \A x \in S : f[x] = g[x]
    PROVE  Statistics!SumOf(S, f) = Statistics!SumOf(S, g)
<1>1. Things(S, f) = Things(S, g) BY DEF Things
<1>2. QED BY <1>1 DEF Statistics!SumOf, Things

\* One value changes.
LEMMA SumChanges ==
    ASSUME NEW S, IsFiniteSet(S), NEW f, NEW g, NEW y \in S,
           \A x \in S : f[x] \in Nat /\ g[x] \in Nat,
           \A x \in S \ {y} : g[x] = f[x]
    PROVE  Statistics!SumOf(S, g) + f[y] = Statistics!SumOf(S, f) + g[y]
<1>1. Statistics!SumOf(S \ {y}, g) = Statistics!SumOf(S \ {y}, f) BY SumSame
<1>2. /\ Statistics!SumOf(S \ {y}, f) \in Nat /\ Statistics!SumOf(S \ {y}, g) \in Nat
      /\ Statistics!SumOf(S, f) = Statistics!SumOf(S \ {y}, f) + f[y]
      /\ Statistics!SumOf(S, g) = Statistics!SumOf(S \ {y}, g) + g[y]
  BY SumWithout
<1>3. QED BY <1>1, <1>2

RowIs(table, d, B, f) == \A b \in B : f[b] = table[<<d, b>>] /\ f[b] \in Nat
ColumnIs(table, D, b, f) == \A d \in D : f[d] = table[<<d, b>>] /\ f[d] \in Nat

\* A sum over pairs is the sum over the firsts of the sums over the seconds, and
\* the other way round.
LEMMA SumOfRow ==
    ASSUME NEW B, IsFiniteSet(B), NEW d, NEW table, NEW f, RowIs(table, d, B, f)
    PROVE  Statistics!SumOf({d} \X B, table) = Statistics!SumOf(B, f)
<1>. DEFINE G == {T \in SUBSET B : Statistics!SumOf({d} \X T, table) = Statistics!SumOf(T, f)}
<1>0. \A b \in B : f[b] = table[<<d, b>>] /\ f[b] \in Nat BY DEF RowIs
<1>1. {} \in G
  <2>1. Statistics!SumOf({}, table) = 0 /\ Statistics!SumOf({}, f) = 0
    BY SumOfNone
  <2>2. {d} \X {} = {} OBVIOUS
  <2>3. QED BY <2>1, <2>2
<1>2. ASSUME NEW T \in G, NEW b \in B \ T PROVE T \cup {b} \in G
  <2>1. /\ IsFiniteSet(T) /\ IsFiniteSet({b}) /\ IsFiniteSet({d})
        /\ IsFiniteSet({d} \X T) /\ IsFiniteSet({<<d, b>>})
    BY <1>2, FS_Subset, FS_Singleton, FS_Product
  <2>2. /\ {d} \X (T \cup {b}) = ({d} \X T) \cup {<<d, b>>}
        /\ ({d} \X T) \cap {<<d, b>>} = {} /\ T \cap {b} = {}
    BY <1>2
  <2>3. \A p \in ({d} \X T) \cup {<<d, b>>} : table[p] \in Nat BY <1>0, <1>2
  <2>4. Statistics!SumOf({d} \X (T \cup {b}), table) =
           Statistics!SumOf({d} \X T, table) + Statistics!SumOf({<<d, b>>}, table)
    BY <2>1, <2>2, <2>3, SumOfBoth
  <2>5. Statistics!SumOf({<<d, b>>}, table) = table[<<d, b>>]
    BY <2>3, SumOfOne
  <2>6. Statistics!SumOf(T \cup {b}, f) = Statistics!SumOf(T, f) + Statistics!SumOf({b}, f)
    <3>1. \A y \in T \cup {b} : f[y] \in Nat BY <1>0, <1>2
    <3>2. T \cap {b} = {} BY <2>2
    <3>3. IsFiniteSet(T) /\ IsFiniteSet({b}) BY <2>1
    <3>4. QED BY <3>1, <3>2, <3>3, SumOfBoth
  <2>7. Statistics!SumOf({b}, f) = f[b] BY <1>0, <1>2, SumOfOne
  <2>8. Statistics!SumOf({d} \X T, table) = Statistics!SumOf(T, f) BY <1>2
  <2>9. QED BY <1>0, <1>2, <2>4, <2>5, <2>6, <2>7, <2>8
<1>3. B \in G
  <2>. HIDE DEF G
  <2>1. G \in SUBSET (SUBSET B) BY DEF G
  <2>2. QED BY <1>1, <1>2, <2>1, SetInduction
<1>4. QED BY <1>3

LEMMA SumOfColumn ==
    ASSUME NEW D, IsFiniteSet(D), NEW b, NEW table, NEW f, ColumnIs(table, D, b, f)
    PROVE  Statistics!SumOf(D \X {b}, table) = Statistics!SumOf(D, f)
<1>. DEFINE G == {T \in SUBSET D : Statistics!SumOf(T \X {b}, table) = Statistics!SumOf(T, f)}
<1>0. \A d \in D : f[d] = table[<<d, b>>] /\ f[d] \in Nat BY DEF ColumnIs
<1>1. {} \in G
  <2>1. Statistics!SumOf({}, table) = 0 /\ Statistics!SumOf({}, f) = 0
    BY SumOfNone
  <2>2. {} \X {b} = {} OBVIOUS
  <2>3. QED BY <2>1, <2>2
<1>2. ASSUME NEW T \in G, NEW d \in D \ T PROVE T \cup {d} \in G
  <2>1. /\ IsFiniteSet(T) /\ IsFiniteSet({d}) /\ IsFiniteSet({b})
        /\ IsFiniteSet(T \X {b}) /\ IsFiniteSet({<<d, b>>})
    BY <1>2, FS_Subset, FS_Singleton, FS_Product
  <2>2. /\ (T \cup {d}) \X {b} = (T \X {b}) \cup {<<d, b>>}
        /\ (T \X {b}) \cap {<<d, b>>} = {} /\ T \cap {d} = {}
    BY <1>2
  <2>3. \A p \in (T \X {b}) \cup {<<d, b>>} : table[p] \in Nat BY <1>0, <1>2
  <2>4. Statistics!SumOf((T \cup {d}) \X {b}, table) =
           Statistics!SumOf(T \X {b}, table) + Statistics!SumOf({<<d, b>>}, table)
    BY <2>1, <2>2, <2>3, SumOfBoth
  <2>5. Statistics!SumOf({<<d, b>>}, table) = table[<<d, b>>]
    BY <2>3, SumOfOne
  <2>6. Statistics!SumOf(T \cup {d}, f) = Statistics!SumOf(T, f) + Statistics!SumOf({d}, f)
    <3>1. \A y \in T \cup {d} : f[y] \in Nat BY <1>0, <1>2
    <3>2. T \cap {d} = {} BY <2>2
    <3>3. IsFiniteSet(T) /\ IsFiniteSet({d}) BY <2>1
    <3>4. QED BY <3>1, <3>2, <3>3, SumOfBoth
  <2>7. Statistics!SumOf({d}, f) = f[d] BY <1>0, <1>2, SumOfOne
  <2>8. Statistics!SumOf(T \X {b}, table) = Statistics!SumOf(T, f) BY <1>2
  <2>9. QED BY <1>0, <1>2, <2>4, <2>5, <2>6, <2>7, <2>8
<1>3. D \in G
  <2>. HIDE DEF G
  <2>1. G \in SUBSET (SUBSET D) BY DEF G
  <2>2. QED BY <1>1, <1>2, <2>1, SetInduction
<1>4. QED BY <1>3

\* The rows of all cells, summed by day and by browser.
LEMMA SumByDay ==
    ASSUME NEW table, \A c \in Statistics!Cells : table[c] \in Nat, IsFiniteSet(Days),
           IsFiniteSet(Browsers)
    PROVE  Statistics!SumOf(Statistics!Cells, table) =
              Statistics!SumOf(Days, [d \in Days |-> Statistics!OfDay(table, d)])
<1>. DEFINE f == [d \in Days |-> Statistics!OfDay(table, d)]
            G == {T \in SUBSET Days :
                     Statistics!SumOf(T \X Browsers, table) = Statistics!SumOf(T, f)}
<1>0. \A d \in Days : /\ f[d] = Statistics!SumOf({d} \X Browsers, table)
                      /\ f[d] \in Nat
  <2>. SUFFICES ASSUME NEW d \in Days
                PROVE  /\ f[d] = Statistics!SumOf({d} \X Browsers, table)
                       /\ f[d] \in Nat
    OBVIOUS
  <2>1. \A b \in Browsers : table[<<d, b>>] \in Nat BY DEF Statistics!Cells
  <2>2. Statistics!OfDay(table, d) = Statistics!SumOf({d} \X Browsers, table)
    <3>. DEFINE g == [b \in Browsers |-> table[<<d, b>>]]
    <3>1. \A b \in Browsers : g[b] = table[<<d, b>>] /\ g[b] \in Nat BY <2>1
    <3>2. Statistics!OfDay(table, d) = Statistics!SumOf(Browsers, g) BY DEF Statistics!OfDay
    <3>. HIDE DEF g
    <3>3. RowIs(table, d, Browsers, g) BY <3>1 DEF RowIs
    <3>4. QED BY <3>2, <3>3, SumOfRow
  <2>3. IsFiniteSet({d} \X Browsers) BY FS_Singleton, FS_Product
  <2>4. \A c \in {d} \X Browsers : table[c] \in Nat BY <2>1
  <2>5. Statistics!SumOf({d} \X Browsers, table) \in Nat BY <2>3, <2>4, SumType
  <2>6. QED BY <2>2, <2>5
<1>. HIDE DEF f
<1>1. {} \in G
  <2>1. Statistics!SumOf({}, table) = 0 /\ Statistics!SumOf({}, f) = 0
    BY SumOfNone
  <2>2. {} \X Browsers = {} OBVIOUS
  <2>3. QED BY <2>1, <2>2
<1>2. ASSUME NEW T \in G, NEW d \in Days \ T PROVE T \cup {d} \in G
  <2>1. /\ IsFiniteSet(T) /\ IsFiniteSet({d})
        /\ IsFiniteSet(T \X Browsers) /\ IsFiniteSet({d} \X Browsers)
    BY <1>2, FS_Subset, FS_Singleton, FS_Product
  <2>2. /\ (T \cup {d}) \X Browsers = (T \X Browsers) \cup ({d} \X Browsers)
        /\ (T \X Browsers) \cap ({d} \X Browsers) = {} /\ T \cap {d} = {}
    BY <1>2
  <2>3. \A p \in (T \X Browsers) \cup ({d} \X Browsers) : table[p] \in Nat
    BY <1>2 DEF Statistics!Cells
  <2>4. Statistics!SumOf((T \cup {d}) \X Browsers, table) =
           Statistics!SumOf(T \X Browsers, table) + Statistics!SumOf({d} \X Browsers, table)
    BY <2>1, <2>2, <2>3, SumOfBoth
  <2>5. Statistics!SumOf(T \cup {d}, f) = Statistics!SumOf(T, f) + Statistics!SumOf({d}, f)
    <3>1. \A y \in T \cup {d} : f[y] \in Nat BY <1>0, <1>2
    <3>2. T \cap {d} = {} BY <2>2
    <3>3. IsFiniteSet(T) /\ IsFiniteSet({d}) BY <2>1
    <3>4. QED BY <3>1, <3>2, <3>3, SumOfBoth
  <2>6. Statistics!SumOf({d}, f) = f[d] BY <1>0, <1>2, SumOfOne
  <2>7. Statistics!SumOf(T \X Browsers, table) = Statistics!SumOf(T, f) BY <1>2
  <2>8. QED BY <1>0, <1>2, <2>4, <2>5, <2>6, <2>7
<1>3. Days \in G
  <2>. HIDE DEF G
  <2>1. G \in SUBSET (SUBSET Days) BY DEF G
  <2>2. QED BY <1>1, <1>2, <2>1, SetInduction
<1>4. QED BY <1>3 DEF f, Statistics!Cells

LEMMA SumByBrowser ==
    ASSUME NEW table, \A c \in Statistics!Cells : table[c] \in Nat, IsFiniteSet(Days),
           IsFiniteSet(Browsers)
    PROVE  Statistics!SumOf(Statistics!Cells, table) =
              Statistics!SumOf(Browsers, [b \in Browsers |-> Statistics!OfBrowser(table, b)])
<1>. DEFINE f == [b \in Browsers |-> Statistics!OfBrowser(table, b)]
            G == {T \in SUBSET Browsers :
                     Statistics!SumOf(Days \X T, table) = Statistics!SumOf(T, f)}
<1>0. \A b \in Browsers : /\ f[b] = Statistics!SumOf(Days \X {b}, table)
                          /\ f[b] \in Nat
  <2>. SUFFICES ASSUME NEW b \in Browsers
                PROVE  /\ f[b] = Statistics!SumOf(Days \X {b}, table)
                       /\ f[b] \in Nat
    OBVIOUS
  <2>1. \A d \in Days : table[<<d, b>>] \in Nat BY DEF Statistics!Cells
  <2>2. Statistics!OfBrowser(table, b) = Statistics!SumOf(Days \X {b}, table)
    <3>. DEFINE g == [d \in Days |-> table[<<d, b>>]]
    <3>1. \A d \in Days : g[d] = table[<<d, b>>] /\ g[d] \in Nat BY <2>1
    <3>2. Statistics!OfBrowser(table, b) = Statistics!SumOf(Days, g)
      BY DEF Statistics!OfBrowser
    <3>. HIDE DEF g
    <3>3. ColumnIs(table, Days, b, g) BY <3>1 DEF ColumnIs
    <3>4. QED BY <3>2, <3>3, SumOfColumn
  <2>3. IsFiniteSet(Days \X {b}) BY FS_Singleton, FS_Product
  <2>4. \A c \in Days \X {b} : table[c] \in Nat BY <2>1
  <2>5. Statistics!SumOf(Days \X {b}, table) \in Nat BY <2>3, <2>4, SumType
  <2>6. QED BY <2>2, <2>5
<1>. HIDE DEF f
<1>1. {} \in G
  <2>1. Statistics!SumOf({}, table) = 0 /\ Statistics!SumOf({}, f) = 0
    BY SumOfNone
  <2>2. Days \X {} = {} OBVIOUS
  <2>3. QED BY <2>1, <2>2
<1>2. ASSUME NEW T \in G, NEW b \in Browsers \ T PROVE T \cup {b} \in G
  <2>1. /\ IsFiniteSet(T) /\ IsFiniteSet({b})
        /\ IsFiniteSet(Days \X T) /\ IsFiniteSet(Days \X {b})
    BY <1>2, FS_Subset, FS_Singleton, FS_Product
  <2>2. /\ Days \X (T \cup {b}) = (Days \X T) \cup (Days \X {b})
        /\ (Days \X T) \cap (Days \X {b}) = {} /\ T \cap {b} = {}
    BY <1>2
  <2>3. \A p \in (Days \X T) \cup (Days \X {b}) : table[p] \in Nat
    BY <1>2 DEF Statistics!Cells
  <2>4. Statistics!SumOf(Days \X (T \cup {b}), table) =
           Statistics!SumOf(Days \X T, table) + Statistics!SumOf(Days \X {b}, table)
    BY <2>1, <2>2, <2>3, SumOfBoth
  <2>5. Statistics!SumOf(T \cup {b}, f) = Statistics!SumOf(T, f) + Statistics!SumOf({b}, f)
    <3>1. \A y \in T \cup {b} : f[y] \in Nat BY <1>0, <1>2
    <3>2. T \cap {b} = {} BY <2>2
    <3>3. IsFiniteSet(T) /\ IsFiniteSet({b}) BY <2>1
    <3>4. QED BY <3>1, <3>2, <3>3, SumOfBoth
  <2>6. Statistics!SumOf({b}, f) = f[b] BY <1>0, <1>2, SumOfOne
  <2>7. Statistics!SumOf(Days \X T, table) = Statistics!SumOf(T, f) BY <1>2
  <2>8. QED BY <1>0, <1>2, <2>4, <2>5, <2>6, <2>7
<1>3. Browsers \in G
  <2>. HIDE DEF G
  <2>1. G \in SUBSET (SUBSET Browsers) BY DEF G
  <2>2. QED BY <1>1, <1>2, <2>1, SetInduction
<1>4. QED BY <1>3 DEF f, Statistics!Cells

-----------------------------------------------------------------------------
(* ClickStatistics.                                                        *)

Table == [Statistics!Cells -> 0 .. MaxClicks]
Readings ==
    [phase : {"asked", "reading", "record", "noSuchLink", "notLinkOwner", "generic"},
     got : [Statistics!Queries -> Table \cup {None}], least : Table, quiet : BOOLEAN]

AtMost(f, g) == \A c \in Statistics!Cells : f[c] <= g[c]

\* No row is recorded that was not inserted, and none is inserted twice.
CountedInv ==
    /\ Statistics!SumOf(Browsers, clicks) <= MaxClicks
    /\ \A b \in Browsers :
          Statistics!OfBrowser(Statistics!Recorded, b) + inserting[b] <= clicks[b]

\* What a query saw lies between what stood when the reading began, less what was
\* lost since, and the redirects; undisturbed, it is what stands.
ReadingInv ==
    /\ AtMost(reading.least, Statistics!Recorded)
    /\ reading.phase = "record" => \A q \in Statistics!Queries : reading.got[q] # None
    /\ \A q \in Statistics!Queries : reading.got[q] # None =>
          /\ AtMost(reading.least, reading.got[q])
          /\ \A b \in Browsers : Statistics!OfBrowser(reading.got[q], b) <= clicks[b]
          /\ reading.quiet => reading.got[q] = Statistics!Recorded

StatisticsInv == Statistics!TypeOK /\ CountedInv /\ ReadingInv

LEMMA StatisticsFacts ==
    ASSUME StatisticsInv
    PROVE  /\ created \in BOOLEAN /\ today \in Days /\ link \in {"mine", "other", "none"}
           /\ clicks \in [Browsers -> 0 .. MaxClicks]
           /\ inserting \in [Browsers -> 0 .. MaxClicks]
           /\ buffer \in Table /\ stats \in Table /\ reading \in Readings
           /\ Statistics!Recorded \in [Statistics!Cells -> Nat]
           /\ \A c \in Statistics!Cells : Statistics!Recorded[c] = stats[c] + buffer[c]
           /\ IsFiniteSet(Browsers) /\ IsFiniteSet(Days) /\ MaxClicks \in Nat
           /\ None \notin Table
<1>1. /\ created \in BOOLEAN /\ today \in Days /\ link \in {"mine", "other", "none"}
      /\ clicks \in [Browsers -> 0 .. MaxClicks]
      /\ inserting \in [Browsers -> 0 .. MaxClicks]
      /\ buffer \in Table /\ stats \in Table /\ reading \in Readings
  BY DEF StatisticsInv, Statistics!TypeOK, Table, Readings
<1>2. /\ Statistics!Recorded \in [Statistics!Cells -> Nat]
      /\ \A c \in Statistics!Cells : Statistics!Recorded[c] = stats[c] + buffer[c]
  BY <1>1 DEF Statistics!Recorded, Statistics!Plus, Table
<1>3. /\ IsFiniteSet(Browsers) /\ IsFiniteSet(Days) /\ MaxClicks \in Nat
      /\ None \notin Table
  BY SurfaceAssumption DEF Table
<1>4. QED BY <1>1, <1>2, <1>3

\* The rows of one browser.
LEMMA OfBrowserType ==
    ASSUME NEW f \in [Statistics!Cells -> Nat], NEW b \in Browsers, IsFiniteSet(Days)
    PROVE  /\ Statistics!OfBrowser(f, b) \in Nat
           /\ \A d \in Days : f[<<d, b>>] <= Statistics!OfBrowser(f, b)
<1>. DEFINE g == [d \in Days |-> f[<<d, b>>]]
<1>1. \A d \in Days : g[d] = f[<<d, b>>] /\ g[d] \in Nat BY DEF Statistics!Cells
<1>2. Statistics!OfBrowser(f, b) = Statistics!SumOf(Days, g) BY DEF Statistics!OfBrowser
<1>. HIDE DEF g
<1>3. Statistics!SumOf(Days, g) \in Nat BY <1>1, SumType
<1>4. ASSUME NEW d \in Days PROVE g[d] <= Statistics!SumOf(Days, g)
  <2>1. /\ Statistics!SumOf(Days \ {d}, g) \in Nat
        /\ Statistics!SumOf(Days, g) = Statistics!SumOf(Days \ {d}, g) + g[d]
    BY <1>1, SumWithout
  <2>2. g[d] \in Nat BY <1>1
  <2>3. QED BY <2>1, <2>2
<1>5. QED BY <1>1, <1>2, <1>3, <1>4

LEMMA OfBrowserGrows ==
    ASSUME NEW f \in [Statistics!Cells -> Nat], NEW g \in [Statistics!Cells -> Nat],
           NEW b \in Browsers, IsFiniteSet(Days), AtMost(f, g)
    PROVE  Statistics!OfBrowser(f, b) <= Statistics!OfBrowser(g, b)
<1>. DEFINE h == [d \in Days |-> f[<<d, b>>]]
            k == [d \in Days |-> g[<<d, b>>]]
<1>1. \A d \in Days : h[d] \in Nat /\ k[d] \in Nat /\ h[d] <= k[d]
  BY DEF AtMost, Statistics!Cells
<1>2. /\ Statistics!OfBrowser(f, b) = Statistics!SumOf(Days, h)
      /\ Statistics!OfBrowser(g, b) = Statistics!SumOf(Days, k)
  BY DEF Statistics!OfBrowser
<1>. HIDE DEF h, k
<1>3. QED BY <1>1, <1>2, SumGrows

\* One row more, of one browser.
LEMMA OfBrowserAdds ==
    ASSUME NEW f \in [Statistics!Cells -> Nat], NEW g \in [Statistics!Cells -> Nat],
           NEW b \in Browsers, NEW d \in Days, IsFiniteSet(Days),
           g[<<d, b>>] = f[<<d, b>>] + 1,
           \A c \in Statistics!Cells : c # <<d, b>> => g[c] = f[c]
    PROVE  /\ Statistics!OfBrowser(g, b) = Statistics!OfBrowser(f, b) + 1
           /\ \A x \in Browsers \ {b} : Statistics!OfBrowser(g, x) = Statistics!OfBrowser(f, x)
<1>1. Statistics!OfBrowser(g, b) = Statistics!OfBrowser(f, b) + 1
  <2>. DEFINE h == [e \in Days |-> f[<<e, b>>]]
              k == [e \in Days |-> g[<<e, b>>]]
  <2>1. /\ \A e \in Days : h[e] \in Nat /\ k[e] \in Nat
        /\ \A e \in Days \ {d} : k[e] = h[e]
        /\ k[d] = h[d] + 1
    BY DEF Statistics!Cells
  <2>2. /\ Statistics!OfBrowser(f, b) = Statistics!SumOf(Days, h)
        /\ Statistics!OfBrowser(g, b) = Statistics!SumOf(Days, k)
    BY DEF Statistics!OfBrowser
  <2>. HIDE DEF h, k
  <2>3. Statistics!SumOf(Days, k) + h[d] = Statistics!SumOf(Days, h) + k[d]
    BY <2>1, SumChanges
  <2>4. Statistics!SumOf(Days, k) \in Nat /\ Statistics!SumOf(Days, h) \in Nat
    BY <2>1, SumType
  <2>5. QED BY <2>1, <2>2, <2>3, <2>4
<1>2. ASSUME NEW x \in Browsers \ {b}
      PROVE  Statistics!OfBrowser(g, x) = Statistics!OfBrowser(f, x)
  <2>. DEFINE h == [e \in Days |-> f[<<e, x>>]]
              k == [e \in Days |-> g[<<e, x>>]]
  <2>1. \A e \in Days : k[e] = h[e] BY DEF Statistics!Cells
  <2>2. /\ Statistics!OfBrowser(f, x) = Statistics!SumOf(Days, h)
        /\ Statistics!OfBrowser(g, x) = Statistics!SumOf(Days, k)
    BY DEF Statistics!OfBrowser
  <2>. HIDE DEF h, k
  <2>3. QED BY <2>1, <2>2, SumSame
<1>3. QED BY <1>1, <1>2

\* The bound of the model bounds every count.
LEMMA CountsAreSmall ==
    ASSUME StatisticsInv
    PROVE  /\ \A b \in Browsers : /\ clicks[b] <= MaxClicks
                                  /\ Statistics!OfBrowser(Statistics!Recorded, b) \in Nat
           /\ Statistics!Recorded \in Table
<1>1. ASSUME NEW b \in Browsers
      PROVE  /\ clicks[b] <= MaxClicks /\ clicks[b] \in Nat /\ inserting[b] \in Nat
             /\ Statistics!OfBrowser(Statistics!Recorded, b) \in Nat
             /\ \A d \in Days : Statistics!Recorded[<<d, b>>] <= MaxClicks
  <2>1. clicks[b] \in 0 .. MaxClicks /\ inserting[b] \in 0 .. MaxClicks /\ MaxClicks \in Nat
    BY StatisticsFacts
  <2>2. /\ Statistics!OfBrowser(Statistics!Recorded, b) \in Nat
        /\ \A d \in Days : Statistics!Recorded[<<d, b>>] <=
                              Statistics!OfBrowser(Statistics!Recorded, b)
    BY StatisticsFacts, OfBrowserType
  <2>3. Statistics!OfBrowser(Statistics!Recorded, b) + inserting[b] <= clicks[b]
    BY DEF StatisticsInv, CountedInv
  <2>4. ASSUME NEW d \in Days PROVE Statistics!Recorded[<<d, b>>] <= MaxClicks
    <3>1. Statistics!Recorded[<<d, b>>] \in Nat BY StatisticsFacts DEF Statistics!Cells
    <3>2. QED BY <2>1, <2>2, <2>3, <3>1
  <2>5. QED BY <2>1, <2>2, <2>4
<1>2. \A c \in Statistics!Cells : Statistics!Recorded[c] \in 0 .. MaxClicks
  <2>1. ASSUME NEW d \in Days, NEW b \in Browsers
        PROVE  Statistics!Recorded[<<d, b>>] \in 0 .. MaxClicks
    BY <1>1, StatisticsFacts DEF Statistics!Cells
  <2>2. QED BY <2>1 DEF Statistics!Cells
<1>3. Statistics!Recorded \in Table BY <1>2, StatisticsFacts DEF Table
<1>4. QED BY <1>1, <1>3

LEMMA StatisticsInit == Statistics!Init => StatisticsInv
<1>. SUFFICES ASSUME Statistics!Init PROVE StatisticsInv OBVIOUS
<1>1. /\ IsFiniteSet(Browsers) /\ IsFiniteSet(Days) /\ MaxClicks \in Nat /\ 1 \in Days
  BY SurfaceAssumption
<1>2. /\ Statistics!NoRows \in Table /\ \A c \in Statistics!Cells : Statistics!NoRows[c] = 0
  BY <1>1 DEF Statistics!NoRows, Table
<1>3. /\ buffer = Statistics!NoRows /\ stats = Statistics!NoRows
      /\ reading = [phase |-> "asked", got |-> [q \in Statistics!Queries |-> None],
                    least |-> Statistics!NoRows, quiet |-> TRUE]
      /\ clicks = [b \in Browsers |-> 0] /\ inserting = [b \in Browsers |-> 0]
      /\ created \in BOOLEAN /\ link = "mine" /\ today = 1
  BY DEF Statistics!Init, Statistics!NoReading, Statistics!Reading
<1>. HIDE DEF Statistics!NoRows
<1>4. Statistics!TypeOK
  BY <1>1, <1>2, <1>3 DEF Statistics!TypeOK, Table
<1>5. Statistics!Recorded = Statistics!NoRows
  BY <1>2, <1>3 DEF Statistics!Recorded, Statistics!Plus, Statistics!NoRows
<1>6. ASSUME NEW S, IsFiniteSet(S), NEW f, \A x \in S : f[x] = 0
      PROVE  Statistics!SumOf(S, f) = 0
  <2>1. \A x \in S : {x} \X (1 .. f[x]) = {} BY <1>6
  <2>2. Things(S, f) = {} BY <2>1 DEF Things
  <2>3. QED BY <2>2, CardinalityIsOne, FS_EmptySet DEF Statistics!SumOf, Things
<1>7. ASSUME NEW b \in Browsers
      PROVE  Statistics!OfBrowser(Statistics!NoRows, b) = 0
  <2>. DEFINE g == [d \in Days |-> Statistics!NoRows[<<d, b>>]]
  <2>1. \A d \in Days : g[d] = 0 BY <1>2 DEF Statistics!Cells
  <2>2. Statistics!OfBrowser(Statistics!NoRows, b) = Statistics!SumOf(Days, g)
    BY DEF Statistics!OfBrowser
  <2>. HIDE DEF g
  <2>3. QED BY <1>1, <1>6, <2>1, <2>2
<1>8. CountedInv
  <2>1. Statistics!SumOf(Browsers, clicks) = 0 BY <1>1, <1>3, <1>6
  <2>2. QED BY <1>1, <1>3, <1>5, <1>7, <2>1 DEF CountedInv
<1>9. ReadingInv BY <1>2, <1>3, <1>5 DEF ReadingInv, AtMost
<1>10. QED BY <1>4, <1>8, <1>9 DEF StatisticsInv

\* Nothing that is counted changes, but the reading may.
LEMMA ReadingMoves ==
    ASSUME StatisticsInv, UNCHANGED <<clicks, inserting, buffer, stats>>,
           created' \in BOOLEAN, today' \in Days, link' \in {"mine", "other", "none"},
           reading' \in Readings, ReadingInv'
    PROVE  StatisticsInv'
<1>1. Statistics!Recorded' = Statistics!Recorded
  BY DEF Statistics!Recorded, Statistics!Plus
<1>2. Statistics!TypeOK'
  BY StatisticsFacts DEF Statistics!TypeOK, Table, Readings
<1>3. CountedInv' BY <1>1 DEF StatisticsInv, CountedInv, Statistics!OfBrowser
<1>4. QED BY <1>2, <1>3 DEF StatisticsInv

\* The rows move or grow beneath a reading.
LEMMA ReadingStays ==
    ASSUME StatisticsInv, UNCHANGED reading, Statistics!Recorded' = Statistics!Recorded,
           \A b \in Browsers : clicks'[b] \in Nat /\ clicks[b] <= clicks'[b]
    PROVE  ReadingInv'
<1>1. ASSUME NEW q \in Statistics!Queries, reading.got[q] # None, NEW b \in Browsers
      PROVE  Statistics!OfBrowser(reading.got[q], b) <= clicks'[b]
  <2>1. reading.got[q] \in [Statistics!Cells -> Nat]
    BY <1>1, StatisticsFacts DEF Readings, Table
  <2>2. Statistics!OfBrowser(reading.got[q], b) \in Nat
    BY <2>1, StatisticsFacts, OfBrowserType
  <2>3. Statistics!OfBrowser(reading.got[q], b) <= clicks[b] /\ clicks[b] \in Nat
    BY <1>1, StatisticsFacts DEF StatisticsInv, ReadingInv
  <2>4. clicks[b] <= clicks'[b] /\ clicks'[b] \in Nat OBVIOUS
  <2>5. QED BY <2>2, <2>3, <2>4
<1>2. ASSUME NEW q \in Statistics!Queries, NEW b \in Browsers
      PROVE  Statistics!OfBrowser(reading.got[q], b)' =
                Statistics!OfBrowser(reading.got[q], b)
  BY DEF Statistics!OfBrowser
<1>3. QED BY <1>1, <1>2 DEF StatisticsInv, ReadingInv, AtMost

\* A redirect is answered, and its row is underway.
LEMMA RecordStatsInv ==
    ASSUME StatisticsInv, NEW b \in Browsers, Statistics!recordStatsIfActive(b)
    PROVE  StatisticsInv'
<1>1. /\ Statistics!SumOf(Browsers, clicks) < MaxClicks
      /\ clicks' = [clicks EXCEPT ![b] = clicks[b] + 1]
      /\ inserting' = [inserting EXCEPT ![b] = inserting[b] + 1]
      /\ UNCHANGED <<created, buffer, stats, today, link, reading>>
  BY DEF Statistics!recordStatsIfActive
<1>2. /\ clicks \in [Browsers -> 0 .. MaxClicks] /\ inserting \in [Browsers -> 0 .. MaxClicks]
      /\ MaxClicks \in Nat /\ IsFiniteSet(Browsers) /\ IsFiniteSet(Days)
  BY StatisticsFacts
<1>3. /\ clicks' \in [Browsers -> Nat] /\ inserting' \in [Browsers -> Nat]
      /\ clicks'[b] = clicks[b] + 1 /\ inserting'[b] = inserting[b] + 1
      /\ \A x \in Browsers \ {b} : clicks'[x] = clicks[x] /\ inserting'[x] = inserting[x]
  BY <1>1, <1>2
<1>4. Statistics!SumOf(Browsers, clicks') = Statistics!SumOf(Browsers, clicks) + 1
  <2>1. \A x \in Browsers : clicks[x] \in Nat /\ clicks'[x] \in Nat BY <1>2, <1>3
  <2>2. /\ Statistics!SumOf(Browsers, clicks) \in Nat
        /\ Statistics!SumOf(Browsers, clicks') \in Nat
    BY <1>2, <2>1, SumType
  <2>3. Statistics!SumOf(Browsers, clicks') + clicks[b] =
           Statistics!SumOf(Browsers, clicks) + clicks'[b]
    BY <1>2, <1>3, <2>1, SumChanges
  <2>4. clicks[b] \in Nat BY <2>1
  <2>5. QED BY <1>3, <2>2, <2>3, <2>4
<1>5. Statistics!SumOf(Browsers, clicks') <= MaxClicks
  <2>1. Statistics!SumOf(Browsers, clicks) \in Nat
    BY <1>2, SumType
  <2>2. QED BY <1>1, <1>2, <1>4, <2>1
<1>6. Statistics!Recorded' = Statistics!Recorded
  BY <1>1 DEF Statistics!Recorded, Statistics!Plus
<1>7. CountedInv'
  <2>1. ASSUME NEW x \in Browsers
        PROVE  Statistics!OfBrowser(Statistics!Recorded, x) + inserting'[x] <= clicks'[x]
    <3>1. Statistics!OfBrowser(Statistics!Recorded, x) \in Nat BY CountsAreSmall
    <3>2. Statistics!OfBrowser(Statistics!Recorded, x) + inserting[x] <= clicks[x]
      BY DEF StatisticsInv, CountedInv
    <3>3. inserting[x] \in Nat /\ clicks[x] \in Nat BY <1>2
    <3>4. QED BY <1>3, <3>1, <3>2, <3>3
  <2>2. QED BY <1>5, <1>6, <2>1 DEF CountedInv, Statistics!OfBrowser, Statistics!SumOf
<1>8. Statistics!TypeOK'
  <2>1. ASSUME NEW x \in Browsers
        PROVE  clicks'[x] \in 0 .. MaxClicks /\ inserting'[x] \in 0 .. MaxClicks
    <3>1. \A y \in Browsers : clicks'[y] \in Nat BY <1>3
    <3>2. /\ Statistics!SumOf(Browsers \ {x}, clicks') \in Nat
          /\ Statistics!SumOf(Browsers, clicks') =
                Statistics!SumOf(Browsers \ {x}, clicks') + clicks'[x]
      BY <1>2, <3>1, SumWithout
    <3>3. clicks'[x] \in Nat /\ inserting'[x] \in Nat BY <1>3
    <3>4. clicks'[x] <= MaxClicks BY <1>2, <1>5, <3>2, <3>3
    <3>5. Statistics!OfBrowser(Statistics!Recorded, x) \in Nat BY CountsAreSmall
    <3>6. Statistics!OfBrowser(Statistics!Recorded, x) + inserting[x] <= clicks[x]
      BY DEF StatisticsInv, CountedInv
    <3>7. inserting[x] \in Nat /\ clicks[x] \in Nat BY <1>2
    <3>8. inserting'[x] <= clicks'[x] BY <1>3, <3>5, <3>6, <3>7
    <3>9. QED BY <1>2, <3>3, <3>4, <3>8
  <2>2. clicks' \in [Browsers -> 0 .. MaxClicks] /\ inserting' \in [Browsers -> 0 .. MaxClicks]
    BY <1>3, <2>1
  <2>3. QED BY <1>1, <2>2, StatisticsFacts DEF Statistics!TypeOK, Table, Readings
<1>9. ReadingInv'
  <2>1. \A x \in Browsers : clicks'[x] \in Nat /\ clicks[x] <= clicks'[x]
    BY <1>2, <1>3
  <2>2. QED BY <1>1, <1>6, <2>1, ReadingStays
<1>10. QED BY <1>7, <1>8, <1>9 DEF StatisticsInv

\* A reading that is disturbed vouches for less.
LEMMA ReadingDisturbed ==
    ASSUME StatisticsInv, NEW least \in Table, UNCHANGED clicks,
           AtMost(least, reading.least), AtMost(least, Statistics!Recorded'),
           reading' = [[reading EXCEPT !.quiet = FALSE] EXCEPT !.least = least]
    PROVE  reading' \in Readings /\ ReadingInv'
<1>1. /\ reading' \in Readings /\ reading'.phase = reading.phase /\ reading'.got = reading.got
      /\ reading'.least = least /\ reading'.quiet = FALSE
  BY StatisticsFacts DEF Readings
<1>2. ASSUME NEW q \in Statistics!Queries, reading.got[q] # None
      PROVE  AtMost(least, reading.got[q])
  <2>1. reading.got[q] \in Table /\ reading.least \in Table
    BY <1>2, StatisticsFacts DEF Readings
  <2>2. AtMost(reading.least, reading.got[q]) BY <1>2 DEF StatisticsInv, ReadingInv
  <2>3. ASSUME NEW c \in Statistics!Cells PROVE least[c] <= reading.got[q][c]
    <3>1. least[c] <= reading.least[c] /\ reading.least[c] <= reading.got[q][c]
      BY <2>2 DEF AtMost
    <3>2. least[c] \in Int /\ reading.least[c] \in Int /\ reading.got[q][c] \in Int
      BY <2>1 DEF Table
    <3>3. QED BY <3>1, <3>2
  <2>4. QED BY <2>3 DEF AtMost
<1>3. ASSUME NEW q \in Statistics!Queries, NEW b \in Browsers
      PROVE  Statistics!OfBrowser(reading'.got[q], b) = Statistics!OfBrowser(reading.got[q], b)
  BY <1>1
<1>4. ReadingInv'
  <2>1. AtMost(reading'.least, Statistics!Recorded') BY <1>1
  <2>2. reading'.phase = "record" => \A q \in Statistics!Queries : reading'.got[q] # None
    BY <1>1 DEF StatisticsInv, ReadingInv
  <2>3. ASSUME NEW q \in Statistics!Queries, reading'.got[q] # None
        PROVE  /\ AtMost(reading'.least, reading'.got[q])
               /\ \A b \in Browsers : Statistics!OfBrowser(reading'.got[q], b) <= clicks'[b]
               /\ ~reading'.quiet
    BY <1>1, <1>2, <1>3, <2>3 DEF StatisticsInv, ReadingInv
  <2>4. QED BY <2>1, <2>2, <2>3 DEF ReadingInv, AtMost, Statistics!OfBrowser, Statistics!SumOf
<1>5. QED BY <1>1, <1>4

\* An insert ends, and its row may have been written.
LEMMA RecordSafeInv ==
    ASSUME StatisticsInv, NEW b \in Browsers, Statistics!recordSafe(b)
    PROVE  StatisticsInv'
<1>1. /\ inserting[b] > 0 /\ inserting' = [inserting EXCEPT ![b] = inserting[b] - 1]
      /\ UNCHANGED <<created, clicks, stats, today, link>>
  BY DEF Statistics!recordSafe
<1>2. /\ clicks \in [Browsers -> 0 .. MaxClicks] /\ inserting \in [Browsers -> 0 .. MaxClicks]
      /\ buffer \in Table /\ stats \in Table /\ reading \in Readings
      /\ MaxClicks \in Nat /\ IsFiniteSet(Browsers) /\ IsFiniteSet(Days) /\ today \in Days
      /\ Statistics!Recorded \in [Statistics!Cells -> Nat]
      /\ \A c \in Statistics!Cells : Statistics!Recorded[c] = stats[c] + buffer[c]
  BY StatisticsFacts
<1>3. /\ inserting' \in [Browsers -> 0 .. MaxClicks] /\ inserting'[b] = inserting[b] - 1
      /\ \A x \in Browsers \ {b} : inserting'[x] = inserting[x]
  BY <1>1, <1>2
<1>4. ASSUME NEW x \in Browsers
      PROVE  /\ Statistics!OfBrowser(Statistics!Recorded, x) \in Nat
             /\ Statistics!OfBrowser(Statistics!Recorded, x) + inserting[x] <= clicks[x]
             /\ inserting[x] \in Nat /\ clicks[x] \in Nat
             /\ clicks[x] <= MaxClicks
  <2>1. Statistics!OfBrowser(Statistics!Recorded, x) \in Nat /\ clicks[x] <= MaxClicks
    BY CountsAreSmall
  <2>2. Statistics!OfBrowser(Statistics!Recorded, x) + inserting[x] <= clicks[x]
    BY DEF StatisticsInv, CountedInv
  <2>3. QED BY <1>2, <2>1, <2>2
<1>5. CASE UNCHANGED <<buffer, reading>>
  <2>1. Statistics!Recorded' = Statistics!Recorded
    BY <1>1, <1>5 DEF Statistics!Recorded, Statistics!Plus
  <2>2. CountedInv'
    <3>1. \A x \in Browsers :
             Statistics!OfBrowser(Statistics!Recorded, x) + inserting'[x] <= clicks[x]
      BY <1>3, <1>4
    <3>2. Statistics!SumOf(Browsers, clicks) <= MaxClicks BY DEF StatisticsInv, CountedInv
    <3>3. QED
      BY <1>1, <2>1, <3>1, <3>2 DEF CountedInv, Statistics!OfBrowser, Statistics!SumOf
  <2>3. Statistics!TypeOK'
    BY <1>1, <1>3, <1>5, StatisticsFacts DEF Statistics!TypeOK, Table, Readings
  <2>4. ReadingInv'
    <3>1. \A x \in Browsers : clicks'[x] \in Nat /\ clicks[x] <= clicks'[x]
      BY <1>1, <1>4
    <3>2. QED BY <1>5, <2>1, <3>1, ReadingStays
  <2>5. QED BY <2>2, <2>3, <2>4 DEF StatisticsInv
<1>6. CASE Statistics!insert(b)
  <2>. DEFINE cell == <<today, b>>
  <2>1. cell \in Statistics!Cells BY <1>2 DEF Statistics!Cells
  <2>2. buffer' = [buffer EXCEPT ![cell] = buffer[cell] + 1]
    BY <1>6 DEF Statistics!insert
  <2>3. reading' = [reading EXCEPT !.quiet = FALSE]
    BY <1>6 DEF Statistics!insert, Statistics!Disturbed
  <2>. HIDE DEF cell
  <2>4. /\ buffer' \in [Statistics!Cells -> Nat] /\ buffer'[cell] = buffer[cell] + 1
        /\ \A c \in Statistics!Cells \ {cell} : buffer'[c] = buffer[c]
    BY <1>2, <2>1, <2>2 DEF Table
  <2>. DEFINE new == Statistics!Recorded'
  <2>5. /\ new \in [Statistics!Cells -> Nat]
        /\ \A c \in Statistics!Cells : new[c] = stats[c] + buffer'[c]
    BY <1>1, <1>2, <2>4 DEF Statistics!Recorded, Statistics!Plus, Table
  <2>. HIDE DEF new
  <2>6. /\ new[cell] = Statistics!Recorded[cell] + 1
        /\ \A c \in Statistics!Cells : c # cell => new[c] = Statistics!Recorded[c]
    <3>1. \A c \in Statistics!Cells : stats[c] \in Nat /\ buffer[c] \in Nat BY <1>2 DEF Table
    <3>2. QED BY <1>2, <2>1, <2>4, <2>5, <3>1
  <2>7. /\ Statistics!OfBrowser(new, b) = Statistics!OfBrowser(Statistics!Recorded, b) + 1
        /\ \A x \in Browsers \ {b} :
              Statistics!OfBrowser(new, x) = Statistics!OfBrowser(Statistics!Recorded, x)
    BY <1>2, <2>5, <2>6, OfBrowserAdds DEF cell
  <2>8. ASSUME NEW x \in Browsers
        PROVE  Statistics!OfBrowser(new, x) + inserting'[x] <= clicks[x]
    BY <1>1, <1>3, <1>4, <2>7
  <2>9. CountedInv'
    <3>1. Statistics!SumOf(Browsers, clicks) <= MaxClicks BY DEF StatisticsInv, CountedInv
    <3>2. \A x \in Browsers :
             Statistics!OfBrowser(Statistics!Recorded, x)' = Statistics!OfBrowser(new, x)
      BY DEF new, Statistics!OfBrowser, Statistics!SumOf
    <3>3. QED
      BY <1>1, <2>8, <3>1, <3>2 DEF CountedInv, Statistics!SumOf
  <2>10. buffer' \in Table
    <3>1. ASSUME NEW c \in Statistics!Cells PROVE buffer'[c] \in 0 .. MaxClicks
      <4>1. PICK d \in Days, x \in Browsers : c = <<d, x>> BY DEF Statistics!Cells
      <4>2. Statistics!OfBrowser(new, x) \in Nat /\ new[c] <= Statistics!OfBrowser(new, x)
        BY <1>2, <2>5, <4>1, OfBrowserType
      <4>3. Statistics!OfBrowser(new, x) + inserting'[x] <= clicks[x] BY <2>8
      <4>4. inserting'[x] \in Nat BY <1>3
      <4>5. buffer'[c] <= new[c] /\ new[c] \in Nat /\ buffer'[c] \in Nat
        BY <1>2, <2>4, <2>5 DEF Table
      <4>6. clicks[x] <= MaxClicks /\ clicks[x] \in Nat BY <1>4
      <4>7. QED BY <1>2, <4>2, <4>3, <4>4, <4>5, <4>6
    <3>2. QED BY <2>4, <3>1 DEF Table
  <2>11. reading' \in Readings /\ ReadingInv'
    <3>1. reading.least \in Table BY <1>2 DEF Readings
    <3>2. AtMost(reading.least, new)
      <4>1. ASSUME NEW c \in Statistics!Cells PROVE reading.least[c] <= new[c]
        <5>1. reading.least[c] <= Statistics!Recorded[c]
          BY DEF StatisticsInv, ReadingInv, AtMost
        <5>2. reading.least[c] \in Nat /\ Statistics!Recorded[c] \in Nat
          BY <1>2, <3>1 DEF Table
        <5>3. QED BY <2>6, <5>1, <5>2
      <4>2. QED BY <4>1 DEF AtMost
    <3>3. AtMost(reading.least, reading.least) BY <3>1 DEF AtMost, Table
    <3>4. reading' = [[reading EXCEPT !.quiet = FALSE] EXCEPT !.least = reading.least]
      BY <1>2, <2>3 DEF Readings
    <3>5. QED BY <1>1, <3>1, <3>2, <3>3, <3>4, ReadingDisturbed DEF new
  <2>12. Statistics!TypeOK'
    BY <1>1, <1>3, <2>10, <2>11, StatisticsFacts DEF Statistics!TypeOK, Table, Readings
  <2>13. QED BY <2>9, <2>11, <2>12 DEF StatisticsInv
<1>7. QED BY <1>5, <1>6 DEF Statistics!recordSafe

\* A flush moves the rows, and loses none.
LEMMA FlushInv == ASSUME StatisticsInv, Statistics!Flush PROVE StatisticsInv'
<1>1. /\ stats' = Statistics!Recorded /\ buffer' = Statistics!NoRows
      /\ UNCHANGED <<created, clicks, inserting, today, link, reading>>
  BY DEF Statistics!Flush
<1>2. /\ Statistics!NoRows \in Table /\ \A c \in Statistics!Cells : Statistics!NoRows[c] = 0
  BY SurfaceAssumption DEF Statistics!NoRows, Table
<1>3. /\ Statistics!Recorded \in [Statistics!Cells -> Nat] /\ Statistics!Recorded \in Table
  BY StatisticsFacts, CountsAreSmall
<1>4. Statistics!Recorded' = Statistics!Recorded
  <2>1. Statistics!Recorded' = [c \in Statistics!Cells |-> stats'[c] + buffer'[c]]
    BY DEF Statistics!Recorded, Statistics!Plus
  <2>2. \A c \in Statistics!Cells : stats'[c] + buffer'[c] = Statistics!Recorded[c]
    BY <1>1, <1>2, <1>3
  <2>3. QED BY <1>3, <2>1, <2>2
<1>5. CountedInv'
  <2>1. \A x \in Browsers :
           Statistics!OfBrowser(Statistics!Recorded, x)' =
              Statistics!OfBrowser(Statistics!Recorded, x)
    BY <1>4 DEF Statistics!OfBrowser, Statistics!SumOf
  <2>2. QED BY <1>1, <2>1 DEF StatisticsInv, CountedInv, Statistics!SumOf
<1>6. Statistics!TypeOK'
  BY <1>1, <1>2, <1>3, StatisticsFacts DEF Statistics!TypeOK, Table, Readings
<1>7. ReadingInv'
  <2>1. \A x \in Browsers : clicks'[x] \in Nat /\ clicks[x] <= clicks'[x]
    BY <1>1, StatisticsFacts
  <2>2. QED BY <1>1, <1>4, <2>1, ReadingStays
<1>8. QED BY <1>5, <1>6, <1>7 DEF StatisticsInv

\* A stop of ClickHouse loses rows, and the reading vouches for no lost one.
LEMMA CrashInv == ASSUME StatisticsInv, Statistics!Crash PROVE StatisticsInv'
<1>. DEFINE least == [c \in Statistics!Cells |->
                        IF reading.least[c] < stats[c] THEN reading.least[c] ELSE stats[c]]
<1>1. /\ buffer' = Statistics!NoRows
      /\ UNCHANGED <<created, clicks, inserting, stats, today, link>>
  BY DEF Statistics!Crash
<1>2. /\ stats \in Table /\ buffer \in Table /\ reading \in Readings /\ MaxClicks \in Nat
      /\ IsFiniteSet(Days) /\ clicks \in [Browsers -> 0 .. MaxClicks]
      /\ inserting \in [Browsers -> 0 .. MaxClicks]
      /\ Statistics!Recorded \in [Statistics!Cells -> Nat]
      /\ \A c \in Statistics!Cells : Statistics!Recorded[c] = stats[c] + buffer[c]
  BY StatisticsFacts
<1>3. reading' = [[reading EXCEPT !.quiet = FALSE] EXCEPT !.least = least]
  BY <1>2 DEF Statistics!Crash, Statistics!Disturbed, Readings
<1>4. /\ Statistics!NoRows \in Table /\ \A c \in Statistics!Cells : Statistics!NoRows[c] = 0
  BY <1>2 DEF Statistics!NoRows, Table
<1>5. Statistics!Recorded' = stats
  <2>1. Statistics!Recorded' = [c \in Statistics!Cells |-> stats'[c] + buffer'[c]]
    BY DEF Statistics!Recorded, Statistics!Plus
  <2>2. \A c \in Statistics!Cells : stats'[c] + buffer'[c] = stats[c]
    BY <1>1, <1>2, <1>4 DEF Table
  <2>3. QED BY <1>2, <2>1, <2>2 DEF Table
<1>6. least \in Table /\ AtMost(least, reading.least) /\ AtMost(least, stats)
  <2>1. reading.least \in Table BY <1>2 DEF Readings
  <2>2. ASSUME NEW c \in Statistics!Cells
        PROVE  /\ least[c] \in 0 .. MaxClicks
               /\ least[c] <= reading.least[c] /\ least[c] <= stats[c]
    BY <1>2, <2>1 DEF Table
  <2>3. QED BY <2>2 DEF AtMost, Table
<1>. HIDE DEF least
<1>7. reading' \in Readings /\ ReadingInv' BY <1>1, <1>3, <1>5, <1>6, ReadingDisturbed
<1>8. CountedInv'
  <2>1. ASSUME NEW x \in Browsers
        PROVE  Statistics!OfBrowser(stats, x) + inserting[x] <= clicks[x]
    <3>1. stats \in [Statistics!Cells -> Nat] BY <1>2 DEF Table
    <3>2. AtMost(stats, Statistics!Recorded) BY <1>2 DEF AtMost, Table
    <3>3. Statistics!OfBrowser(stats, x) <= Statistics!OfBrowser(Statistics!Recorded, x)
      BY <1>2, <3>1, <3>2, OfBrowserGrows
    <3>4. Statistics!OfBrowser(stats, x) \in Nat BY <1>2, <3>1, OfBrowserType
    <3>5. Statistics!OfBrowser(Statistics!Recorded, x) \in Nat BY CountsAreSmall
    <3>6. Statistics!OfBrowser(Statistics!Recorded, x) + inserting[x] <= clicks[x]
      BY DEF StatisticsInv, CountedInv
    <3>7. inserting[x] \in Nat /\ clicks[x] \in Nat BY <1>2
    <3>8. QED BY <3>3, <3>4, <3>5, <3>6, <3>7
  <2>2. \A x \in Browsers :
           Statistics!OfBrowser(Statistics!Recorded, x)' = Statistics!OfBrowser(stats, x)
    BY <1>5 DEF Statistics!OfBrowser, Statistics!SumOf
  <2>3. Statistics!SumOf(Browsers, clicks) <= MaxClicks BY DEF StatisticsInv, CountedInv
  <2>4. QED BY <1>1, <2>1, <2>2, <2>3 DEF CountedInv, Statistics!SumOf
<1>9. Statistics!TypeOK'
  BY <1>1, <1>4, <1>7, StatisticsFacts DEF Statistics!TypeOK, Table, Readings
<1>10. QED BY <1>7, <1>8, <1>9 DEF StatisticsInv

\* A reading that begins, or is given up.
LEMMA ReadingBegins ==
    ASSUME StatisticsInv,
           NEW phase \in {"asked", "reading", "noSuchLink", "notLinkOwner", "generic"},
           NEW least \in Table, AtMost(least, Statistics!Recorded),
           UNCHANGED <<clicks, inserting, buffer, stats, created, today, link>>,
           reading' = [phase |-> phase, got |-> [q \in Statistics!Queries |-> None],
                       least |-> least, quiet |-> TRUE]
    PROVE  StatisticsInv'
<1>1. /\ reading' \in Readings /\ reading'.phase # "record" /\ reading'.least = least
      /\ \A q \in Statistics!Queries : reading'.got[q] = None
  BY DEF Readings
<1>2. Statistics!Recorded' = Statistics!Recorded
  BY DEF Statistics!Recorded, Statistics!Plus
<1>3. ReadingInv' BY <1>1, <1>2 DEF ReadingInv, AtMost
<1>4. QED BY <1>1, <1>3, ReadingMoves, StatisticsFacts

\* A query sees what stands.
LEMMA QueryInv ==
    ASSUME StatisticsInv, NEW q \in Statistics!Queries, Statistics!query(q)
    PROVE  StatisticsInv'
<1>1. /\ reading.phase = "reading" /\ reading.got[q] = None
      /\ reading' = [reading EXCEPT !.got[q] = Statistics!Recorded]
      /\ UNCHANGED <<created, clicks, inserting, buffer, stats, today, link>>
  BY DEF Statistics!query, Statistics!FromStatsBuffer
<1>2. reading \in Readings /\ Statistics!Recorded \in Table /\ None \notin Table
  BY StatisticsFacts, CountsAreSmall
<1>. DEFINE got == [reading.got EXCEPT ![q] = Statistics!Recorded]
<1>3. reading' = [reading EXCEPT !.got = got] BY <1>1, <1>2 DEF Readings
<1>4. /\ got \in [Statistics!Queries -> Table \cup {None}] /\ got[q] = Statistics!Recorded
      /\ \A x \in Statistics!Queries \ {q} : got[x] = reading.got[x]
  BY <1>2 DEF Readings
<1>. HIDE DEF got
<1>5. /\ reading' \in Readings /\ reading'.phase = "reading" /\ reading'.got = got
      /\ reading'.least = reading.least /\ reading'.quiet = reading.quiet
  BY <1>1, <1>2, <1>3, <1>4 DEF Readings
<1>6. Statistics!Recorded' = Statistics!Recorded
  BY <1>1 DEF Statistics!Recorded, Statistics!Plus
<1>7. ASSUME NEW x \in Statistics!Queries, got[x] # None
      PROVE  /\ AtMost(reading.least, got[x])
             /\ \A b \in Browsers : Statistics!OfBrowser(got[x], b) <= clicks[b]
             /\ reading.quiet => got[x] = Statistics!Recorded
  <2>1. CASE x = q
    <3>1. ASSUME NEW b \in Browsers
          PROVE  Statistics!OfBrowser(Statistics!Recorded, b) <= clicks[b]
      <4>1. Statistics!OfBrowser(Statistics!Recorded, b) \in Nat BY CountsAreSmall
      <4>2. Statistics!OfBrowser(Statistics!Recorded, b) + inserting[b] <= clicks[b]
        BY DEF StatisticsInv, CountedInv
      <4>3. inserting[b] \in Nat /\ clicks[b] \in Nat BY StatisticsFacts
      <4>4. QED BY <4>1, <4>2, <4>3
    <3>2. QED BY <1>4, <2>1, <3>1 DEF StatisticsInv, ReadingInv
  <2>2. CASE x # q BY <1>4, <1>7, <2>2 DEF StatisticsInv, ReadingInv
  <2>3. QED BY <2>1, <2>2
<1>8. ReadingInv'
  <2>1. \A x \in Statistics!Queries, b \in Browsers :
           Statistics!OfBrowser(reading.got[x], b)' = Statistics!OfBrowser(got[x], b)
    BY <1>5 DEF Statistics!OfBrowser, Statistics!SumOf
  <2>2. AtMost(reading.least, Statistics!Recorded) BY DEF StatisticsInv, ReadingInv
  <2>3. QED BY <1>1, <1>5, <1>6, <1>7, <2>1, <2>2 DEF ReadingInv, AtMost
<1>9. QED BY <1>1, <1>5, <1>8, ReadingMoves, StatisticsFacts

\* The reading is complete; or only what is not counted changes.
LEMMA AssembleInv ==
    ASSUME StatisticsInv, \/ Statistics!assembleStats
                          \/ Statistics!onModuleInit \/ Statistics!Midnight
                          \/ Statistics!LinkChanges
                          \/ UNCHANGED statisticsVars
    PROVE  StatisticsInv'
<1>0. /\ UNCHANGED <<clicks, inserting, buffer, stats>>
      /\ created' \in BOOLEAN /\ today' \in Days /\ link' \in {"mine", "other", "none"}
  BY StatisticsFacts
     DEF Statistics!assembleStats, Statistics!onModuleInit, Statistics!Midnight,
         Statistics!LinkChanges, statisticsVars
<1>1. Statistics!Recorded' = Statistics!Recorded
  BY <1>0 DEF Statistics!Recorded, Statistics!Plus
<1>2. CASE UNCHANGED reading
  <2>1. \A x \in Browsers : clicks'[x] \in Nat /\ clicks[x] <= clicks'[x]
    BY <1>0, StatisticsFacts
  <2>2. ReadingInv' BY <1>1, <1>2, <2>1, ReadingStays
  <2>3. QED BY <1>0, <1>2, <2>2, ReadingMoves, StatisticsFacts
<1>3. CASE Statistics!assembleStats
  <2>1. /\ \A q \in Statistics!Queries : reading.got[q] # None
        /\ reading' = [reading EXCEPT !.phase = "record"]
    BY <1>3 DEF Statistics!assembleStats
  <2>2. /\ reading' \in Readings /\ reading'.got = reading.got
        /\ reading'.least = reading.least /\ reading'.quiet = reading.quiet
    BY <2>1, StatisticsFacts DEF Readings
  <2>3. \A q \in Statistics!Queries, b \in Browsers :
           Statistics!OfBrowser(reading.got[q], b)' = Statistics!OfBrowser(reading.got[q], b)
    BY <2>2 DEF Statistics!OfBrowser, Statistics!SumOf
  <2>4. ReadingInv'
    BY <1>0, <1>1, <2>1, <2>2, <2>3 DEF StatisticsInv, ReadingInv, AtMost
  <2>5. QED BY <1>0, <2>2, <2>4, ReadingMoves
<1>4. QED
  BY <1>2, <1>3
     DEF Statistics!onModuleInit, Statistics!Midnight, Statistics!LinkChanges, statisticsVars

LEMMA StatisticsStep ==
    ASSUME StatisticsInv, [Statistics!Next]_statisticsVars PROVE StatisticsInv'
<1>1. CASE Statistics!Ask \/ Statistics!verifyLinkOwnership \/ Statistics!QueryFails
  <2>1. /\ Statistics!NoRows \in Table /\ AtMost(Statistics!NoRows, Statistics!Recorded)
    BY StatisticsFacts DEF Statistics!NoRows, Table, AtMost
  <2>2. Statistics!Recorded \in Table /\ AtMost(Statistics!Recorded, Statistics!Recorded)
    BY StatisticsFacts, CountsAreSmall DEF AtMost
  <2>3. UNCHANGED <<created, clicks, inserting, buffer, stats, today, link>>
    BY <1>1 DEF Statistics!Ask, Statistics!verifyLinkOwnership, Statistics!QueryFails
  <2>4. \E phase \in {"asked", "reading", "noSuchLink", "notLinkOwner", "generic"},
           least \in {Statistics!NoRows, Statistics!Recorded} :
           reading' = [phase |-> phase, got |-> [q \in Statistics!Queries |-> None],
                       least |-> least, quiet |-> TRUE]
    <3>. HIDE DEF Statistics!NoRows, Statistics!Recorded
    <3>1. \A p : Statistics!NoReading(p) =
                   [phase |-> p, got |-> [q \in Statistics!Queries |-> None],
                    least |-> Statistics!NoRows, quiet |-> TRUE]
      BY DEF Statistics!NoReading, Statistics!Reading
    <3>2. CASE Statistics!Ask BY <3>1, <3>2 DEF Statistics!Ask
    <3>3. CASE Statistics!QueryFails BY <3>1, <3>3 DEF Statistics!QueryFails
    <3>4. CASE Statistics!verifyLinkOwnership
      BY <3>1, <3>4 DEF Statistics!verifyLinkOwnership, Statistics!Reading
    <3>5. QED BY <1>1, <3>2, <3>3, <3>4
  <2>5. QED BY <2>1, <2>2, <2>3, <2>4, ReadingBegins
<1>2. QED
  BY <1>1, FlushInv, CrashInv, RecordStatsInv, RecordSafeInv, QueryInv, AssembleInv
     DEF Statistics!Next

LEMMA ShareIsAPart ==
    ASSUME NEW n \in Nat, NEW total \in Nat, n <= total
    PROVE  Statistics!shareOfTotal(n, total) <= 100
<1>1. CASE total = 0 BY <1>1 DEF Statistics!shareOfTotal
<1>2. CASE total # 0
  <2>. DEFINE a == 200 * n + total
              m == 2 * total
              q == a \div m
  <2>1. a \in Nat /\ m \in Nat /\ m > 0 /\ a < 101 * m BY <1>2
  <2>2. Statistics!shareOfTotal(n, total) = q BY <1>2 DEF Statistics!shareOfTotal
  <2>. HIDE DEF a, m
  <2>3. q \in Int /\ m * q <= a BY <2>1
  <2>. HIDE DEF q
  <2>4. q >= 101 => m * q >= m * 101 BY <2>1, <2>3
  <2>5. q <= 100 BY <2>1, <2>3, <2>4
  <2>6. QED BY <2>2, <2>5
<1>3. QED BY <1>1, <1>2

LEMMA StatisticsShow == StatisticsInv => Statistics!ReadingIsBracketed
<1>. SUFFICES ASSUME StatisticsInv, reading.phase = "record"
              PROVE  Statistics!ReadingIsBracketed
  BY DEF Statistics!ReadingIsBracketed
<1>1. /\ reading \in Readings /\ IsFiniteSet(Days) /\ IsFiniteSet(Browsers)
      /\ None \notin Table /\ MaxClicks \in Nat
      /\ Statistics!Recorded \in [Statistics!Cells -> Nat]
  BY StatisticsFacts
<1>2. reading.least \in [Statistics!Cells -> Nat] BY <1>1 DEF Readings, Table
<1>3. ASSUME NEW q \in Statistics!Queries
      PROVE  /\ reading.got[q] \in [Statistics!Cells -> Nat]
             /\ AtMost(reading.least, reading.got[q])
             /\ \A b \in Browsers : Statistics!OfBrowser(reading.got[q], b) <= clicks[b]
             /\ reading.quiet => reading.got[q] = Statistics!Recorded
  <2>1. reading.got[q] # None BY DEF StatisticsInv, ReadingInv
  <2>2. reading.got[q] \in Table BY <1>1, <2>1 DEF Readings
  <2>3. QED BY <1>1, <2>1, <2>2 DEF StatisticsInv, ReadingInv, Table
<1>4. ASSUME NEW q \in Statistics!Queries, NEW b \in Browsers
      PROVE  /\ Statistics!OfBrowser(reading.got[q], b) <= clicks[b]
             /\ Statistics!OfBrowser(reading.got[q], b) >=
                   Statistics!OfBrowser(reading.least, b)
  <2>1. Statistics!OfBrowser(reading.least, b) <= Statistics!OfBrowser(reading.got[q], b)
    BY <1>1, <1>2, <1>3, OfBrowserGrows
  <2>2. /\ Statistics!OfBrowser(reading.least, b) \in Nat
        /\ Statistics!OfBrowser(reading.got[q], b) \in Nat
    BY <1>1, <1>2, <1>3, OfBrowserType
  <2>3. QED BY <1>3, <2>1, <2>2
<1>5. ASSUME reading.quiet
      PROVE  /\ Statistics!TotalReading = Statistics!SumOf(Days, Statistics!CourseOverTime)
             /\ Statistics!TotalReading =
                   Statistics!SumOf(Browsers, Statistics!RankedBreakdown)
             /\ \A b \in Browsers :
                   Statistics!shareOfTotal(Statistics!RankedBreakdown[b],
                                           Statistics!TotalReading) <= 100
  <2>. DEFINE all == Statistics!Recorded
  <2>1. /\ reading.got["total"] = all /\ reading.got["byDay"] = all
        /\ reading.got["topBrowsers"] = all
    BY <1>3, <1>5 DEF Statistics!Queries
  <2>2. all \in [Statistics!Cells -> Nat] BY <1>1
  <2>. HIDE DEF all
  <2>3. Statistics!TotalReading = Statistics!SumOf(Statistics!Cells, all)
    BY <2>1 DEF Statistics!TotalReading
  <2>4. Statistics!CourseOverTime = [d \in Days |-> Statistics!OfDay(all, d)]
    BY <2>1 DEF Statistics!CourseOverTime
  <2>5. Statistics!RankedBreakdown = [b \in Browsers |-> Statistics!OfBrowser(all, b)]
    BY <2>1 DEF Statistics!RankedBreakdown
  <2>6. \A c \in Statistics!Cells : all[c] \in Nat BY <2>2
  <2>7. Statistics!TotalReading = Statistics!SumOf(Days, Statistics!CourseOverTime)
    BY <1>1, <2>3, <2>4, <2>6, SumByDay
  <2>8. Statistics!TotalReading = Statistics!SumOf(Browsers, Statistics!RankedBreakdown)
    BY <1>1, <2>3, <2>5, <2>6, SumByBrowser
  <2>9. ASSUME NEW b \in Browsers
        PROVE  Statistics!shareOfTotal(Statistics!RankedBreakdown[b],
                                       Statistics!TotalReading) <= 100
    <3>. DEFINE f == Statistics!RankedBreakdown
    <3>1. \A x \in Browsers : f[x] \in Nat BY <1>1, <2>2, <2>5, OfBrowserType
    <3>2. Statistics!TotalReading = Statistics!SumOf(Browsers, f) BY <2>8
    <3>. HIDE DEF f
    <3>3. /\ Statistics!SumOf(Browsers, f) \in Nat
          /\ Statistics!SumOf(Browsers \ {b}, f) \in Nat
          /\ Statistics!SumOf(Browsers, f) = Statistics!SumOf(Browsers \ {b}, f) + f[b]
      BY <1>1, <3>1, SumWithout
    <3>4. f[b] \in Nat /\ f[b] <= Statistics!TotalReading /\ Statistics!TotalReading \in Nat
      BY <3>1, <3>2, <3>3
    <3>5. Statistics!shareOfTotal(f[b], Statistics!TotalReading) <= 100
      BY <3>4, ShareIsAPart
    <3>6. QED BY <3>5 DEF f
  <2>10. QED BY <2>7, <2>8, <2>9
<1>6. QED BY <1>4, <1>5 DEF Statistics!ReadingIsBracketed

-----------------------------------------------------------------------------
(* ApiAnswers.                                                             *)

ApiInv ==
    /\ Api!TypeOK
    /\ thrown # Api!Nothing => request.stage \in DOMAIN Api!Stages
    /\ thrown = Api!Nothing => problem = Api!NoProblem
    /\ problem = Api!NoProblem => statement = "none"

LEMMA StagesAre ==
    /\ DOMAIN Api!Stages = {"parser", "throttler", "guard", "pipe", "handler"}
    /\ \A s \in DOMAIN Api!Stages : Api!Stages[s].next \in DOMAIN Api!Stages \cup {"done"}
BY DEF Api!Stages

LEMMA ApiInit == Api!Init => ApiInv
BY StagesAre DEF Api!Init, ApiInv, Api!TypeOK

LEMMA ApiStep == ASSUME ApiInv, [Api!Next]_apiVars PROVE ApiInv'
<1>1. CASE Api!Pass
  <2>1. /\ request.stage \in DOMAIN Api!Stages
        /\ request' = [request EXCEPT !.stage = Api!Stages[request.stage].next]
        /\ UNCHANGED <<thrown, problem, statement>> /\ thrown = Api!Nothing
    BY <1>1 DEF Api!Pass
  <2>2. request \in [op : Api!paths, stage : DOMAIN Api!Stages \cup {"done"}]
    BY DEF ApiInv, Api!TypeOK
  <2>3. Api!Stages[request.stage].next \in DOMAIN Api!Stages \cup {"done"}
    BY <2>1, StagesAre
  <2>4. request' \in [op : Api!paths, stage : DOMAIN Api!Stages \cup {"done"}]
        /\ request'.op = request.op
    BY <2>1, <2>2, <2>3
  <2>5. Api!TypeOK' BY <2>1, <2>4 DEF ApiInv, Api!TypeOK
  <2>6. QED BY <2>1, <2>5 DEF ApiInv
<1>2. CASE Api!Throw BY <1>2 DEF Api!Throw, ApiInv, Api!TypeOK
<1>3. CASE Api!ProblemDetailsFilter
  BY <1>3 DEF Api!ProblemDetailsFilter, ApiInv, Api!TypeOK
<1>4. CASE Api!apiFetch BY <1>4 DEF Api!apiFetch, ApiInv, Api!TypeOK
<1>5. CASE UNCHANGED apiVars BY <1>5 DEF apiVars, ApiInv, Api!TypeOK
<1>6. QED BY <1>1, <1>2, <1>3, <1>4, <1>5 DEF Api!Next

\* What an operation may be refused with, at whatever stage.
Causes(op) ==
    Api!BodyParser(op) \cup Api!Throttler(op) \cup Api!Guard(op) \cup Api!ValidationPipe(op)
        \cup Api!Handler(op)

LEMMA ThrownAtAStage ==
    ASSUME ApiInv, problem # Api!NoProblem
    PROVE  /\ thrown \in Causes(request.op)
           /\ problem = Api!dispatchProblem(thrown)
<1>1. /\ thrown # Api!Nothing /\ problem = Api!dispatchProblem(thrown)
      /\ request.stage \in DOMAIN Api!Stages
  BY DEF ApiInv, Api!TypeOK
<1>2. thrown \in Api!Throws(request.stage, request.op) BY <1>1 DEF ApiInv, Api!TypeOK
<1>3. QED BY <1>1, <1>2, StagesAre DEF Causes, Api!Throws

\* The statuses a table of the contract declares are declared.
LEMMA DeclaredByTable ==
    ASSUME NEW t \in Api!Tables, NEW o \in DOMAIN t, NEW s \in t[o]
    PROVE  s \in Api!Declared(o)
BY DEF Api!Declared

LEMMA DeclaredKeys ==
    /\ 401 \in Api!Declared("ApiKeys_list")
    /\ {400, 401, 422, 429} \subseteq Api!Declared("ApiKeys_create")
    /\ {401, 404} \subseteq Api!Declared("ApiKeys_revoke")
<1>. DEFINE t == Api!DeclaredApiKeys
<1>1. t \in Api!Tables BY DEF Api!Tables
<1>2. /\ DOMAIN t = {"ApiKeys_list", "ApiKeys_create", "ApiKeys_revoke"}
      /\ t["ApiKeys_list"] = {200, 401} /\ t["ApiKeys_create"] = {201, 400, 401, 422, 429}
      /\ t["ApiKeys_revoke"] = {204, 401, 404}
  BY DEF Api!DeclaredApiKeys
<1>. HIDE DEF t
<1>3. \A o \in DOMAIN t : t[o] \subseteq Api!Declared(o) BY <1>1, DeclaredByTable
<1>4. QED BY <1>2, <1>3

LEMMA DeclaredSignIn ==
    /\ {400, 401} \subseteq Api!Declared("Auth_login")
    /\ 401 \in Api!Declared("Auth_logout")
    /\ 401 \in Api!Declared("Auth_me") /\ 401 \in Api!Declared("Auth_refresh")
<1>. DEFINE t == Api!DeclaredAuth
<1>1. t \in Api!Tables BY DEF Api!Tables
<1>2. /\ DOMAIN t = {"Auth_login", "Auth_logout", "Auth_me", "Auth_refresh"}
      /\ t["Auth_login"] = {200, 400, 401} /\ t["Auth_logout"] = {204, 401}
      /\ t["Auth_me"] = {200, 401} /\ t["Auth_refresh"] = {200, 401}
  BY DEF Api!DeclaredAuth
<1>. HIDE DEF t
<1>3. \A o \in DOMAIN t : t[o] \subseteq Api!Declared(o) BY <1>1, DeclaredByTable
<1>4. QED BY <1>2, <1>3

LEMMA DeclaredOpenly ==
    /\ {400, 422} \subseteq Api!Declared("Auth_register")
    /\ {401, 403, 404} \subseteq Api!Declared("Stats_get")
<1>. DEFINE t == Api!DeclaredOpen
<1>1. t \in Api!Tables BY DEF Api!Tables
<1>2. /\ DOMAIN t = {"Auth_register", "Health_check", "Stats_get"}
      /\ t["Auth_register"] = {201, 400, 422} /\ t["Stats_get"] = {200, 401, 403, 404}
  BY DEF Api!DeclaredOpen
<1>. HIDE DEF t
<1>3. \A o \in DOMAIN t : t[o] \subseteq Api!Declared(o) BY <1>1, DeclaredByTable
<1>4. QED BY <1>2, <1>3

LEMMA DeclaredOfLinks ==
    /\ 401 \in Api!Declared("Links_list")
    /\ {400, 401, 422, 429} \subseteq Api!Declared("Links_create")
    /\ {401, 403, 404} \subseteq Api!Declared("Links_remove")
<1>. DEFINE t == Api!DeclaredLinks
<1>1. t \in Api!Tables BY DEF Api!Tables
<1>2. /\ DOMAIN t = {"Links_list", "Links_create", "Links_remove"}
      /\ t["Links_list"] = {200, 401} /\ t["Links_create"] = {201, 400, 401, 422, 429}
      /\ t["Links_remove"] = {204, 401, 403, 404}
  BY DEF Api!DeclaredLinks
<1>. HIDE DEF t
<1>3. \A o \in DOMAIN t : t[o] \subseteq Api!Declared(o) BY <1>1, DeclaredByTable
<1>4. QED BY <1>2, <1>3

LEMMA DeclaredOtherwise ==
    /\ {400, 401, 403, 404, 422} \subseteq Api!Declared("Links_update")
    /\ 401 \in Api!Declared("Usage_get")
    /\ {404, 410} \subseteq Api!Declared("Redirect_redirect")
<1>. DEFINE t == Api!DeclaredRest
<1>1. t \in Api!Tables BY DEF Api!Tables
<1>2. /\ DOMAIN t = {"Links_update", "Usage_get", "Redirect_redirect"}
      /\ t["Links_update"] = {200, 400, 401, 403, 404, 422} /\ t["Usage_get"] = {200, 401}
      /\ t["Redirect_redirect"] = {302, 404, 410}
  BY DEF Api!DeclaredRest
<1>. HIDE DEF t
<1>3. \A o \in DOMAIN t : t[o] \subseteq Api!Declared(o) BY <1>1, DeclaredByTable
<1>4. QED BY <1>2, <1>3

\* The exceptions that one operation is refused with, by their causes.
Known(op, t) ==
    \/ t = Api!Exception(400, "object", "body") /\ op \in Api!Bodies
    \/ t = Api!Exception(400, "validation", "fields") /\ op \in Api!Bodies
    \/ t = Api!Exception(429, "string", "throttled")
    \/ t = Api!Exception(500, "error", "failure")
    \/ t = Api!Unauthorized
         /\ op \in {"ApiKeys_list", "ApiKeys_create", "ApiKeys_revoke", "Auth_me", "Usage_get",
                    "Stats_get", "Links_list", "Links_remove", "Links_update", "Links_create",
                    "Auth_githubAuthorize", "Auth_refresh"}
    \/ t = Api!Exception(404, "object", "guest") /\ op = "Links_create"
    \/ t = Api!Exception(409, "object", "slugs") /\ op = "Links_create"
    \/ t = Api!Exception(429, "problem", "limit") /\ op \in {"Links_create", "ApiKeys_create"}
    \/ t = Api!Exception(404, "object", "missing")
         /\ op \in {"Links_remove", "Links_update", "Stats_get", "ApiKeys_revoke",
                    "Redirect_redirect"}
    \/ t = Api!Exception(403, "object", "foreign")
         /\ op \in {"Links_remove", "Links_update", "Stats_get"}
    \/ t = Api!Exception(410, "object", "expired") /\ op = "Redirect_redirect"
    \/ t = Api!Exception(401, "object", "password") /\ op = "Auth_login"
    \/ t = Api!Exception(503, "object", "redis") /\ op = "Auth_logout"

LEMMA CausesAreKnown ==
    ASSUME NEW o, NEW t \in Causes(o) PROVE Known(o, t)
<1>1. CASE t \in Api!BodyParser(o) BY <1>1 DEF Api!BodyParser, Known
<1>2. CASE t \in Api!Throttler(o) BY <1>2 DEF Api!Throttler, Known
<1>3. CASE t \in Api!Guard(o) BY <1>3 DEF Api!Guard, Known
<1>4. CASE t \in Api!ValidationPipe(o) BY <1>4 DEF Api!ValidationPipe, Known
<1>5. CASE t \in Api!LinksHandler(o)
  BY <1>5 DEF Api!LinksHandler, Api!Owned, Api!MonthlyLinkLimitExceededError, Known
<1>6. CASE t \in Api!AuthHandler(o) BY <1>6 DEF Api!AuthHandler, Known
<1>7. CASE t \in Api!ApiKeysHandler(o)
  BY <1>7 DEF Api!ApiKeysHandler, Api!MonthlyKeyLimitExceededError, Known
<1>8. CASE t \in Api!StatsHandler(o) BY <1>8 DEF Api!StatsHandler, Api!Owned, Known
<1>9. CASE t \in Api!RedirectHandler(o) BY <1>9 DEF Api!RedirectHandler, Known
<1>10. CASE t \in Api!Failure(o) BY <1>10 DEF Api!Failure, Known
<1>11. QED
  BY <1>1, <1>2, <1>3, <1>4, <1>5, <1>6, <1>7, <1>8, <1>9, <1>10 DEF Causes, Api!Handler

\* The slug of a throttled request is no status' own.
LEMMA ThrottledIsUnknown ==
    LET t == Api!Exception(429, "string", "throttled")
    IN  Api!dispatchProblem(t).slug = "unknown"
<1>. DEFINE t == Api!Exception(429, "string", "throttled")
<1>1. t.payload = "string" /\ t.status = 429 BY DEF Api!Exception
<1>2. Api!dispatchProblem(t) = Api!buildProblemFromStatus(429, TRUE)
  BY <1>1 DEF Api!dispatchProblem, Api!resolveHttpProblem
<1>3. {e \in Api!STATUS_SLUGS : e[1] = 429} = {} BY DEF Api!STATUS_SLUGS
<1>4. Api!buildProblemFromStatus(429, TRUE).slug = "unknown"
  BY <1>3 DEF Api!buildProblemFromStatus, Api!buildProblem
<1>5. QED BY <1>2, <1>4

\* Every exception an operation meets becomes an answer that the contract declares.
LEMMA AnswerIsDeclared ==
    ASSUME NEW o, NEW t, Known(o, t)
    PROVE  /\ \/ Api!dispatchProblem(t).status \in Api!Declared(o)
              \/ t.cause \in {"throttled", "failure"}
              \/ <<o, t.cause>> \in Api!Undeclared
           /\ Api!dispatchProblem(t).errors
                  <=> Api!dispatchProblem(t).status \in Api!ValidationError
<1>. USE DEF Api!Exception, Api!dispatchProblem, Api!resolveHttpProblem,
           Api!buildProblemFromStatus, Api!buildProblem
<1>. DEFINE p == Api!dispatchProblem(t)
<1>1. CASE t = Api!Exception(400, "object", "body") /\ o \in Api!Bodies
  <2>1. p.status = 400 /\ p.errors = FALSE BY <1>1
  <2>2. 400 \in Api!Declared(o)
    BY <1>1, DeclaredKeys, DeclaredSignIn, DeclaredOpenly, DeclaredOfLinks, DeclaredOtherwise
       DEF Api!Bodies
  <2>3. QED BY <2>1, <2>2 DEF Api!ValidationError
<1>2. CASE t = Api!Exception(400, "validation", "fields") /\ o \in Api!Bodies
  <2>1. p.status = 422 /\ p.errors = TRUE /\ t.cause = "fields" BY <1>2
  <2>2. 422 \in Api!Declared(o) \/ o = "Auth_login"
    BY <1>2, DeclaredKeys, DeclaredOpenly, DeclaredOfLinks, DeclaredOtherwise
       DEF Api!Bodies
  <2>3. QED BY <2>1, <2>2 DEF Api!ValidationError, Api!Undeclared
<1>3. CASE t = Api!Exception(429, "string", "throttled")
  BY <1>3 DEF Api!ValidationError
<1>4. CASE t = Api!Exception(500, "error", "failure")
  BY <1>4 DEF Api!ValidationError
<1>5. CASE /\ t = Api!Unauthorized
           /\ o \in {"ApiKeys_list", "ApiKeys_create", "ApiKeys_revoke", "Auth_me",
                     "Usage_get", "Stats_get", "Links_list", "Links_remove", "Links_update",
                     "Links_create", "Auth_githubAuthorize", "Auth_refresh"}
  <2>1. p.status = 401 /\ p.errors = FALSE /\ t.cause = "credential"
    BY <1>5 DEF Api!Unauthorized
  <2>2. 401 \in Api!Declared(o) \/ o = "Auth_githubAuthorize"
    BY <1>5, DeclaredKeys, DeclaredSignIn, DeclaredOpenly, DeclaredOfLinks, DeclaredOtherwise
  <2>3. QED BY <2>1, <2>2 DEF Api!ValidationError, Api!Undeclared
<1>6. CASE t = Api!Exception(404, "object", "guest") /\ o = "Links_create"
  BY <1>6 DEF Api!ValidationError, Api!Undeclared
<1>7. CASE t = Api!Exception(409, "object", "slugs") /\ o = "Links_create"
  BY <1>7 DEF Api!ValidationError, Api!Undeclared
<1>8. CASE /\ t = Api!Exception(429, "problem", "limit")
           /\ o \in {"Links_create", "ApiKeys_create"}
  <2>1. p.status = 429 /\ p.errors = FALSE BY <1>8
  <2>2. 429 \in Api!Declared(o) BY <1>8, DeclaredKeys, DeclaredOfLinks
  <2>3. QED BY <2>1, <2>2 DEF Api!ValidationError
<1>9. CASE /\ t = Api!Exception(404, "object", "missing")
           /\ o \in {"Links_remove", "Links_update", "Stats_get", "ApiKeys_revoke",
                     "Redirect_redirect"}
  <2>1. p.status = 404 /\ p.errors = FALSE BY <1>9
  <2>2. 404 \in Api!Declared(o)
    BY <1>9, DeclaredKeys, DeclaredOpenly, DeclaredOfLinks, DeclaredOtherwise
  <2>3. QED BY <2>1, <2>2 DEF Api!ValidationError
<1>10. CASE /\ t = Api!Exception(403, "object", "foreign")
            /\ o \in {"Links_remove", "Links_update", "Stats_get"}
  <2>1. p.status = 403 /\ p.errors = FALSE BY <1>10
  <2>2. 403 \in Api!Declared(o)
    BY <1>10, DeclaredOpenly, DeclaredOfLinks, DeclaredOtherwise
  <2>3. QED BY <2>1, <2>2 DEF Api!ValidationError
<1>11. CASE t = Api!Exception(410, "object", "expired") /\ o = "Redirect_redirect"
  <2>1. p.status = 410 /\ p.errors = FALSE BY <1>11
  <2>2. QED BY <1>11, <2>1, DeclaredOtherwise DEF Api!ValidationError
<1>12. CASE t = Api!Exception(401, "object", "password") /\ o = "Auth_login"
  <2>1. p.status = 401 /\ p.errors = FALSE BY <1>12
  <2>2. QED BY <1>12, <2>1, DeclaredSignIn DEF Api!ValidationError
<1>13. CASE t = Api!Exception(503, "object", "redis") /\ o = "Auth_logout"
  BY <1>13 DEF Api!ValidationError, Api!Undeclared
<1>14. QED
  BY <1>1, <1>2, <1>3, <1>4, <1>5, <1>6, <1>7, <1>8, <1>9, <1>10, <1>11, <1>12, <1>13
     DEF Known

\* What the pages that tell reasons apart state.
LEMMA StatedOf ==
    ASSUME NEW p
    PROVE  /\ Api!Stated("Auth_login", p) = Api!mapLoginError(p)
           /\ Api!Stated("Stats_get", p) = Api!mapStatsError(p)
           /\ Api!Stated("Links_create", p) = Api!buildApiError(p)
           /\ Api!Stated("ApiKeys_create", p) = Api!buildApiError(p)
BY DEF Api!Stated

LEMMA LoginReason ==
    ASSUME NEW t, Known("Auth_login", t)
    PROVE  Api!Stated("Auth_login", Api!dispatchProblem(t)) = "unauthorized"
               <=> t.cause = "password"
<1>. DEFINE p == Api!dispatchProblem(t)
<1>1. \/ t = Api!Exception(400, "object", "body")
      \/ t = Api!Exception(400, "validation", "fields")
      \/ t = Api!Exception(429, "string", "throttled")
      \/ t = Api!Exception(500, "error", "failure")
      \/ t = Api!Exception(401, "object", "password")
  BY DEF Known
<1>2. p.status = 401 <=> t.cause = "password"
  <2>. USE DEF Api!Exception, Api!dispatchProblem, Api!resolveHttpProblem,
           Api!buildProblemFromStatus, Api!buildProblem
  <2>1. CASE t = Api!Exception(400, "object", "body") BY <2>1
  <2>2. CASE t = Api!Exception(400, "validation", "fields") BY <2>2
  <2>3. CASE t = Api!Exception(429, "string", "throttled") BY <2>3
  <2>4. CASE t = Api!Exception(500, "error", "failure") BY <2>4
  <2>5. CASE t = Api!Exception(401, "object", "password") BY <2>5
  <2>. QED BY <1>1, <2>1, <2>2, <2>3, <2>4, <2>5
<1>3. QED BY <1>2, StatedOf DEF Api!mapLoginError

LEMMA StatsReason ==
    ASSUME NEW t, Known("Stats_get", t)
    PROVE  /\ Api!Stated("Stats_get", Api!dispatchProblem(t)) = "noSuchLink"
                  <=> t.cause = "missing"
           /\ Api!Stated("Stats_get", Api!dispatchProblem(t)) = "notLinkOwner"
                  <=> t.cause = "foreign"
<1>. DEFINE p == Api!dispatchProblem(t)
<1>1. \/ t = Api!Exception(429, "string", "throttled")
      \/ t = Api!Exception(500, "error", "failure")
      \/ t = Api!Exception(401, "object", "credential")
      \/ t = Api!Exception(404, "object", "missing")
      \/ t = Api!Exception(403, "object", "foreign")
  BY DEF Known, Api!Bodies, Api!Unauthorized
<1>2. /\ p.status = 404 <=> t.cause = "missing"
      /\ p.status = 403 <=> t.cause = "foreign"
  <2>. USE DEF Api!Exception, Api!dispatchProblem, Api!resolveHttpProblem,
           Api!buildProblemFromStatus, Api!buildProblem
  <2>1. CASE t = Api!Exception(429, "string", "throttled") BY <2>1
  <2>2. CASE t = Api!Exception(500, "error", "failure") BY <2>2
  <2>3. CASE t = Api!Exception(401, "object", "credential") BY <2>3
  <2>4. CASE t = Api!Exception(404, "object", "missing") BY <2>4
  <2>5. CASE t = Api!Exception(403, "object", "foreign") BY <2>5
  <2>. QED BY <1>1, <2>1, <2>2, <2>3, <2>4, <2>5
<1>3. QED BY <1>2, StatedOf DEF Api!mapStatsError

LEMMA CreationReason ==
    ASSUME NEW o \in {"Links_create", "ApiKeys_create"}, NEW t, Known(o, t)
    PROVE  /\ Api!Stated(o, Api!dispatchProblem(t)) = "fields" <=> t.cause = "fields"
           /\ Api!Stated(o, Api!dispatchProblem(t)) = "monthly-limit-exceeded"
                  <=> t.cause = "limit"
<1>. DEFINE p == Api!dispatchProblem(t)
<1>1. \/ t = Api!Exception(400, "validation", "fields")
      \/ t = Api!Exception(429, "string", "throttled")
      \/ t = Api!Exception(429, "problem", "limit")
      \/ t = Api!Exception(500, "error", "failure")
      \/ t \in {Api!Exception(400, "object", "body"),
                Api!Exception(401, "object", "credential"),
                Api!Exception(404, "object", "guest"), Api!Exception(409, "object", "slugs")}
  BY DEF Known, Api!Unauthorized
<1>2. Api!Stated(o, p) = Api!buildApiError(p) BY StatedOf
<1>. USE DEF Api!Exception, Api!dispatchProblem, Api!resolveHttpProblem,
           Api!buildProblemFromStatus, Api!buildProblem
<1>3. CASE t = Api!Exception(400, "validation", "fields")
  <2>1. t.cause = "fields" /\ p.errors BY <1>3
  <2>2. QED BY <1>2, <2>1 DEF Api!buildApiError
<1>4. CASE t = Api!Exception(429, "string", "throttled")
  <2>1. t.cause = "throttled" /\ ~p.errors /\ p.detail BY <1>4
  <2>2. p.slug = "unknown" BY <1>4, ThrottledIsUnknown
  <2>3. QED BY <1>2, <2>1, <2>2 DEF Api!buildApiError
<1>5. CASE t = Api!Exception(429, "problem", "limit")
  <2>1. /\ t.cause = "limit" /\ ~p.errors /\ p.detail
        /\ p.slug = "monthly-limit-exceeded"
    BY <1>5
  <2>2. QED BY <1>2, <2>1 DEF Api!buildApiError
<1>6. CASE t = Api!Exception(500, "error", "failure")
  <2>1. t.cause = "failure" /\ ~p.errors /\ ~p.detail BY <1>6
  <2>2. QED BY <1>2, <2>1 DEF Api!buildApiError
<1>7. CASE t \in {Api!Exception(400, "object", "body"),
                 Api!Exception(401, "object", "credential"),
                 Api!Exception(404, "object", "guest"), Api!Exception(409, "object", "slugs")}
  <2>1. t.cause \notin {"fields", "limit"} /\ ~p.errors /\ ~p.detail
    <3>1. CASE t = Api!Exception(400, "object", "body") BY <3>1
    <3>2. CASE t = Api!Exception(401, "object", "credential") BY <3>2
    <3>3. CASE t = Api!Exception(404, "object", "guest") BY <3>3
    <3>4. CASE t = Api!Exception(409, "object", "slugs") BY <3>4
    <3>5. QED BY <1>7, <3>1, <3>2, <3>3, <3>4
  <2>2. QED BY <1>2, <2>1 DEF Api!buildApiError
<1>8. QED BY <1>1, <1>3, <1>4, <1>5, <1>6, <1>7

LEMMA ApiAnswersTruly == ApiInv => Api!ReasonReachesTheVisitor /\ Api!AnswersAreDeclared
<1>. SUFFICES ASSUME ApiInv PROVE Api!ReasonReachesTheVisitor /\ Api!AnswersAreDeclared
  OBVIOUS
<1>1. ASSUME problem # Api!NoProblem
      PROVE  Known(request.op, thrown) /\ problem = Api!dispatchProblem(thrown)
  BY <1>1, ThrownAtAStage, CausesAreKnown
<1>2. Api!AnswersAreDeclared BY <1>1, AnswerIsDeclared DEF Api!AnswersAreDeclared
<1>3. ASSUME statement # "none"
      PROVE  /\ problem # Api!NoProblem
             /\ statement = Api!Stated(request.op, problem)
  BY <1>3 DEF ApiInv, Api!TypeOK
<1>4. Api!ReasonReachesTheVisitor
  BY <1>1, <1>3, LoginReason, StatsReason, CreationReason DEF Api!ReasonReachesTheVisitor
<1>5. QED BY <1>2, <1>4

-----------------------------------------------------------------------------
(* The components side by side.                                            *)

\* The invariant of the part that moves.
SurfaceInv ==
    /\ part \in {"github", "session", "dashboard", "keys", "preferences", "landing",
                 "statistics", "api"}
    /\ part = "github" => SignInInv
    /\ part = "session" => SessionInv
    /\ part = "dashboard" => DashboardInv
    /\ part = "keys" => KeysInv
    /\ part = "preferences" => PreferencesInv
    /\ part = "landing" => LandingInv
    /\ part = "statistics" => StatisticsInv
    /\ part = "api" => ApiInv

LEMMA SurfaceStarts == SurfaceInit => SurfaceInv
BY SignInInit, SessionInit, DashboardInit, KeysInit, PreferencesInit, LandingInit,
   StatisticsInit, ApiInit
   DEF SurfaceInit, SurfaceInv

\* A step of one part is a step of its component, and of no other.
LEMMA PartsMove ==
    ASSUME [SurfaceNext]_SurfaceVars
    PROVE  /\ part' = part
           /\ part = "github" => [Next]_vars
           /\ part = "session" => [Session!Next]_sessionVars
           /\ part = "dashboard" => [Dashboard!Next]_dashboardVars
           /\ part = "keys" => [ApiKeysPage!Next]_keysVars
           /\ part = "preferences" => [Preferences!Next]_preferencesVars
           /\ part = "landing" => [Landing!Next]_landingVars
           /\ part = "statistics" => [Statistics!Next]_statisticsVars
           /\ part = "api" => [Api!Next]_apiVars
<1>1. CASE UNCHANGED SurfaceVars BY <1>1 DEF SurfaceVars, githubVars
<1>2. ASSUME NEW p \in {"github", "session", "dashboard", "keys", "preferences", "landing",
                        "statistics", "api"}, Only(p)
      PROVE  part = p /\ part' = part
  BY <1>2 DEF Only
<1>3. CASE Only("github") /\ Next BY <1>2, <1>3
<1>4. CASE Only("session") /\ Session!Next BY <1>2, <1>4
<1>5. CASE Only("dashboard") /\ Dashboard!Next BY <1>2, <1>5
<1>6. CASE Only("keys") /\ ApiKeysPage!Next BY <1>2, <1>6
<1>7. CASE Only("preferences") /\ Preferences!Next BY <1>2, <1>7
<1>8. CASE Only("landing") /\ Landing!Next BY <1>2, <1>8
<1>9. CASE Only("statistics") /\ Statistics!Next BY <1>2, <1>9
<1>10. CASE Only("api") /\ Api!Next BY <1>2, <1>10
<1>11. QED
  BY <1>1, <1>3, <1>4, <1>5, <1>6, <1>7, <1>8, <1>9, <1>10 DEF SurfaceNext

LEMMA SurfaceSteps == SurfaceInv /\ [SurfaceNext]_SurfaceVars => SurfaceInv'
<1>. SUFFICES ASSUME SurfaceInv, [SurfaceNext]_SurfaceVars PROVE SurfaceInv' OBVIOUS
<1>1. part' = part BY PartsMove
<1>2. ASSUME part = "github" PROVE SignInInv'
  BY <1>2, PartsMove, SignInNext DEF SurfaceInv
<1>3. ASSUME part = "session" PROVE SessionInv'
  BY <1>3, PartsMove, SessionStep DEF SurfaceInv
<1>4. ASSUME part = "dashboard" PROVE DashboardInv'
  BY <1>4, PartsMove, DashboardStep DEF SurfaceInv
<1>5. ASSUME part = "keys" PROVE KeysInv'
  BY <1>5, PartsMove, KeysStep DEF SurfaceInv
<1>6. ASSUME part = "preferences" PROVE PreferencesInv'
  BY <1>6, PartsMove, PreferencesStep DEF SurfaceInv
<1>7. ASSUME part = "landing" PROVE LandingInv'
  BY <1>7, PartsMove, LandingStep DEF SurfaceInv
<1>8. ASSUME part = "statistics" PROVE StatisticsInv'
  BY <1>8, PartsMove, StatisticsStep DEF SurfaceInv
<1>9. ASSUME part = "api" PROVE ApiInv'
  BY <1>9, PartsMove, ApiStep DEF SurfaceInv
<1>10. QED BY <1>1, <1>2, <1>3, <1>4, <1>5, <1>6, <1>7, <1>8, <1>9 DEF SurfaceInv

LEMMA SurfaceAlways == SurfaceSpec => []SurfaceInv
BY SurfaceStarts, SurfaceSteps, PTL DEF SurfaceSpec

\* SurfaceTypeOK: every variable of the part that moves has its type.
THEOREM SurfaceTypes == SurfaceSpec => []SurfaceTypeOK
<1>1. /\ SignInInv => TypeOK
      /\ SessionInv => Session!TypeOK
      /\ DashboardInv => Dashboard!TypeOK
      /\ KeysInv => ApiKeysPage!TypeOK
      /\ PreferencesInv => Preferences!TypeOK
      /\ LandingInv => Landing!TypeOK
      /\ StatisticsInv => Statistics!TypeOK
      /\ ApiInv => Api!TypeOK
  BY DEF SignInInv, SessionInv, DashboardInv, KeysInv, PreferencesInv, LandingInv,
         StatisticsInv, ApiInv
<1>2. SurfaceInv => SurfaceTypeOK BY <1>1 DEF SurfaceInv, SurfaceTypeOK
<1>3. QED BY SurfaceAlways, <1>2, PTL

\* GithubStateAdmitsOnce: GithubStateStore consumes a state token with GETDEL, so
\* however many callbacks present it, on whatever pods, and whether Redis fails
\* before or after its effect, one passes at most.
THEOREM StateIsSpent == SurfaceSpec => []GithubStateAdmitsOnce
<1>1. SurfaceInv => GithubStateAdmitsOnce
  BY DEF SurfaceInv, SignInInv, GithubStateAdmitsOnce
<1>2. QED BY SurfaceAlways, <1>1, PTL

\* GithubSessionsAreVerified: whatever addresses GitHub lists, in whatever order and
\* with whatever flags, selectVerifiedEmail takes one that is verified, and the primary
\* one if that is verified.
THEOREM SignInIsVerified == SurfaceSpec => []GithubSessionsAreVerified
<1>1. SurfaceInv => GithubSessionsAreVerified
  BY SessionsVerified DEF SurfaceInv, GithubSessionsAreVerified
<1>2. QED BY SurfaceAlways, <1>1, PTL

\* ShownUserIsTheCookies: whatever answers of /me, of a sign-in and of a sign-out
\* cross each other, the client never acts as an account other than the one shown.
THEOREM ActsAsShown == SurfaceSpec => []ShownUserIsTheCookies
<1>1. SurfaceInv => ShownUserIsTheCookies
  BY DEF SurfaceInv, SessionInv, ShownUserIsTheCookies
<1>2. QED BY SurfaceAlways, <1>1, PTL

\* PageIsTheUsersOwn: a page that has loaded shows the data of the user who is
\* shown, the carried requests excepted.
THEOREM ShowsOwnData == SurfaceSpec => []PageIsTheUsersOwn
<1>1. SessionInv => Session!PageIsTheUsersOwn
  BY DEF SessionInv, PageInv, PageStands, Session!PageIsTheUsersOwn, Session!TypeOK,
         Session!Queries, Session!Underway
<1>2. SurfaceInv => PageIsTheUsersOwn BY <1>1 DEF SurfaceInv, PageIsTheUsersOwn
<1>3. QED BY SurfaceAlways, <1>2, PTL

\* SetShowsTheRows: once the answers that DashboardPage waits for have arrived, in
\* whatever order and though some were lost, the set shows the rows of the server.
THEOREM DashboardIsTrue == SurfaceSpec => []SetShowsTheRows
<1>1. SurfaceInv => SetShowsTheRows BY DashboardShows DEF SurfaceInv, SetShowsTheRows
<1>2. QED BY SurfaceAlways, <1>1, PTL

\* ListCarriesTheTruth: once the answers that ApiKeysPage waits for have arrived, in
\* whatever order and though some were lost, the list carries the standing keys.
THEOREM KeyListIsTrue == SurfaceSpec => []ListCarriesTheTruth
<1>1. SurfaceInv => ListCarriesTheTruth BY KeysShow DEF SurfaceInv, ListCarriesTheTruth
<1>2. QED BY SurfaceAlways, <1>1, PTL

\* SurfaceObeysTheMode: through reloads, other tabs, a storage that fails and a
\* system that turns dark, the surface is the one that the mode held asks for, under
\* the policy of nginx.conf; without a policy, as under nginx-dev.conf, it is that until
\* the document is loaded, and from then on the one the head has left.
THEOREM ModeIsObeyed == SurfaceSpec => []SurfaceObeysTheMode
<1>1. SurfaceInv => SurfaceObeysTheMode
  BY PreferencesShow DEF SurfaceInv, SurfaceObeysTheMode
<1>2. QED BY SurfaceAlways, <1>1, PTL

\* OfferStandsBesideTheLink: the moment that LandingPage, GuestShortenSection and
\* ShortenCard each remember is one, and of a link that exists, however sign-outs have
\* the flag asked for again; only a flag that is then answered with off takes the card
\* and its link from the page.
THEOREM OfferIsReal == SurfaceSpec => []OfferStandsBesideTheLink
<1>1. SurfaceInv => OfferStandsBesideTheLink
  BY LandingShows DEF SurfaceInv, OfferStandsBesideTheLink
<1>2. QED BY SurfaceAlways, <1>1, PTL

\* ReadingIsBracketed: for every finite set of days and every set of browsers that a
\* breakdown has room for, each reading of a record counts no redirect twice and misses
\* none that stood when it was asked for; and if nothing was recorded meanwhile, the
\* course and the shares add up to the total.
THEOREM ReadingIsTrue == SurfaceSpec => []ReadingIsBracketed
<1>1. SurfaceInv => ReadingIsBracketed
  BY StatisticsShow DEF SurfaceInv, ReadingIsBracketed
<1>2. QED BY SurfaceAlways, <1>1, PTL

\* RefusalsKeepTheirReason: through the filter, the document, the client's error and
\* the page's mapping, the visitor reads the reason the request was refused for, and
\* the answer is one the contract declares.
THEOREM ReasonIsKept == SurfaceSpec => []RefusalsKeepTheirReason
<1>1. SurfaceInv => RefusalsKeepTheirReason
  BY ApiAnswersTruly DEF SurfaceInv, RefusalsKeepTheirReason
<1>2. QED BY SurfaceAlways, <1>1, PTL
=============================================================================
