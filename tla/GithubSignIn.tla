----------------------------- MODULE GithubSignIn -----------------------------
(***************************************************************************)
(* Sign-in with GitHub: the single-use state token of GithubStateStore,    *)
(* the callback through passport and GithubStrategy.validate, and what the *)
(* guard and the redirect filter make of a failure. UsersService, which    *)
(* resolves the identity, is ProviderAccounts; here it may also fail.      *)
(***************************************************************************)
EXTENDS Naturals, Sequences, FiniteSetsExt

CONSTANTS
    None,
    Tokens,     \* 32-byte state tokens
    Callbacks,  \* concurrent GET /api/auth/github/callback, over all pods
    Addresses,
    Mails,      \* the lists GET /user/emails may return
    MaxCalls    \* bound of the model: callbacks begun

Mail == [address : Addresses, verified : BOOLEAN, primary : BOOLEAN]
Flow == [token : Tokens \cup {None}, stage : {"verify", "exchange", "emails", "resolve"},
         email : Addresses \cup {None}]
Answers == {None, "dashboard", "problem", "github-oauth-failed", "github-no-verified-email"}
\* How a callback ended: with which answer, for which cause and email.
Outcome == [answer : Answers, cause : {"none", "state", "exchange", "emails", "unverified",
                                       "resolve"},
            email : Addresses \cup {None}, mails : Mails \cup {<<>>}]

ASSUME SignInAssumption ==
    /\ Mails \subseteq Seq(Mail) /\ MaxCalls \in Nat
    /\ None \notin Tokens \cup Flow \cup Outcome \cup Addresses \cup {"dashboard"}

VARIABLES
    states,  \* auth:oauth:state:<token> keys in Redis
    minted,  \* tokens drawn
    flow,    \* callbacks in flight
    ended,   \* history: the last outcome of each callback slot
    passed,  \* history: callbacks that passed with each token
    calls    \* history: callbacks begun, which the model bounds

vars == <<states, minted, flow, ended, passed, calls>>

-----------------------------------------------------------------------------
Init ==
    /\ states = {}
    /\ minted = {}
    /\ flow = [c \in Callbacks |-> None]
    /\ ended = [c \in Callbacks |-> None]
    /\ passed = [t \in Tokens |-> 0]
    /\ calls = 0

\* GET /api/auth/github: store sets the token and redirects to GitHub; a Redis
\* error, before or after the SET took effect, answers 401 without a redirect.
Authorize(t) ==
    /\ t \notin minted
    /\ minted' = minted \cup {t}
    /\ states' \in {states, states \cup {t}}
    /\ UNCHANGED <<flow, ended, passed, calls>>

\* The token's 600 seconds are over.
Expire(t) ==
    /\ t \in states
    /\ states' = states \ {t}
    /\ UNCHANGED <<minted, flow, ended, passed, calls>>

\* The browser comes back, perhaps twice, with a token or with consent denied,
\* which passport-oauth2 answers before it looks at the token.
Call(c, t) ==
    /\ flow[c] = None
    /\ calls < MaxCalls
    /\ calls' = calls + 1
    /\ flow' = [flow EXCEPT ![c] = [token |-> t, stage |-> "verify", email |-> None]]
    /\ ended' = [ended EXCEPT ![c] = None]
    /\ UNCHANGED <<states, minted, passed>>

At(c, stage) == flow[c] # None /\ flow[c].stage = stage
To(c, stage) == flow' = [flow EXCEPT ![c].stage = stage] /\ UNCHANGED ended
End(c, answer, cause, mails) ==
    /\ flow' = [flow EXCEPT ![c] = None]
    /\ ended' = [ended EXCEPT ![c] = [answer |-> answer, cause |-> cause,
                                      email |-> flow[c].email, mails |-> mails]]

\* handleRequest throws GithubOauthFailedError for every error and for a missing
\* user, and the filter redirects to /login with the slug of what was thrown.
Thrown(cause) == "github-oauth-failed"
Failed(c, cause, mails) == End(c, Thrown(cause), cause, mails)

-----------------------------------------------------------------------------
\* verify: GETDEL in one round trip, which may fail before or after its effect;
\* after a mutant that only reads the token.
ReadOnly(t) == UNCHANGED states
Consumed(t) == states' = states \ {t}

Verify(c) ==
    /\ At(c, "verify")
    /\ flow[c].token \in states
    /\ Consumed(flow[c].token)
    /\ passed' = [passed EXCEPT ![flow[c].token] = @ + 1]
    /\ To(c, "exchange")
    /\ UNCHANGED <<minted, calls>>

\* The token is not there, consent was denied, or Redis fails.
Refuse(c) ==
    /\ At(c, "verify")
    /\ states' \in {states, states \ {flow[c].token}}
    /\ Failed(c, "state", <<>>)
    /\ UNCHANGED <<minted, passed, calls>>

\* passport exchanges the code and loads the profile.
Exchange(c) ==
    /\ At(c, "exchange")
    /\ To(c, "emails") \/ Failed(c, "exchange", <<>>)
    /\ UNCHANGED <<states, minted, passed, calls>>

\* selectVerifiedEmail: the verified primary email, else the first verified one;
\* after mutants that take the primary one as it is, and the entry for its email.
AnyPrimary(mails) ==
    LET primary == SelectSeq(mails, LAMBDA m : m.primary)
    IN  IF primary = <<>> THEN None ELSE primary[1].address
FirstEntry(mails) == IF mails = <<>> THEN None ELSE mails[1]
SelectVerifiedEmail(mails) ==
    LET verified == {i \in DOMAIN mails : mails[i].verified}
        primary == {i \in verified : mails[i].primary}
    IN  IF verified = {} THEN None
        ELSE mails[Min(IF primary = {} THEN verified ELSE primary)].address

\* validate: no account is looked up before a verified email is found.
Validate(c, mails) ==
    /\ At(c, "emails")
    /\ LET email == SelectVerifiedEmail(mails)
       IN  \/ Failed(c, "emails", <<>>)
           \/ email = None /\ Failed(c, "unverified", mails)
           \/ /\ email # None
              /\ flow' = [flow EXCEPT ![c].stage = "resolve", ![c].email = email]
              /\ ended' = [ended EXCEPT ![c] = [answer |-> None, cause |-> "none",
                                                email |-> email, mails |-> mails]]
    /\ UNCHANGED <<states, minted, passed, calls>>

\* loginWithGithub: the account is found, linked or made and a session issued, or
\* an error of the database or of Redis goes to the global filter.
Resolve(c) ==
    /\ At(c, "resolve")
    /\ \/ End(c, "dashboard", "none", ended[c].mails)
       \/ End(c, "problem", "resolve", ended[c].mails)
    /\ UNCHANGED <<states, minted, passed, calls>>

CallbackStep(c) ==
    \/ Verify(c) \/ Refuse(c) \/ Exchange(c) \/ Resolve(c)
    \/ \E mails \in Mails : Validate(c, mails)

Next ==
    \/ \E t \in Tokens : Authorize(t) \/ Expire(t)
    \/ \E c \in Callbacks, t \in Tokens : Call(c, t)
    \/ \E c \in Callbacks : CallbackStep(c)

Spec == Init /\ [][Next]_vars

-----------------------------------------------------------------------------
\* Every variable stays within its type.
TypeOK ==
    /\ states \subseteq minted /\ minted \subseteq Tokens
    /\ flow \in [Callbacks -> Flow \cup {None}]
    /\ ended \in [Callbacks -> Outcome \cup {None}]
    /\ passed \in [Tokens -> Nat]
    /\ calls \in 0 .. MaxCalls

\* However many callbacks present a state token, on whatever pods, one passes.
StateAdmitsOnce == \A t \in Tokens : passed[t] <= 1

\* A session is only issued for an address that GitHub lists as verified, and for
\* the primary one if that is verified.
SessionsAreVerified ==
    \A c \in Callbacks : ended[c] # None /\ ended[c].answer = "dashboard" =>
        LET listed == {ended[c].mails[i] : i \in DOMAIN ended[c].mails}
            chosen == {m \in listed : m.address = ended[c].email}
        IN  /\ \E m \in chosen : m.verified
            /\ (\E m \in listed : m.verified /\ m.primary) => \E m \in chosen : m.primary
=============================================================================
