\* Three callbacks at once on two state tokens; two users, links, keys and
\* requests of the web client; three redirects on two days.
CONSTANTS
    None = None
    Tokens = {t1, t2}
    Callbacks = {c1, c2, c3}
    work = work
    home = home
    Addresses = {work, home}
    Mails <- MCMails
    MaxCalls = 3
    Users = {u1, u2}
    Unknown = Unknown
    Slugs = {s1}
    Urls = {d1, d2}
    Calls = {q1, q2}
    Keys = {k1, k2}
    Asks = {a1, a2}
    Links = {l1, l2}
    Browsers = {b1, b2}
    Days = {1, 2}
    MaxClicks = 3
SPECIFICATION SurfaceSpec
INVARIANTS
    SurfaceTypeOK
    GithubStateAdmitsOnce
    GithubSessionsAreVerified
    ShownUserIsTheCookies
    PageIsTheUsersOwn
    SetShowsTheRows
    ListCarriesTheTruth
    SurfaceObeysTheMode
    OfferStandsBesideTheLink
    ReadingIsBracketed
    RefusalsKeepTheirReason
\* Callbacks, redirects and requests are bounded, and an answer is final.
CHECK_DEADLOCK FALSE
