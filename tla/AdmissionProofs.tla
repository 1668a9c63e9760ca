----------------------------- MODULE AdmissionProofs -----------------------------
(***************************************************************************)
(* Theorems about Admission and GuestIdentity, for every set of users,     *)
(* pods, shapes of request, ids and lookups and for every budget: the      *)
(* guests' budget holds whatever mix of credentials an address sends, and  *)
(* stays apart from the budget of its credentialed requests; every route   *)
(* takes the schemes of its contract; and a guest is told the truth about  *)
(* its row. Each module has its inductive invariant; the last part puts    *)
(* them side by side, as MCAdmission does.                                 *)
(***************************************************************************)
EXTENDS MCAdmission, FiniteSetTheorems, TLAPS

-----------------------------------------------------------------------------
\* The counters of POST /api/urls: a guest is counted name by name, so those behind
\* "default" trail it; "redirect" comes before it and has a shorter window; the data
\* counter has the credentialed creations and those guests that got as far.
CountersInv ==
    /\ hits \in [Pods -> [Routes -> [Names -> Nat]]]
    /\ \A p \in Pods :
          LET h == hits[p]["create"]
          IN  /\ h["auth"] <= h["default"] /\ h["redirect"] <= came[p].guest
              /\ h["default"] <= came[p].guest
              /\ h["data"] <= came[p].credentialed + h["default"]

\* Every guest that was admitted has taken a slot of its pod's budget.
Slots == Pods \X (1 .. Budget["create"]["default"])
Taken == {s \in Slots : s[2] <= hits[s[1]]["create"]["default"]}
RoomInv == guests <= Cardinality(Taken)

AdmissionInv ==
    /\ TypeOK /\ CountersInv /\ RoomInv
    /\ BudgetsAreApart /\ SchemesHold

-----------------------------------------------------------------------------
(* What a request is counted under.                                        *)

LEMMA OrderIs ==
    /\ Order[1] = "redirect" /\ Order[2] = "default" /\ Order[3] = "auth" /\ Order[4] = "data"
    /\ \A n \in Names : \E j \in 1 .. 4 : Order[j] = n
    /\ \A j \in 1 .. 4 : Order[j] \in Names
BY DEF Order, Names

\* The guard counts a name only while no budget up to it is used up.
LEMMA CountedIs ==
    ASSUME NEW p, NEW req
    PROVE  /\ Counted(p, req) \subseteq Kept(req)
           /\ \A n \in Counted(p, req) : ~UsedUp(p, req, n)
           /\ "default" \in Kept(req) /\ Counted(p, req) \cap {"auth", "data"} # {} =>
                 "default" \in Counted(p, req)
           /\ ~Throttled(p, req) => Counted(p, req) = Kept(req)
<1>1. ASSUME NEW n \in Counted(p, req) PROVE n \in Kept(req) /\ ~UsedUp(p, req, n)
  <2>1. PICK i \in 1 .. 4 : /\ n = Order[i] /\ Order[i] \in Kept(req)
                            /\ \A k \in 1 .. i : ~UsedUp(p, req, Order[k])
    BY DEF Counted
  <2>2. i \in 1 .. i OBVIOUS
  <2>3. QED BY <2>1, <2>2
\* What comes behind "default" finds room under it.
<1>2. ASSUME "default" \in Kept(req), NEW n \in Counted(p, req) \cap {"auth", "data"}
      PROVE  "default" \in Counted(p, req)
  <2>1. PICK i \in 1 .. 4 : /\ n = Order[i]
                            /\ \A k \in 1 .. i : ~UsedUp(p, req, Order[k])
    BY DEF Counted
  <2>2. i # 1 BY <2>1, OrderIs
  <2>3. \A k \in 1 .. 2 : k \in 1 .. i BY <2>2
  <2>4. /\ 2 \in 1 .. 4 /\ Order[2] = "default"
        /\ \A k \in 1 .. 2 : ~UsedUp(p, req, Order[k])
    BY <2>1, <2>3, OrderIs
  <2>5. QED BY <1>2, <2>4 DEF Counted
<1>3. ASSUME ~Throttled(p, req), NEW n \in Kept(req) PROVE n \in Counted(p, req)
  <2>1. n \in Names BY DEF Kept
  <2>2. PICK j \in 1 .. 4 : Order[j] = n BY <2>1, OrderIs
  <2>3. \A k \in 1 .. j : ~UsedUp(p, req, Order[k])
    <3>1. SUFFICES ASSUME NEW k \in 1 .. j PROVE ~UsedUp(p, req, Order[k]) OBVIOUS
    <3>2. Order[k] \in Names BY <2>2, OrderIs
    <3>3. QED BY <1>3, <3>2 DEF Throttled
  <2>4. QED BY <2>2, <2>3 DEF Counted
<1>4. QED BY <1>1, <1>2, <1>3

\* What POST /api/urls keeps, of a guest and of a credentialed request.
LEMMA CreateKeeps ==
    ASSUME NEW req, req.route = "create"
    PROVE  /\ ~Carries(req) => Kept(req) = Names
           /\ Carries(req) => Kept(req) = {"data"}
<1>1. Skipped(req.route) = {} BY DEF Skipped
<1>2. GuestOnly(req.route) = Public BY DEF GuestOnly
<1>3. QED BY <1>1, <1>2 DEF Kept, Shed, Names, Public

-----------------------------------------------------------------------------
(* What a request does to the counters and to the history of the window.   *)

LEMMA HitsMove ==
    ASSUME AdmissionInv, NEW p \in Pods, NEW req \in Requests, Serve(p, req)
    PROVE  /\ hits' \in [Pods -> [Routes -> [Names -> Nat]]]
           /\ req.route \in Routes
           /\ \A r \in Routes, n \in Names :
                 hits'[p][r][n] = IF r = req.route /\ n \in Counted(p, req)
                                  THEN hits[p][r][n] + 1 ELSE hits[p][r][n]
           /\ \A q \in Pods : q # p => hits'[q] = hits[q]
<1>1. req.route \in Routes BY AdmissionAssumption DEF Shape
<1>2. hits \in [Pods -> [Routes -> [Names -> Nat]]] BY DEF AdmissionInv, CountersInv
<1>. DEFINE new == [n \in Names |-> IF n \in Counted(p, req) THEN hits[p][req.route][n] + 1
                                    ELSE hits[p][req.route][n]]
<1>3. hits' = [hits EXCEPT ![p] = [hits[p] EXCEPT ![req.route] = new]] BY DEF Serve
<1>4. new \in [Names -> Nat] BY <1>1, <1>2
<1>5. \A n \in Names : new[n] = IF n \in Counted(p, req) THEN hits[p][req.route][n] + 1
                                ELSE hits[p][req.route][n]
  OBVIOUS
<1>. HIDE DEF new
<1>6. [hits[p] EXCEPT ![req.route] = new] \in [Routes -> [Names -> Nat]]
  BY <1>1, <1>2, <1>4
<1>7. QED BY <1>1, <1>2, <1>3, <1>4, <1>5, <1>6

LEMMA CameMoves ==
    ASSUME AdmissionInv, NEW p \in Pods, NEW req \in Requests, Serve(p, req)
    PROVE  /\ came' \in [Pods -> [guest : 0 .. MaxCame, credentialed : 0 .. MaxCame]]
           /\ \A q \in Pods : q # p => came'[q] = came[q]
           /\ req.route # "create" => came' = came
           /\ req.route = "create" /\ Carries(req) =>
                 /\ came'[p].credentialed = came[p].credentialed + 1
                 /\ came'[p].guest = came[p].guest
           /\ req.route = "create" /\ ~Carries(req) =>
                 /\ came'[p].guest = came[p].guest + 1
                 /\ came'[p].credentialed = came[p].credentialed
<1>1. came \in [Pods -> [guest : 0 .. MaxCame, credentialed : 0 .. MaxCame]]
  BY DEF AdmissionInv, TypeOK
<1>2. MaxCame \in Nat BY AdmissionAssumption
<1>3. CASE req.route # "create" BY <1>1, <1>3 DEF Serve
<1>4. CASE req.route = "create" /\ Carries(req)
  <2>1. /\ came' = [came EXCEPT ![p] = [came[p] EXCEPT !.credentialed = @ + 1]]
        /\ came[p].credentialed < MaxCame
    BY <1>4 DEF Serve
  <2>. DEFINE new == [came[p] EXCEPT !.credentialed = came[p].credentialed + 1]
  <2>2. /\ new \in [guest : 0 .. MaxCame, credentialed : 0 .. MaxCame]
        /\ new.credentialed = came[p].credentialed + 1 /\ new.guest = came[p].guest
    BY <1>1, <1>2, <2>1
  <2>. HIDE DEF new
  <2>3. came' = [came EXCEPT ![p] = new] BY <2>1 DEF new
  <2>4. QED BY <1>1, <1>4, <2>2, <2>3
<1>5. CASE req.route = "create" /\ ~Carries(req)
  <2>1. /\ came' = [came EXCEPT ![p] = [came[p] EXCEPT !.guest = @ + 1]]
        /\ came[p].guest < MaxCame
    BY <1>5 DEF Serve
  <2>. DEFINE new == [came[p] EXCEPT !.guest = came[p].guest + 1]
  <2>2. /\ new \in [guest : 0 .. MaxCame, credentialed : 0 .. MaxCame]
        /\ new.guest = came[p].guest + 1 /\ new.credentialed = came[p].credentialed
    BY <1>1, <1>2, <2>1
  <2>. HIDE DEF new
  <2>3. came' = [came EXCEPT ![p] = new] BY <2>1 DEF new
  <2>4. QED BY <1>1, <1>5, <2>2, <2>3
<1>6. QED BY <1>3, <1>4, <1>5

-----------------------------------------------------------------------------
(* Who a request works as.                                                 *)

\* What each scheme makes of a request.
LEMMA SchemesAre ==
    ASSUME NEW req \in Shape
    PROVE  /\ SessionUser(req) \in Users \cup {None}
           /\ SessionUser(req) \in Users => SessionUser(req) \in {req.bearer, req.cookie}
           /\ Authenticated(req) \in Users \cup {None}
           /\ Authenticated(req) \in Users =>
                 Authenticated(req) \in {req.bearer, req.cookie, req.apiKey}
           /\ Verified(req.apiKey) \in Users \cup {None}
           /\ Verified(req.apiKey) \in Users => Verified(req.apiKey) = req.apiKey
<1>1. \A c : Verified(c) \in Users \cup {None} /\ (Verified(c) \in Users => Verified(c) = c)
  <2>1. None \notin Users BY AdmissionAssumption
  <2>2. QED BY <2>1 DEF Verified
<1>2. JwtUser(req) \in {req.bearer, req.cookie} BY DEF JwtUser
<1>3. SessionUser(req) = Verified(JwtUser(req)) BY DEF SessionUser
<1>4. \/ Authenticated(req) = Verified(req.apiKey)
      \/ Authenticated(req) = Verified(JwtUser(req))
  BY DEF Authenticated
<1>5. QED BY <1>1, <1>2, <1>3, <1>4

\* Who a request works as, by its route.
LEMMA ActorIs ==
    ASSUME NEW req \in Shape
    PROVE  /\ Actor(req) \in Users \cup {Guest, None}
           /\ Actor(req) \in Users =>
                 Actor(req) \in CASE req.route = "session" -> {req.bearer, req.cookie}
                                  [] req.route = "mcp" -> {req.apiKey}
                                  [] OTHER -> {req.bearer, req.cookie, req.apiKey}
           /\ Actor(req) = Guest => ~Carries(req)
           /\ Status(req) \in {"passed", "401"}
<1>1. Guest \notin Users /\ None \notin Users /\ None # Guest BY AdmissionAssumption
<1>2. CASE req.route \in Open
  <2>1. Actor(req) = None BY <1>2 DEF Actor, Open
  <2>2. QED BY <1>1, <2>1 DEF Status
<1>3. CASE req.route = "mcp"
  BY <1>1, <1>3, SchemesAre DEF Actor, Status, Open
<1>4. CASE req.route = "session"
  BY <1>1, <1>4, SchemesAre DEF Actor, Status, Open
<1>5. CASE req.route = "create" /\ MayBeGuest(req)
  <2>1. Actor(req) = Guest BY <1>5 DEF Actor, Open
  <2>2. ~Carries(req) BY <1>5 DEF MayBeGuest
  <2>3. QED BY <1>1, <2>1, <2>2 DEF Status
<1>6. CASE req.route = "data" \/ (req.route = "create" /\ ~MayBeGuest(req))
  <2>1. Actor(req) = Authenticated(req) BY <1>6 DEF Actor, Open
  <2>2. Status(req) \in {"passed", "401"} BY DEF Status
  <2>3. req.route # "session" /\ req.route # "mcp" BY <1>6
  <2>4. QED BY <1>1, <2>1, <2>2, <2>3, SchemesAre
<1>7. QED
  <2>1. req.route \in Routes BY DEF Shape
  <2>2. QED BY <2>1, <1>2, <1>3, <1>4, <1>5, <1>6 DEF Routes

-----------------------------------------------------------------------------
(* The slots of the guests' budget.                                        *)

LEMMA SlotsAreFinite ==
    /\ IsFiniteSet(Slots)
    /\ Cardinality(Slots) = Budget["create"]["default"] * Cardinality(Pods)
<1>. DEFINE B == Budget["create"]["default"]
<1>1. B \in Nat /\ IsFiniteSet(Pods) BY AdmissionAssumption DEF Routes, Names
<1>. HIDE DEF B
<1>2. IsFiniteSet(1 .. B) /\ Cardinality(1 .. B) = B BY <1>1, FS_Interval
<1>3. /\ IsFiniteSet(Pods \X (1 .. B))
      /\ Cardinality(Pods \X (1 .. B)) = Cardinality(Pods) * B
  BY <1>1, <1>2, FS_Product
<1>4. Cardinality(Pods) \in Nat BY <1>1, FS_CardinalityType
<1>5. Cardinality(Pods) * B = B * Cardinality(Pods) BY <1>1, <1>4
<1>6. QED BY <1>3, <1>5 DEF Slots, B

LEMMA TakenIsFinite ==
    IsFiniteSet(Taken) /\ Cardinality(Taken) \in Nat /\ Cardinality(Taken) <= Cardinality(Slots)
<1>1. Taken \subseteq Slots BY DEF Taken
<1>2. QED BY <1>1, SlotsAreFinite, FS_Subset, FS_CardinalityType

\* The guests' budget, by the slots.
LEMMA RoomBounds == TypeOK /\ RoomInv => GuestCreationsBounded
<1>1. Cardinality(Slots) \in Nat BY SlotsAreFinite, FS_CardinalityType
<1>2. QED
  BY <1>1, SlotsAreFinite, TakenIsFinite DEF TypeOK, RoomInv, GuestCreationsBounded

-----------------------------------------------------------------------------
(* The initial states.                                                     *)

LEMMA AdmissionStarts == Init => AdmissionInv
<1>. SUFFICES ASSUME Init PROVE AdmissionInv OBVIOUS
<1>1. Budget \in [Routes -> [Names -> Nat]] /\ MaxCame \in Nat BY AdmissionAssumption
<1>2. \A p \in Pods, r \in Routes, n \in Names : hits[p][r][n] = 0 BY DEF Init, Zero
<1>3. TypeOK
  <2>1. \A p \in Pods, r \in Routes, n \in Names : hits[p][r][n] \in 0 .. Budget[r][n]
    BY <1>1, <1>2
  <2>2. came \in [Pods -> [guest : 0 .. MaxCame, credentialed : 0 .. MaxCame]]
    BY <1>1 DEF Init
  <2>3. QED BY <2>1, <2>2 DEF Init, TypeOK
<1>4. CountersInv
  <2>1. hits \in [Pods -> [Routes -> [Names -> Nat]]] BY DEF Init, Zero
  <2>2. \A p \in Pods : came[p].guest = 0 /\ came[p].credentialed = 0 BY DEF Init
  <2>3. \A p \in Pods, n \in Names : hits[p]["create"][n] = 0 BY <1>2 DEF Routes
  <2>4. {"default", "auth", "redirect", "data"} = Names BY DEF Names
  <2>5. QED BY <2>1, <2>2, <2>3, <2>4 DEF CountersInv
<1>5. RoomInv
  <2>1. guests = 0 BY DEF Init
  <2>2. QED BY <2>1, TakenIsFinite DEF RoomInv
<1>6. BudgetsAreApart /\ SchemesHold BY DEF Init, BudgetsAreApart, SchemesHold
<1>7. QED BY <1>3, <1>4, <1>5, <1>6 DEF AdmissionInv

-----------------------------------------------------------------------------
(* A window ends, of every name or of the short one.                       *)

LEMMA ExpireStep == ASSUME AdmissionInv, Expire PROVE AdmissionInv'
<1>1. Budget \in [Routes -> [Names -> Nat]] /\ MaxCame \in Nat BY AdmissionAssumption
<1>2. \A p \in Pods, r \in Routes, n \in Names : hits'[p][r][n] = 0 BY DEF Expire, Zero
<1>3. TypeOK'
  <2>1. \A p \in Pods, r \in Routes, n \in Names : hits'[p][r][n] \in 0 .. Budget[r][n]
    BY <1>1, <1>2
  <2>2. came' \in [Pods -> [guest : 0 .. MaxCame, credentialed : 0 .. MaxCame]]
    BY <1>1 DEF Expire
  <2>3. QED BY <2>1, <2>2 DEF Expire, TypeOK
<1>4. CountersInv'
  <2>1. hits' \in [Pods -> [Routes -> [Names -> Nat]]] BY DEF Expire, Zero
  <2>2. QED BY <1>2, <2>1 DEF Expire, CountersInv, Routes, Names
<1>5. RoomInv'
  <2>1. Taken' \subseteq Slots BY DEF Taken, Slots
  <2>2. Cardinality(Taken') \in Nat BY <2>1, SlotsAreFinite, FS_Subset, FS_CardinalityType
  <2>3. QED BY <2>2 DEF Expire, RoomInv
<1>6. (BudgetsAreApart /\ SchemesHold)' BY DEF Expire, BudgetsAreApart, SchemesHold
<1>7. QED BY <1>3, <1>4, <1>5, <1>6 DEF AdmissionInv

LEMMA ExpireShortStep == ASSUME AdmissionInv, ExpireShort PROVE AdmissionInv'
<1>1. hits \in [Pods -> [Routes -> [Names -> Nat]]] BY DEF AdmissionInv, CountersInv
<1>2. /\ hits' \in [Pods -> [Routes -> [Names -> Nat]]]
      /\ \A p \in Pods, r \in Routes, n \in Names :
            hits'[p][r][n] = IF n = "redirect" THEN 0 ELSE hits[p][r][n]
  BY <1>1 DEF ExpireShort
<1>3. /\ "create" \in Routes /\ {"default", "auth", "redirect", "data"} = Names
      /\ Budget \in [Routes -> [Names -> Nat]]
  BY AdmissionAssumption DEF Routes, Names
<1>4. TypeOK'
  <2>1. ASSUME NEW p \in Pods, NEW r \in Routes, NEW n \in Names
        PROVE  hits'[p][r][n] \in 0 .. Budget[r][n]
    <3>1. hits[p][r][n] \in 0 .. Budget[r][n] /\ Budget[r][n] \in Nat
      BY <1>3 DEF AdmissionInv, TypeOK
    <3>2. QED BY <1>2, <3>1
  <2>2. QED BY <2>1 DEF AdmissionInv, ExpireShort, TypeOK
<1>5. CountersInv'
  <2>1. \A p \in Pods : came[p].guest \in Nat BY AdmissionAssumption DEF AdmissionInv, TypeOK
  <2>2. QED BY <1>2, <1>3, <2>1 DEF AdmissionInv, ExpireShort, CountersInv
<1>6. RoomInv'
  <2>1. \A s \in Slots : hits'[s[1]]["create"]["default"] = hits[s[1]]["create"]["default"]
    BY <1>2, <1>3 DEF Slots
  <2>2. Taken' = Taken BY <2>1 DEF Taken, Slots
  <2>3. QED BY <2>2 DEF AdmissionInv, ExpireShort, RoomInv
<1>7. (BudgetsAreApart /\ SchemesHold)' BY DEF ExpireShort, BudgetsAreApart, SchemesHold
<1>8. QED BY <1>4, <1>5, <1>6, <1>7 DEF AdmissionInv

-----------------------------------------------------------------------------
(* A request is served.                                                    *)

LEMMA ServeTypes ==
    ASSUME AdmissionInv, NEW p \in Pods, NEW req \in Requests, Serve(p, req)
    PROVE  TypeOK'
<1>1. req \in Shape BY AdmissionAssumption
<1>2. Budget \in [Routes -> [Names -> Nat]] BY AdmissionAssumption
<1>3. \A q \in Pods, r \in Routes, n \in Names : hits'[q][r][n] \in 0 .. Budget[r][n]
  <2>1. SUFFICES ASSUME NEW q \in Pods, NEW r \in Routes, NEW n \in Names
                 PROVE  hits'[q][r][n] \in 0 .. Budget[r][n]
    OBVIOUS
  <2>2. hits[q][r][n] \in 0 .. Budget[r][n] /\ Budget[r][n] \in Nat
    BY <1>2 DEF AdmissionInv, TypeOK
  <2>3. CASE q = p /\ r = req.route /\ n \in Counted(p, req)
    <3>1. ~(hits[p][r][n] >= Budget[r][n]) BY <2>3, CountedIs DEF UsedUp
    <3>2. hits'[p][r][n] = hits[p][r][n] + 1 BY <2>3, HitsMove
    <3>3. QED BY <2>2, <2>3, <3>1, <3>2
  <2>4. CASE ~(q = p /\ r = req.route /\ n \in Counted(p, req))
    BY <2>2, <2>4, HitsMove
  <2>5. QED BY <2>3, <2>4
<1>4. guests' \in Nat BY DEF Serve, AdmissionInv, TypeOK
<1>5. last' \in Served
  <2>1. /\ last' = [request |-> req, pod |-> p,
                    as |-> IF Throttled(p, req) THEN None ELSE Actor(req),
                    status |-> IF Throttled(p, req) THEN "429" ELSE Status(req)]
    BY DEF Serve
  <2>2. (IF Throttled(p, req) THEN None ELSE Actor(req)) \in Users \cup {Guest, None}
    BY <1>1, ActorIs
  <2>3. (IF Throttled(p, req) THEN "429" ELSE Status(req)) \in {"passed", "401", "429"}
    BY <1>1, ActorIs
  <2>4. QED BY <1>1, <2>1, <2>2, <2>3 DEF Served
<1>6. QED BY <1>3, <1>4, <1>5, CameMoves DEF AdmissionInv, TypeOK

LEMMA ServeCounts ==
    ASSUME AdmissionInv, NEW p \in Pods, NEW req \in Requests, Serve(p, req)
    PROVE  CountersInv'
<1>1. hits' \in [Pods -> [Routes -> [Names -> Nat]]] BY HitsMove
<1>2. SUFFICES ASSUME NEW q \in Pods
               PROVE  LET h == hits'[q]["create"]
                      IN  /\ h["auth"] <= h["default"] /\ h["redirect"] <= came'[q].guest
                          /\ h["default"] <= came'[q].guest
                          /\ h["data"] <= came'[q].credentialed + h["default"]
  BY <1>1 DEF CountersInv
<1>3. LET h == hits[q]["create"]
      IN  /\ h["auth"] <= h["default"] /\ h["redirect"] <= came[q].guest
          /\ h["default"] <= came[q].guest
          /\ h["data"] <= came[q].credentialed + h["default"]
  BY DEF AdmissionInv, CountersInv
<1>4. /\ \A n \in Names : hits[q]["create"][n] \in Nat
      /\ {"default", "auth", "redirect", "data"} = Names /\ "create" \in Routes
      /\ came[q].guest \in Nat /\ came[q].credentialed \in Nat
  BY AdmissionAssumption DEF AdmissionInv, CountersInv, TypeOK, Names, Routes
<1>5. CASE q # p BY <1>3, <1>5, HitsMove, CameMoves
<1>6. CASE q = p /\ req.route # "create"
  <2>1. \A n \in Names : hits'[q]["create"][n] = hits[q]["create"][n]
    BY <1>4, <1>6, HitsMove
  <2>2. came' = came BY <1>6, CameMoves
  <2>3. QED BY <1>3, <1>4, <2>1, <2>2
<1>7. CASE q = p /\ req.route = "create" /\ Carries(req)
  <2>1. Counted(p, req) \subseteq {"data"} BY <1>7, CountedIs, CreateKeeps
  <2>2. /\ hits'[q]["create"]["default"] = hits[q]["create"]["default"]
        /\ hits'[q]["create"]["auth"] = hits[q]["create"]["auth"]
        /\ hits'[q]["create"]["redirect"] = hits[q]["create"]["redirect"]
        /\ hits'[q]["create"]["data"] \in {hits[q]["create"]["data"],
                                           hits[q]["create"]["data"] + 1}
    BY <1>4, <1>7, <2>1, HitsMove
  <2>3. /\ came'[q].credentialed = came[q].credentialed + 1
        /\ came'[q].guest = came[q].guest
    BY <1>7, CameMoves
  <2>4. QED BY <1>3, <1>4, <2>2, <2>3
<1>8. CASE q = p /\ req.route = "create" /\ ~Carries(req)
  <2>1. Counted(p, req) \cap {"auth", "data"} # {} => "default" \in Counted(p, req)
    BY <1>4, <1>8, CountedIs, CreateKeeps
  <2>2. /\ came'[q].guest = came[q].guest + 1
        /\ came'[q].credentialed = came[q].credentialed
    BY <1>8, CameMoves
  <2>3. \A n \in Names :
           hits'[q]["create"][n] = IF n \in Counted(p, req) THEN hits[q]["create"][n] + 1
                                   ELSE hits[q]["create"][n]
    BY <1>4, <1>8, HitsMove
  <2>4. CASE "default" \in Counted(p, req)
    <3>1. hits'[q]["create"]["default"] = hits[q]["create"]["default"] + 1
      BY <1>4, <2>3, <2>4
    <3>2. \A n \in Names : hits'[q]["create"][n] \in {hits[q]["create"][n],
                                                      hits[q]["create"][n] + 1}
      BY <2>3
    <3>3. QED BY <1>3, <1>4, <2>2, <3>1, <3>2
  <2>5. CASE "default" \notin Counted(p, req)
    <3>1. "auth" \notin Counted(p, req) /\ "data" \notin Counted(p, req) BY <2>1, <2>5
    <3>2. /\ \A n \in {"default", "auth", "data"} :
                hits'[q]["create"][n] = hits[q]["create"][n]
          /\ hits'[q]["create"]["redirect"] \in {hits[q]["create"]["redirect"],
                                                 hits[q]["create"]["redirect"] + 1}
      BY <1>4, <2>3, <2>5, <3>1
    <3>3. QED BY <1>3, <1>4, <2>2, <3>2
  <2>6. QED BY <2>4, <2>5
<1>9. QED BY <1>5, <1>6, <1>7, <1>8

\* A guest that is admitted has been counted under every name, and takes a slot.
LEMMA ServeLeavesRoom ==
    ASSUME AdmissionInv, NEW p \in Pods, NEW req \in Requests, Serve(p, req), TypeOK'
    PROVE  RoomInv'
<1>. DEFINE h == hits[p]["create"]["default"]
<1>1. /\ "create" \in Routes /\ "default" \in Names
      /\ \A q \in Pods : hits[q]["create"]["default"] \in Nat
      /\ Budget["create"]["default"] \in Nat
  BY AdmissionAssumption DEF AdmissionInv, CountersInv, Routes, Names
<1>2. /\ IsFiniteSet(Taken') /\ Cardinality(Taken') \in Nat
  <2>1. Taken' \subseteq Slots BY DEF Taken, Slots
  <2>2. QED BY <2>1, SlotsAreFinite, FS_Subset, FS_CardinalityType
<1>3. Taken \subseteq Taken'
  <2>1. SUFFICES ASSUME NEW s \in Slots, s[2] <= hits[s[1]]["create"]["default"]
                 PROVE  s[2] <= hits'[s[1]]["create"]["default"]
    BY DEF Taken, Slots
  <2>2. s[1] \in Pods /\ s[2] \in Nat BY <1>1 DEF Slots
  <2>3. ASSUME NEW q \in Pods
        PROVE  hits[q]["create"]["default"] <= hits'[q]["create"]["default"]
    <3>1. CASE q = p BY <1>1, <3>1, HitsMove
    <3>2. CASE q # p BY <1>1, <3>2, HitsMove
    <3>3. QED BY <3>1, <3>2
  <2>. DEFINE a == hits[s[1]]["create"]["default"]
              b == hits'[s[1]]["create"]["default"]
  <2>4. a \in Nat /\ a <= b /\ b \in Nat
    <3>1. b \in Nat BY <1>1, <2>2, HitsMove
    <3>2. QED BY <1>1, <2>2, <2>3, <3>1
  <2>. HIDE DEF a, b
  <2>5. s[2] <= a BY <2>1 DEF a
  <2>6. s[2] <= b BY <2>2, <2>4, <2>5
  <2>7. QED BY <2>6 DEF b
<1>4. guests \in Nat /\ guests <= Cardinality(Taken) BY DEF AdmissionInv, TypeOK, RoomInv
<1>5. CASE /\ req.route = "create" /\ MayBeGuest(req) /\ ~Throttled(p, req)
  <2>1. Counted(p, req) = Names
    BY <1>5, CountedIs, CreateKeeps DEF MayBeGuest
  <2>2. hits'[p]["create"]["default"] = h + 1 BY <1>1, <1>5, <2>1, HitsMove
  <2>3. h + 1 \in 1 .. Budget["create"]["default"]
    BY <1>1, <2>2 DEF TypeOK
  <2>. DEFINE s == <<p, h + 1>>
  <2>4. s \in Slots /\ s \in Taken' /\ s \notin Taken
    BY <1>1, <2>2, <2>3 DEF Slots, Taken
  <2>. HIDE DEF s
  <2>5. Cardinality(Taken \cup {s}) = Cardinality(Taken) + 1
    BY <2>4, TakenIsFinite, FS_AddElement
  <2>6. Cardinality(Taken \cup {s}) <= Cardinality(Taken')
    BY <1>2, <1>3, <2>4, FS_Subset
  <2>7. guests' \in {guests, guests + 1} BY DEF Serve
  <2>8. QED BY <1>2, <1>4, <2>5, <2>6, <2>7, TakenIsFinite DEF RoomInv
<1>6. CASE ~(req.route = "create" /\ MayBeGuest(req) /\ ~Throttled(p, req))
  <2>1. guests' = guests BY <1>6 DEF Serve
  <2>2. Cardinality(Taken) <= Cardinality(Taken') BY <1>2, <1>3, FS_Subset
  <2>3. QED BY <1>2, <1>4, <2>1, <2>2, TakenIsFinite DEF RoomInv
<1>7. QED BY <1>5, <1>6

\* The budget that refuses is one the request has had its share of.
LEMMA ServeKeepsApart ==
    ASSUME AdmissionInv, NEW p \in Pods, NEW req \in Requests, Serve(p, req)
    PROVE  BudgetsAreApart'
<1>. DEFINE h == hits[p]["create"]
            B == Budget["create"]
<1>1. /\ last'.request = req /\ last'.pod = p
      /\ last'.status = IF Throttled(p, req) THEN "429" ELSE Status(req)
  BY DEF Serve
<1>2. Status(req) # "429"
  <2>1. req \in Shape BY AdmissionAssumption
  <2>2. QED BY <2>1, ActorIs
<1>3. SUFFICES ASSUME req.route = "create", Throttled(p, req)
               PROVE  IF Carries(req)
                      THEN came'[p].credentialed + B["default"] > B["data"]
                      ELSE \/ came'[p].guest > B["default"]
                           \/ came'[p].credentialed + came'[p].guest > B["data"]
  BY <1>1, <1>2 DEF BudgetsAreApart
<1>4. PICK n \in Names : n \in Kept(req) /\ h[n] >= B[n]
  BY <1>3 DEF Throttled, UsedUp
<1>5. /\ h["auth"] <= h["default"] /\ h["redirect"] <= came[p].guest
      /\ h["default"] <= came[p].guest
      /\ h["data"] <= came[p].credentialed + h["default"]
  BY DEF AdmissionInv, CountersInv
<1>6. /\ \A m \in Names : h[m] \in Nat /\ B[m] \in Nat /\ h[m] <= B[m]
      /\ Names = {"default", "auth", "redirect", "data"}
      /\ came[p].guest \in Nat /\ came[p].credentialed \in Nat
  BY AdmissionAssumption DEF AdmissionInv, CountersInv, TypeOK, Names, Routes
<1>7. B["default"] <= B["auth"] /\ B["default"] <= B["redirect"] BY AdmissionAssumption
<1>. HIDE DEF h, B
<1>8. CASE Carries(req)
  <2>1. n = "data" BY <1>3, <1>4, <1>8, CreateKeeps
  <2>2. came'[p].credentialed = came[p].credentialed + 1 BY <1>3, <1>8, CameMoves
  <2>3. QED BY <1>4, <1>5, <1>6, <1>8, <2>1, <2>2
<1>9. CASE ~Carries(req)
  <2>1. /\ came'[p].guest = came[p].guest + 1
        /\ came'[p].credentialed = came[p].credentialed
    BY <1>3, <1>9, CameMoves
  <2>2. CASE n = "data" BY <1>4, <1>5, <1>6, <1>9, <2>1, <2>2
  <2>3. CASE n # "data"
    <3>1. came[p].guest >= B["default"] BY <1>4, <1>5, <1>6, <1>7, <2>3
    <3>2. QED BY <1>5, <1>6, <1>9, <2>1, <3>1
  <2>4. QED BY <2>2, <2>3
<1>10. QED BY <1>8, <1>9

LEMMA ServeStep ==
    ASSUME AdmissionInv, NEW p \in Pods, NEW req \in Requests, Serve(p, req)
    PROVE  AdmissionInv'
<1>1. TypeOK' BY ServeTypes
<1>2. CountersInv' BY ServeCounts
<1>3. RoomInv' BY <1>1, ServeLeavesRoom
<1>4. BudgetsAreApart' BY ServeKeepsApart
<1>5. SchemesHold'
  <2>1. req \in Shape BY AdmissionAssumption
  <2>2. None # Guest /\ None \notin Users BY AdmissionAssumption
  <2>3. last'.request = req /\ last'.as \in {None, Actor(req)} BY DEF Serve
  <2>4. last'.as \in Users =>
           last'.as \in CASE req.route = "session" -> {req.bearer, req.cookie}
                          [] req.route = "mcp" -> {req.apiKey}
                          [] OTHER -> {req.bearer, req.cookie, req.apiKey}
    BY <2>1, <2>2, <2>3, ActorIs
  <2>5. last'.as = Guest => ~Carries(req) BY <2>1, <2>2, <2>3, ActorIs
  <2>6. QED BY <2>3, <2>4, <2>5 DEF SchemesHold, Carries
<1>6. QED BY <1>1, <1>2, <1>3, <1>4, <1>5 DEF AdmissionInv

LEMMA AdmissionSteps == AdmissionInv /\ [Next]_vars => AdmissionInv'
<1>. SUFFICES ASSUME AdmissionInv, [Next]_vars PROVE AdmissionInv' OBVIOUS
<1>1. ASSUME NEW p \in Pods, NEW req \in Requests, Serve(p, req) PROVE AdmissionInv'
  BY <1>1, ServeStep
<1>2. CASE Expire BY <1>2, ExpireStep
<1>3. CASE ExpireShort BY <1>3, ExpireShortStep
<1>4. CASE UNCHANGED vars
  BY <1>4 DEF vars, AdmissionInv, TypeOK, CountersInv, RoomInv, Taken,
              BudgetsAreApart, SchemesHold
<1>5. QED BY <1>1, <1>2, <1>3, <1>4 DEF Next

-----------------------------------------------------------------------------
(* GuestIdentity: the guest's row.                                         *)

\* What a pod has in its field, what the row is, and what a lookup has read are rows
\* the guest has had since the pod was started; and the row, once seeded, stays seeded,
\* so a lookup that came after that finds one.
RowsAreHeld ==
    /\ \A p \in Pods : cache[p] # None => cache[p] \in held[p]
    /\ \A p \in Pods : guestRow # None => guestRow \in held[p]
    /\ \A l \in Lookups :
          lookup[l] # None /\ lookup[l].row # None => lookup[l].row \in held[lookup[l].pod]

MissesWereMisses ==
    \A l \in Lookups :
       lookup[l] # None =>
          /\ ~lookup[l].missing => guestRow # None
          /\ lookup[l].stage = "read" /\ lookup[l].row = None => lookup[l].missing

IdentityInv ==
    /\ Identity!TypeOK /\ RowsAreHeld /\ MissesWereMisses
    /\ Identity!GuestIsSeeded

LEMMA IdentityStarts == Identity!Init => IdentityInv
<1>. SUFFICES ASSUME Identity!Init PROVE IdentityInv OBVIOUS
<1>1. /\ guestRow \in GuestIds \cup {None} /\ cache = [p \in Pods |-> None]
      /\ lookup = [l \in Lookups |-> None] /\ told = None
      /\ held = [p \in Pods |-> {guestRow} \ {None}]
  BY DEF Identity!Init
<1>2. Identity!TypeOK BY <1>1 DEF Identity!TypeOK
<1>3. RowsAreHeld /\ MissesWereMisses BY <1>1 DEF RowsAreHeld, MissesWereMisses
<1>4. Identity!GuestIsSeeded BY <1>1 DEF Identity!GuestIsSeeded
<1>5. QED BY <1>2, <1>3, <1>4 DEF IdentityInv

\* The variables of GuestIdentity, and what a guest that waits is.
LEMMA IdentityTypes ==
    ASSUME IdentityInv
    PROVE  /\ None \notin GuestIds
           /\ guestRow \in GuestIds \cup {None} /\ cache \in [Pods -> GuestIds \cup {None}]
           /\ held \in [Pods -> SUBSET GuestIds]
           /\ lookup \in [Lookups -> Identity!Lookup \cup {None}]
           /\ told \in Identity!Answer \cup {None}
           /\ RowsAreHeld /\ MissesWereMisses
           /\ \A l \in Lookups : lookup[l] # None =>
                 /\ lookup[l] \in Identity!Lookup
                 /\ lookup[l].pod \in Pods /\ lookup[l].row \in GuestIds \cup {None}
                 /\ lookup[l].missing \in BOOLEAN
BY IdentityAssumption DEF IdentityInv, Identity!TypeOK, Identity!Lookup

LEMMA CachedStep == ASSUME IdentityInv, NEW p \in Pods, Identity!Cached(p) PROVE IdentityInv'
<1>1. /\ cache[p] # None
      /\ told' = [pod |-> p, as |-> cache[p], status |-> "ok", missing |-> guestRow = None]
      /\ UNCHANGED <<guestRow, cache, lookup, held>>
  BY DEF Identity!Cached
<1>2. told' \in Identity!Answer BY <1>1, IdentityTypes DEF Identity!Answer
<1>3. Identity!TypeOK' BY <1>1, <1>2 DEF IdentityInv, Identity!TypeOK
<1>4. (RowsAreHeld /\ MissesWereMisses)'
  BY <1>1 DEF IdentityInv, RowsAreHeld, MissesWereMisses
<1>5. Identity!GuestIsSeeded'
  BY <1>1, IdentityTypes DEF RowsAreHeld, Identity!GuestIsSeeded
<1>6. QED BY <1>3, <1>4, <1>5 DEF IdentityInv

LEMMA AskStep ==
    ASSUME IdentityInv, NEW p \in Pods, NEW l \in Lookups, Identity!Ask(p, l)
    PROVE  IdentityInv'
<1>. DEFINE new == [pod |-> p, stage |-> "asked", row |-> None, missing |-> guestRow = None]
<1>1. /\ lookup' = [lookup EXCEPT ![l] = new]
      /\ UNCHANGED <<guestRow, cache, held, told>>
  BY DEF Identity!Ask
<1>2. /\ new \in Identity!Lookup /\ new.row = None /\ new.stage = "asked"
      /\ ~new.missing => guestRow # None
  BY DEF Identity!Lookup
<1>. HIDE DEF new
<1>3. \A m \in Lookups : lookup'[m] = IF m = l THEN new ELSE lookup[m]
  BY <1>1, IdentityTypes
<1>4. Identity!TypeOK' BY <1>1, <1>2, IdentityTypes DEF Identity!TypeOK
<1>5. RowsAreHeld' BY <1>1, <1>2, <1>3, IdentityTypes DEF RowsAreHeld
<1>6. MissesWereMisses' BY <1>1, <1>2, <1>3, IdentityTypes DEF MissesWereMisses
<1>7. Identity!GuestIsSeeded' BY <1>1 DEF IdentityInv, Identity!GuestIsSeeded
<1>8. QED BY <1>4, <1>5, <1>6, <1>7 DEF IdentityInv

\* A lookup that came after the seeding reads a row.
LEMMA SelectStep == ASSUME IdentityInv, NEW l \in Lookups, Identity!Select(l) PROVE IdentityInv'
<1>. DEFINE old == lookup[l]
            new == [[old EXCEPT !.stage = "read"] EXCEPT !.row = guestRow]
<1>1. /\ old # None
      /\ lookup' = [lookup EXCEPT ![l] = new]
      /\ UNCHANGED <<guestRow, cache, held, told>>
  BY DEF Identity!Select
<1>2. old \in Identity!Lookup /\ guestRow \in GuestIds \cup {None} BY <1>1, IdentityTypes
<1>3. new \in Identity!Lookup BY <1>2 DEF Identity!Lookup
<1>4. new.row = guestRow /\ new.pod = old.pod /\ new.missing = old.missing
  BY <1>2 DEF Identity!Lookup
<1>5. old.pod \in Pods BY <1>2 DEF Identity!Lookup
<1>6. ~old.missing => guestRow # None BY <1>1, IdentityTypes DEF MissesWereMisses
<1>. HIDE DEF new, old
<1>7. \A m \in Lookups : lookup'[m] = IF m = l THEN new ELSE lookup[m]
  BY <1>1, IdentityTypes
<1>8. Identity!TypeOK' BY <1>1, <1>3, IdentityTypes DEF Identity!TypeOK
<1>9. RowsAreHeld' BY <1>1, <1>4, <1>5, <1>7, IdentityTypes DEF RowsAreHeld
<1>10. MissesWereMisses' BY <1>1, <1>4, <1>6, <1>7, IdentityTypes DEF MissesWereMisses
<1>11. Identity!GuestIsSeeded' BY <1>1 DEF IdentityInv, Identity!GuestIsSeeded
<1>12. QED BY <1>8, <1>9, <1>10, <1>11 DEF IdentityInv

\* A guest is answered with what its lookup has read.
LEMMA AnsweredIs ==
    ASSUME IdentityInv, NEW l \in Lookups, NEW status \in {"ok", "404", "500"},
           lookup[l] # None, Identity!Answered(l, status),
           status = "404" => lookup[l].stage = "read" /\ lookup[l].row = None,
           status = "ok" => lookup[l].row # None,
           cache' \in [Pods -> GuestIds \cup {None}],
           \A p \in Pods : cache'[p] # None => cache'[p] \in held[p]
    PROVE  IdentityInv'
<1>1. /\ lookup' = [lookup EXCEPT ![l] = None]
      /\ told' = [pod |-> lookup[l].pod, as |-> lookup[l].row, status |-> status,
                  missing |-> lookup[l].missing]
      /\ UNCHANGED <<guestRow, held>>
  BY DEF Identity!Answered
<1>2. told' \in Identity!Answer BY <1>1, IdentityTypes DEF Identity!Answer
<1>3. \A m \in Lookups : lookup'[m] = IF m = l THEN None ELSE lookup[m]
  BY <1>1, IdentityTypes
<1>4. Identity!TypeOK' BY <1>1, <1>2, IdentityTypes DEF Identity!TypeOK
<1>5. RowsAreHeld' BY <1>1, <1>3, IdentityTypes DEF RowsAreHeld
<1>6. MissesWereMisses' BY <1>1, <1>3, IdentityTypes DEF MissesWereMisses
<1>7. Identity!GuestIsSeeded'
  BY <1>1, IdentityTypes DEF RowsAreHeld, MissesWereMisses, Identity!GuestIsSeeded
<1>8. QED BY <1>4, <1>5, <1>6, <1>7 DEF IdentityInv

LEMMA ResumeStep == ASSUME IdentityInv, NEW l \in Lookups, Identity!Resume(l) PROVE IdentityInv'
<1>. DEFINE status == IF lookup[l].row = None THEN "404" ELSE "ok"
<1>1. /\ lookup[l] # None /\ lookup[l].stage = "read"
      /\ cache' = [cache EXCEPT ![lookup[l].pod] = Identity!Remembered(l)]
      /\ Identity!Answered(l, status)
  BY DEF Identity!Resume
<1>2. Identity!Remembered(l) = IF lookup[l].row = None THEN cache[lookup[l].pod]
                               ELSE lookup[l].row
  BY DEF Identity!Remembered
<1>3. /\ cache' \in [Pods -> GuestIds \cup {None}]
      /\ \A p \in Pods : cache'[p] # None => cache'[p] \in held[p]
  BY <1>1, <1>2, IdentityTypes DEF RowsAreHeld
<1>4. /\ status \in {"ok", "404", "500"}
      /\ status = "404" => lookup[l].row = None
      /\ status = "ok" => lookup[l].row # None
  OBVIOUS
<1>. HIDE DEF status
<1>5. QED BY <1>1, <1>3, <1>4, AnsweredIs

LEMMA FailStep == ASSUME IdentityInv, NEW l \in Lookups, Identity!Fail(l) PROVE IdentityInv'
<1>1. lookup[l] # None /\ Identity!Answered(l, "500") /\ cache' = cache
  BY DEF Identity!Fail
<1>2. /\ cache' \in [Pods -> GuestIds \cup {None}]
      /\ \A p \in Pods : cache'[p] # None => cache'[p] \in held[p]
  BY <1>1, IdentityTypes DEF RowsAreHeld
<1>3. QED BY <1>1, <1>2, AnsweredIs

LEMMA SeedStep == ASSUME IdentityInv, NEW id \in GuestIds, Identity!Seed(id) PROVE IdentityInv'
<1>1. /\ guestRow' = id /\ held' = [p \in Pods |-> held[p] \cup {id}]
      /\ UNCHANGED <<cache, lookup, told>>
  BY DEF Identity!Seed
<1>2. id # None BY IdentityTypes
<1>3. Identity!TypeOK' BY <1>1, IdentityTypes DEF Identity!TypeOK
<1>4. \A p \in Pods : held[p] \subseteq held'[p] /\ id \in held'[p] BY <1>1
<1>5. RowsAreHeld' BY <1>1, <1>4, IdentityTypes DEF RowsAreHeld
<1>6. MissesWereMisses' BY <1>1, <1>2, IdentityTypes DEF MissesWereMisses
<1>7. Identity!GuestIsSeeded'
  <2>1. told # None => told.pod \in Pods BY IdentityTypes DEF Identity!Answer
  <2>2. QED BY <1>1, <1>4, <2>1 DEF IdentityInv, Identity!GuestIsSeeded
<1>8. QED BY <1>3, <1>5, <1>6, <1>7 DEF IdentityInv

LEMMA RestartStep == ASSUME IdentityInv, NEW p \in Pods, Identity!Restart(p) PROVE IdentityInv'
<1>1. /\ cache' = [cache EXCEPT ![p] = None]
      /\ lookup' = [l \in Lookups |-> IF lookup[l] # None /\ lookup[l].pod = p THEN None
                                      ELSE lookup[l]]
      /\ held' = [held EXCEPT ![p] = {guestRow} \ {None}]
      /\ told' = None /\ guestRow' = guestRow
  BY DEF Identity!Restart
<1>2. \A l \in Lookups : lookup'[l] # None => lookup'[l] = lookup[l] /\ lookup[l].pod # p
  BY <1>1, IdentityTypes
<1>3. /\ \A q \in Pods : q # p => held'[q] = held[q] /\ cache'[q] = cache[q]
      /\ held'[p] = {guestRow} \ {None} /\ cache'[p] = None
  BY <1>1, IdentityTypes
<1>4. Identity!TypeOK' BY <1>1, IdentityTypes DEF Identity!TypeOK
<1>5. RowsAreHeld' BY <1>1, <1>2, <1>3, IdentityTypes DEF RowsAreHeld
<1>6. MissesWereMisses' BY <1>1, <1>2, IdentityTypes DEF MissesWereMisses
<1>7. Identity!GuestIsSeeded' BY <1>1 DEF Identity!GuestIsSeeded
<1>8. QED BY <1>4, <1>5, <1>6, <1>7 DEF IdentityInv

LEMMA IdentitySteps == IdentityInv /\ [Identity!Next]_identityVars => IdentityInv'
<1>. SUFFICES ASSUME IdentityInv, [Identity!Next]_identityVars PROVE IdentityInv' OBVIOUS
<1>1. ASSUME NEW p \in Pods, Identity!Cached(p) PROVE IdentityInv' BY <1>1, CachedStep
<1>2. ASSUME NEW p \in Pods, Identity!Restart(p) PROVE IdentityInv' BY <1>2, RestartStep
<1>3. ASSUME NEW p \in Pods, NEW l \in Lookups, Identity!Ask(p, l) PROVE IdentityInv'
  BY <1>3, AskStep
<1>4. ASSUME NEW l \in Lookups, Identity!Select(l) PROVE IdentityInv' BY <1>4, SelectStep
<1>5. ASSUME NEW l \in Lookups, Identity!Resume(l) PROVE IdentityInv' BY <1>5, ResumeStep
<1>6. ASSUME NEW l \in Lookups, Identity!Fail(l) PROVE IdentityInv' BY <1>6, FailStep
<1>7. ASSUME NEW id \in GuestIds, Identity!Seed(id) PROVE IdentityInv' BY <1>7, SeedStep
<1>8. CASE UNCHANGED identityVars
  BY <1>8 DEF identityVars, IdentityInv, Identity!TypeOK, RowsAreHeld, MissesWereMisses,
              Identity!GuestIsSeeded
<1>9. QED BY <1>1, <1>2, <1>3, <1>4, <1>5, <1>6, <1>7, <1>8 DEF Identity!Next

-----------------------------------------------------------------------------
(* Both, side by side.                                                     *)

LEMMA AdmissionAlways == AdmissionSpec => [](AdmissionInv /\ IdentityInv)
<1>1. AdmissionInit => AdmissionInv /\ IdentityInv
  BY AdmissionStarts, IdentityStarts DEF AdmissionInit
<1>2. [AdmissionNext]_<<part, admissionVars, identityVars>> =>
         [Next]_vars /\ [Identity!Next]_identityVars
  BY DEF AdmissionNext, admissionVars
<1>3. /\ AdmissionInv /\ IdentityInv
      /\ [AdmissionNext]_<<part, admissionVars, identityVars>>
      => (AdmissionInv /\ IdentityInv)'
  BY <1>2, AdmissionSteps, IdentitySteps
<1>4. QED BY <1>1, <1>3, PTL DEF AdmissionSpec

\* AdmissionTypeOK: every variable keeps its type, and no counter passes its budget.
THEOREM AdmissionTypes == AdmissionSpec => []AdmissionTypeOK
<1>1. AdmissionInv /\ IdentityInv => AdmissionTypeOK
  BY DEF AdmissionInv, IdentityInv, AdmissionTypeOK
<1>2. QED BY AdmissionAlways, <1>1, PTL

\* GuestCreationsBounded: on any number of pods, whatever credentials an address
\* sends along and in whatever order, POST /api/urls admits no more guests in a
\* window than GUEST_CREATE_BUDGET allows each pod.
THEOREM GuestsAreFew == AdmissionSpec => []GuestCreationsBounded
<1>1. AdmissionInv => GuestCreationsBounded BY RoomBounds DEF AdmissionInv
<1>2. QED BY AdmissionAlways, <1>1, PTL

\* BudgetsAreApart: guests that are turned away take nothing from the budget of the
\* credentialed creations of POST /api/urls, and those nothing from the guests'.
THEOREM BudgetsStayApart == AdmissionSpec => []BudgetsAreApart
<1>1. AdmissionInv => BudgetsAreApart BY DEF AdmissionInv
<1>2. QED BY AdmissionAlways, <1>1, PTL

\* GuestIsSeeded: whatever seedings, restarts and other lookups fall into the await of
\* getGuestUserId, a guest is told the row is missing only if it was when the guest
\* came, and works as a row the guest has had since the pod was started.
THEOREM GuestIsTheRow == AdmissionSpec => []GuestIsSeeded
<1>1. IdentityInv => GuestIsSeeded BY DEF IdentityInv, GuestIsSeeded
<1>2. QED BY AdmissionAlways, <1>1, PTL

\* SchemesHold: the guards of a route admit by the schemes of its contract alone.
THEOREM SchemesAreKept == AdmissionSpec => []SchemesHold
<1>1. AdmissionInv => SchemesHold BY DEF AdmissionInv
<1>2. QED BY AdmissionAlways, <1>1, PTL
=============================================================================
