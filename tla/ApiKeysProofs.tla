---------------------------- MODULE ApiKeysProofs -----------------------------
(***************************************************************************)
(* Theorems about ApiKeys, for every number of users, keys and requests:   *)
(* type correctness, revocation is final, a request is admitted as the     *)
(* owner of its key, and the allowance is passed by fewer keys than        *)
(* requests can be in flight.                                              *)
(***************************************************************************)
EXTENDS ApiKeys, AllowanceProofs

\* A validation that has found a row, while bcrypt compares and after.
Found(q) == (q.kind = "validate" /\ q.stage = "bcrypt") \/ q.kind = "mark"

\* What a request holds at each stage, which its type leaves open.
Shape(q) ==
    /\ q.kind \in {"create", "usage"} => q.user \in Users
    /\ q.kind = "validate" => q.key \in Keys
    /\ Found(q) => q.row \in Keys /\ q.read \in Row

\* What the rows are to it: the row it found is there and is still its owner's,
\* and a key that was revoked before the request came is revoked, and not found.
Placed(q, keys) ==
    /\ q.late => q.key \in Keys /\ keys[q.key] # None /\ keys[q.key].revoked
    /\ Found(q) => /\ keys[q.row] # None
                   /\ keys[q.row].owner = q.read.owner
                   /\ q.late => q.row # q.key

InFlight == \A r \in Requests : req[r] # None => Shape(req[r]) /\ Placed(req[r], rows)

Owned(a, keys) == ~a.late /\ a.key \in Keys /\ keys[a.key] # None
                          /\ a.user = keys[a.key].owner
AllOwned == \A r \in Requests : answer[r] # None /\ answer[r].kind = "admitted" =>
                Owned(answer[r], rows)

IInv == TypeOK /\ InFlight /\ AllOwned

\* Rows are added, marked and revoked, and never taken back.
Grows == \A k \in Keys : rows[k] # None =>
    /\ rows'[k] # None
    /\ rows'[k].owner = rows[k].owner
    /\ rows[k].revoked => rows'[k].revoked

-----------------------------------------------------------------------------
LEMMA KeysInit == Init => IInv
BY KeyAssumption DEF Init, IInv, TypeOK, InFlight, AllOwned, Months

LEMMA PlacedStays ==
    ASSUME Grows, NEW q, Shape(q), Placed(q, rows)
    PROVE  Placed(q, rows')
BY DEF Grows, Shape, Placed

\* A request goes on, or ends.
LEMMA MovedInFlight ==
    ASSUME IInv, Grows, NEW r \in Requests, NEW q \in Request, Shape(q), Placed(q, rows'),
           req' = [req EXCEPT ![r] = q]
    PROVE  req' \in [Requests -> Request \cup {None}] /\ InFlight'
<1>1. req \in [Requests -> Request \cup {None}] BY DEF IInv, TypeOK
<1>2. req'[r] = q /\ \A s \in Requests \ {r} : req'[s] = req[s] BY <1>1
<1>3. ASSUME NEW s \in Requests, req'[s] # None
      PROVE  Shape(req'[s]) /\ Placed(req'[s], rows')
  <2>1. CASE s = r BY <1>2, <2>1
  <2>2. CASE s # r
    <3>1. Shape(req[s]) /\ Placed(req[s], rows) /\ req'[s] = req[s]
      BY <1>2, <1>3, <2>2 DEF IInv, InFlight
    <3>2. QED BY <3>1, PlacedStays
  <2>3. QED BY <2>1, <2>2
<1>4. InFlight' BY <1>3 DEF InFlight, Shape, Placed, Found
<1>5. QED BY <1>1, <1>4

LEMMA EndedInFlight ==
    ASSUME IInv, Grows, NEW r \in Requests, req' = [req EXCEPT ![r] = None]
    PROVE  req' \in [Requests -> Request \cup {None}] /\ InFlight'
<1>1. req \in [Requests -> Request \cup {None}] BY DEF IInv, TypeOK
<1>2. \A s \in Requests : req'[s] # None => req'[s] = req[s] BY <1>1
<1>3. ASSUME NEW s \in Requests, req'[s] # None
      PROVE  Shape(req'[s]) /\ Placed(req'[s], rows')
  <2>1. Shape(req[s]) /\ Placed(req[s], rows) /\ req'[s] = req[s]
    BY <1>2, <1>3 DEF IInv, InFlight
  <2>2. QED BY <2>1, PlacedStays
<1>4. InFlight' BY <1>3 DEF InFlight, Shape, Placed, Found
<1>5. QED BY <1>1, <1>4

LEMMA SameInFlight ==
    ASSUME IInv, Grows, req' = req
    PROVE  req' \in [Requests -> Request \cup {None}] /\ InFlight'
<1>1. ASSUME NEW s \in Requests, req'[s] # None
      PROVE  Shape(req'[s]) /\ Placed(req'[s], rows')
  <2>1. Shape(req[s]) /\ Placed(req[s], rows) BY <1>1 DEF IInv, InFlight
  <2>2. QED BY <2>1, PlacedStays
<1>2. InFlight' BY <1>1 DEF InFlight, Shape, Placed, Found
<1>3. QED BY <1>2 DEF IInv, TypeOK

\* A slot gets an answer, or loses it, or keeps it.
LEMMA AnsweredOwned ==
    ASSUME IInv, Grows, NEW r \in Requests, NEW a \in Answer \cup {None},
           answer' = [answer EXCEPT ![r] = a],
           a # None /\ a.kind = "admitted" => Owned(a, rows')
    PROVE  answer' \in [Requests -> Answer \cup {None}] /\ AllOwned'
<1>1. answer \in [Requests -> Answer \cup {None}] BY DEF IInv, TypeOK
<1>2. answer'[r] = a /\ \A s \in Requests \ {r} : answer'[s] = answer[s] BY <1>1
<1>3. ASSUME NEW s \in Requests, answer'[s] # None, answer'[s].kind = "admitted"
      PROVE  Owned(answer'[s], rows')
  <2>1. CASE s = r BY <1>2, <1>3, <2>1
  <2>2. CASE s # r
    <3>1. answer'[s] = answer[s] BY <1>2, <2>2
    <3>2. Owned(answer[s], rows) BY <1>3, <3>1 DEF IInv, AllOwned
    <3>3. QED BY <3>1, <3>2 DEF Owned, Grows
  <2>3. QED BY <2>1, <2>2
<1>4. AllOwned' BY <1>3 DEF AllOwned, Owned
<1>5. QED BY <1>1, <1>4

LEMMA SameOwned ==
    ASSUME IInv, Grows, answer' = answer
    PROVE  answer' \in [Requests -> Answer \cup {None}] /\ AllOwned'
BY DEF IInv, TypeOK, AllOwned, Owned, Grows

-----------------------------------------------------------------------------
LEMMA BeginInv ==
    ASSUME IInv, NEW r \in Requests, NEW kind \in {"create", "usage", "validate"},
           NEW user \in Users \cup {None}, NEW key \in Keys \cup {None},
           kind \in {"create", "usage"} => user \in Users,
           kind = "validate" => key \in Keys,
           Begin(r, kind, user, key)
    PROVE  IInv' /\ Grows
<1>. USE KeyAssumption
<1>1. TypeOK BY DEF IInv
<1>. DEFINE late == key # None /\ rows[key] # None /\ rows[key].revoked
            q == [kind |-> kind, stage |-> "db", user |-> user, key |-> key,
                  month |-> month, row |-> None, read |-> None, count |-> 0, late |-> late]
<1>2. /\ req' = [req EXCEPT ![r] = q] /\ answer' = [answer EXCEPT ![r] = None]
      /\ UNCHANGED <<month, rows>> /\ begun < MaxBegun /\ begun' = begun + 1
  BY DEF Begin
<1>3. Grows BY <1>2 DEF Grows
<1>4. late \in BOOLEAN OBVIOUS
<1>5. q \in Request /\ q.late = late
  <2>. HIDE DEF late
  <2>1. QED BY <1>1, <1>4 DEF Request, TypeOK
<1>6. /\ q.kind = kind /\ q.stage = "db" /\ q.user = user /\ q.key = key OBVIOUS
<1>7. late => key \in Keys /\ rows[key] # None /\ rows[key].revoked OBVIOUS
<1>. HIDE DEF q, late
<1>8. Shape(q) /\ Placed(q, rows')
  BY <1>2, <1>5, <1>6, <1>7 DEF Shape, Placed, Found
<1>9. begun' \in 0 .. MaxBegun BY <1>1, <1>2 DEF TypeOK
<1>10. req' \in [Requests -> Request \cup {None}] /\ InFlight'
  BY <1>2, <1>3, <1>5, <1>8, MovedInFlight
<1>11. answer' \in [Requests -> Answer \cup {None}] /\ AllOwned'
  BY <1>2, <1>3, AnsweredOwned
<1>12. QED BY <1>1, <1>2, <1>3, <1>9, <1>10, <1>11 DEF IInv, TypeOK

\* Every answer is well typed.
LEMMA ReplyTypes ==
    ASSUME IInv, NEW r \in Requests, req[r] # None,
           NEW kind \in {"created", "limit", "admitted", "refused", "usage"},
           NEW user \in Users \cup {None}, NEW remaining \in Nat, NEW reset \in Nat
    PROVE  [kind |-> kind, user |-> user, key |-> req[r].key, late |-> req[r].late,
            month |-> req[r].month, remaining |-> remaining, reset |-> reset] \in Answer
<1>1. req[r] \in Request BY DEF IInv, TypeOK
<1>2. QED BY <1>1 DEF Request, Answer

\* A request ends with an answer that admits nobody, whatever rows it adds.
LEMMA EndedInv ==
    ASSUME IInv, Grows, NEW r \in Requests, req[r] # None,
           NEW kind \in {"created", "limit", "refused", "usage"},
           NEW user \in Users \cup {None}, NEW remaining \in Nat, NEW reset \in Nat,
           req' = [req EXCEPT ![r] = None], Reply(r, kind, user, remaining, reset),
           rows' \in [Keys -> Row \cup {None}], UNCHANGED <<month, begun>>
    PROVE  IInv'
<1>. DEFINE a == [kind |-> kind, user |-> user, key |-> req[r].key, late |-> req[r].late,
                  month |-> req[r].month, remaining |-> remaining, reset |-> reset]
<1>1. a \in Answer /\ a.kind # "admitted" BY ReplyTypes
<1>2. answer' = [answer EXCEPT ![r] = a] BY DEF Reply
<1>. HIDE DEF a
<1>3. answer' \in [Requests -> Answer \cup {None}] /\ AllOwned'
  BY <1>1, <1>2, AnsweredOwned
<1>4. req' \in [Requests -> Request \cup {None}] /\ InFlight' BY EndedInFlight
<1>5. QED BY <1>3, <1>4 DEF IInv, TypeOK

LEMMA CountKeysInv ==
    ASSUME IInv, NEW r \in Requests, CountKeys(r)
    PROVE  IInv' /\ Grows
<1>1. /\ req[r] # None /\ req[r].kind = "create" /\ req[r].stage = "db"
      /\ UNCHANGED <<month, rows, begun>>
  BY DEF CountKeys, At
<1>2. req[r] \in Request /\ Shape(req[r]) /\ Placed(req[r], rows)
  BY <1>1 DEF IInv, TypeOK, InFlight
<1>3. Grows /\ rows' \in [Keys -> Row \cup {None}] BY <1>1 DEF Grows, IInv, TypeOK
<1>4. CASE End(r, "limit", req[r].user)
  <2>1. req' = [req EXCEPT ![r] = None] /\ Reply(r, "limit", req[r].user, 0, 0)
    BY <1>4 DEF End
  <2>2. req[r].user \in Users BY <1>1, <1>2 DEF Shape
  <2>3. QED BY <1>1, <1>3, <2>1, <2>2, EndedInv
<1>5. CASE To(r, "save")
  <2>. DEFINE q == [req[r] EXCEPT !.stage = "save"]
  <2>1. req' = [req EXCEPT ![r] = q] /\ answer' = answer BY <1>5 DEF To
  <2>2. q \in Request BY <1>2 DEF Request
  <2>3. /\ q.kind = "create" /\ q.user = req[r].user /\ q.key = req[r].key
        /\ q.late = req[r].late
    BY <1>1, <1>2 DEF Request
  <2>. HIDE DEF q
  <2>4. Shape(q) /\ Placed(q, rows') BY <1>1, <1>2, <2>3 DEF Shape, Placed, Found
  <2>5. req' \in [Requests -> Request \cup {None}] /\ InFlight'
    BY <1>3, <2>1, <2>2, <2>4, MovedInFlight
  <2>6. QED BY <1>1, <1>3, <2>1, <2>5, SameOwned DEF IInv, TypeOK
<1>6. QED BY <1>3, <1>4, <1>5 DEF CountKeys

LEMMA SaveInv ==
    ASSUME IInv, NEW r \in Requests, NEW k \in Keys, Save(r, k)
    PROVE  IInv' /\ Grows
<1>. DEFINE row == [owner |-> req[r].user, month |-> month, revoked |-> FALSE, used |-> FALSE]
<1>1. /\ req[r] # None /\ req[r].kind = "create" /\ rows[k] = None
      /\ rows' = [rows EXCEPT ![k] = row] /\ End(r, "created", req[r].user)
      /\ UNCHANGED <<month, begun>>
  BY DEF Save, At
<1>2. req[r].user \in Users BY <1>1 DEF IInv, InFlight, Shape
<1>3. row \in Row BY <1>2 DEF Row, IInv, TypeOK
<1>. HIDE DEF row
<1>4. rows' \in [Keys -> Row \cup {None}] BY <1>1, <1>3 DEF IInv, TypeOK
<1>5. Grows BY <1>1 DEF Grows, IInv, TypeOK
<1>6. req' = [req EXCEPT ![r] = None] /\ Reply(r, "created", req[r].user, 0, 0)
  BY <1>1 DEF End
<1>7. QED BY <1>1, <1>2, <1>4, <1>5, <1>6, EndedInv

LEMMA RevokeInv ==
    ASSUME IInv, NEW u \in Users, NEW k \in Keys, Revoke(u, k)
    PROVE  IInv' /\ Grows
<1>. DEFINE row == [rows[k] EXCEPT !.revoked = TRUE]
<1>1. /\ rows[k] # None /\ rows' = [rows EXCEPT ![k] = row]
      /\ UNCHANGED <<month, req, answer, begun>>
  BY DEF Revoke
<1>2. rows \in [Keys -> Row \cup {None}] /\ rows[k] \in Row BY <1>1 DEF IInv, TypeOK
<1>3. row \in Row /\ row.owner = rows[k].owner /\ row.revoked BY <1>2 DEF Row
<1>. HIDE DEF row
<1>4. rows' \in [Keys -> Row \cup {None}] BY <1>1, <1>2, <1>3
<1>5. row # None BY <1>3, KeyAssumption
<1>6. Grows BY <1>1, <1>2, <1>3, <1>5 DEF Grows
<1>7. QED BY <1>1, <1>4, <1>6, SameInFlight, SameOwned DEF IInv, TypeOK

LEMMA FindInv ==
    ASSUME IInv, NEW r \in Requests, Find(r)
    PROVE  IInv' /\ Grows
<1>1. /\ req[r] # None /\ req[r].kind = "validate" /\ UNCHANGED <<month, rows, begun>>
  BY DEF Find, At
<1>2. req[r] \in Request /\ Shape(req[r]) /\ Placed(req[r], rows)
  BY <1>1 DEF IInv, TypeOK, InFlight
<1>3. Grows /\ rows' \in [Keys -> Row \cup {None}] BY <1>1 DEF Grows, IInv, TypeOK
<1>4. CASE End(r, "refused", None)
  <2>1. req' = [req EXCEPT ![r] = None] /\ Reply(r, "refused", None, 0, 0)
    BY <1>4 DEF End
  <2>2. QED BY <1>1, <1>3, <2>1, EndedInv
<1>5. ASSUME NEW j \in Candidates(req[r].key), answer' = answer,
             req' = [req EXCEPT ![r].stage = "bcrypt", ![r].row = j, ![r].read = rows[j]]
      PROVE  IInv'
  <2>1. j \in Keys /\ rows[j] # None /\ ~rows[j].revoked BY DEF Candidates, WithPrefix
  <2>2. rows[j] \in Row BY <2>1 DEF IInv, TypeOK
  <2>. DEFINE p == [[req[r] EXCEPT !.stage = "bcrypt"] EXCEPT !.row = j]
              q == [p EXCEPT !.read = rows[j]]
  <2>3. req' = [req EXCEPT ![r] = q] BY <1>5
  <2>4. /\ p \in Request /\ p.kind = "validate" /\ p.key = req[r].key
        /\ p.row = j /\ p.late = req[r].late
    BY <1>1, <1>2, <2>1 DEF Request
  <2>. HIDE DEF p
  <2>5. /\ q \in Request /\ q.kind = "validate" /\ q.key = req[r].key
        /\ q.row = j /\ q.late = req[r].late /\ q.read = rows[j]
    BY <2>2, <2>4 DEF Request
  <2>. HIDE DEF q
  <2>6. Shape(q) BY <1>1, <1>2, <2>1, <2>2, <2>5 DEF Shape
  <2>7. Placed(q, rows') BY <1>1, <1>2, <2>1, <2>5 DEF Placed
  <2>8. req' \in [Requests -> Request \cup {None}] /\ InFlight'
    BY <1>3, <2>3, <2>5, <2>6, <2>7, MovedInFlight
  <2>9. QED BY <1>1, <1>3, <1>5, <2>8, SameOwned DEF IInv, TypeOK
<1>6. QED BY <1>3, <1>4, <1>5 DEF Find

LEMMA CompareInv ==
    ASSUME IInv, NEW r \in Requests, Compare(r)
    PROVE  IInv' /\ Grows
<1>1. /\ req[r] # None /\ req[r].kind = "validate" /\ req[r].stage = "bcrypt"
      /\ UNCHANGED <<month, rows, begun>>
  BY DEF Compare, At
<1>2. req[r] \in Request /\ Shape(req[r]) /\ Placed(req[r], rows)
  BY <1>1 DEF IInv, TypeOK, InFlight
<1>3. Grows /\ rows' \in [Keys -> Row \cup {None}] BY <1>1 DEF Grows, IInv, TypeOK
<1>4. CASE ~Matches(req[r].key, req[r].row)
  <2>1. req' = [req EXCEPT ![r] = None] /\ Reply(r, "refused", None, 0, 0)
    BY <1>4 DEF Compare, End
  <2>2. QED BY <1>1, <1>3, <2>1, EndedInv
<1>5. CASE Matches(req[r].key, req[r].row)
  <2>1. req[r].key = req[r].row BY <1>5 DEF Matches
  <2>2. /\ Found(req[r]) /\ req[r].row \in Keys /\ req[r].read \in Row
        /\ rows[req[r].row] # None /\ rows[req[r].row].owner = req[r].read.owner
        /\ ~req[r].late
    BY <1>1, <1>2, <2>1 DEF Found, Shape, Placed, Request
  <2>3. req[r].read.owner \in Users BY <2>2 DEF Row
  <2>. DEFINE q == [[req[r] EXCEPT !.kind = "mark"] EXCEPT !.stage = "save"]
              a == [kind |-> "admitted", user |-> req[r].read.owner, key |-> req[r].key,
                    late |-> req[r].late, month |-> req[r].month, remaining |-> 0, reset |-> 0]
  <2>4. req' = [req EXCEPT ![r] = q] /\ answer' = [answer EXCEPT ![r] = a]
    BY <1>5 DEF Compare, Reply
  <2>5. /\ q \in Request /\ q.kind = "mark" /\ q.key = req[r].key /\ q.row = req[r].row
        /\ q.read = req[r].read /\ q.late = req[r].late
    BY <1>2 DEF Request
  <2>6. a \in Answer BY <1>1, <2>3, ReplyTypes
  <2>7. ~a.late /\ a.key = req[r].row /\ a.user = req[r].read.owner BY <2>1, <2>2
  <2>. HIDE DEF q, a
  <2>8. Shape(q) /\ Placed(q, rows') BY <1>1, <1>2, <2>2, <2>5 DEF Shape, Placed, Found
  <2>9. Owned(a, rows') BY <1>1, <2>2, <2>7 DEF Owned
  <2>10. req' \in [Requests -> Request \cup {None}] /\ InFlight'
    BY <1>3, <2>4, <2>5, <2>8, MovedInFlight
  <2>11. answer' \in [Requests -> Answer \cup {None}] /\ AllOwned'
    BY <1>3, <2>4, <2>6, <2>9, AnsweredOwned
  <2>12. QED BY <1>1, <1>3, <2>10, <2>11 DEF IInv, TypeOK
<1>6. QED BY <1>3, <1>4, <1>5

\* The update of last_used_at: it writes a row that may have been revoked since.
LEMMA MarkUsedInv ==
    ASSUME IInv, NEW r \in Requests, MarkUsed(r)
    PROVE  IInv' /\ Grows
<1>. DEFINE k == req[r].row
            row == [rows[k] EXCEPT !.used = TRUE]
<1>1. /\ req[r] # None /\ req[r].kind = "mark" /\ UNCHANGED <<month, answer, begun>>
      /\ rows' = rows \/ rows' = [rows EXCEPT ![k] = row]
      /\ req' = [req EXCEPT ![r] = None]
  BY DEF MarkUsed, At, Marked
<1>2. k \in Keys /\ rows[k] # None
  BY <1>1 DEF IInv, InFlight, Shape, Placed, Found
<1>3. rows \in [Keys -> Row \cup {None}] /\ rows[k] \in Row BY <1>2 DEF IInv, TypeOK
<1>4. row \in Row /\ row.owner = rows[k].owner /\ row.revoked = rows[k].revoked
  BY <1>3 DEF Row
<1>5. row # None BY <1>4, KeyAssumption
<1>. HIDE DEF row, k
<1>6. rows' \in [Keys -> Row \cup {None}] BY <1>1, <1>2, <1>3, <1>4
<1>7. Grows BY <1>1, <1>2, <1>3, <1>4, <1>5 DEF Grows
<1>8. QED BY <1>1, <1>6, <1>7, EndedInFlight, SameOwned DEF IInv, TypeOK

LEMMA UsageInv ==
    ASSUME IInv, NEW r \in Requests, CountUsage(r) \/ Summarise(r)
    PROVE  IInv' /\ Grows
<1>. USE KeyAssumption
<1>1. /\ req[r] # None /\ req[r].kind = "usage" /\ UNCHANGED <<month, rows, begun>>
  BY DEF CountUsage, Summarise, At
<1>2. /\ req[r] \in Request /\ Shape(req[r]) /\ Placed(req[r], rows) /\ month \in Months
      /\ req[r].user \in Users
  BY <1>1 DEF IInv, TypeOK, InFlight, Shape
<1>3. Grows /\ rows' \in [Keys -> Row \cup {None}] BY <1>1 DEF Grows, IInv, TypeOK
<1>4. CASE CountUsage(r)
  <2>. DEFINE n == Counted(req[r].user, month)
              p == [[req[r] EXCEPT !.stage = "save"] EXCEPT !.month = month]
              q == [p EXCEPT !.count = n]
  <2>1. n \in Nat
    <3>. DEFINE R == {k \in Keys : rows[k] # None /\ rows[k].owner = req[r].user
                                                  /\ rows[k].month = month}
    <3>1. R \in SUBSET Keys OBVIOUS
    <3>2. IsFiniteSet(R) BY <3>1, FS_Subset
    <3>3. Cardinality(R) \in Nat BY <3>2, FS_CardinalityType
    <3>4. QED BY <3>3 DEF Counted
  <2>2. req' = [req EXCEPT ![r] = q] /\ answer' = answer BY <1>4 DEF CountUsage
  <2>. HIDE DEF n
  <2>3. p \in Request /\ p.kind = "usage" /\ p.user = req[r].user /\ p.key = req[r].key
        /\ p.late = req[r].late
    BY <1>1, <1>2 DEF Request
  <2>. HIDE DEF p
  <2>4. q \in Request /\ q.kind = "usage" /\ q.user = req[r].user /\ q.key = req[r].key
        /\ q.late = req[r].late
    BY <2>1, <2>3 DEF Request
  <2>. HIDE DEF q
  <2>5. Shape(q) /\ Placed(q, rows') BY <1>1, <1>2, <2>4 DEF Shape, Placed, Found
  <2>6. req' \in [Requests -> Request \cup {None}] /\ InFlight'
    BY <1>3, <2>2, <2>4, <2>5, MovedInFlight
  <2>7. QED BY <1>1, <1>3, <2>2, <2>6, SameOwned DEF IInv, TypeOK
<1>5. CASE Summarise(r)
  <2>1. req[r].count \in Nat /\ Limit[req[r].user] \in Nat BY <1>2 DEF Request
  <2>2. Remaining(Limit[req[r].user], req[r].count) \in Nat BY <2>1 DEF Remaining
  <2>3. month + 1 \in Nat BY <1>2 DEF Months
  <2>4. /\ req' = [req EXCEPT ![r] = None]
        /\ Reply(r, "usage", req[r].user, Remaining(Limit[req[r].user], req[r].count), month + 1)
    BY <1>5 DEF Summarise
  <2>5. QED BY <1>1, <1>2, <1>3, <2>2, <2>3, <2>4, EndedInv
<1>6. QED BY <1>3, <1>4, <1>5

LEMMA KeysNext == IInv /\ [Next]_vars => IInv' /\ Grows
<1>. SUFFICES ASSUME IInv, [Next]_vars PROVE IInv' /\ Grows OBVIOUS
<1>1. ASSUME NEW r \in Requests, NEW u \in Users,
             Begin(r, "create", u, None) \/ Begin(r, "usage", u, None)
      PROVE  IInv' /\ Grows
  BY <1>1, BeginInv
<1>2. ASSUME NEW r \in Requests, NEW k \in Keys, Begin(r, "validate", None, k)
      PROVE  IInv' /\ Grows
  BY <1>2, BeginInv
<1>3. ASSUME NEW r \in Requests, NEW k \in Keys, Save(r, k) PROVE IInv' /\ Grows
  BY <1>3, SaveInv
<1>4. ASSUME NEW r \in Requests,
             \/ CountKeys(r) \/ Find(r) \/ Compare(r) \/ MarkUsed(r)
             \/ CountUsage(r) \/ Summarise(r)
      PROVE  IInv' /\ Grows
  BY <1>4, CountKeysInv, FindInv, CompareInv, MarkUsedInv, UsageInv
<1>5. ASSUME NEW u \in Users, NEW k \in Keys, Revoke(u, k) PROVE IInv' /\ Grows
  BY <1>5, RevokeInv
<1>6. CASE NextMonth \/ UNCHANGED vars
  <2>1. month' \in Months /\ UNCHANGED <<rows, req, answer, begun>>
    BY <1>6, KeyAssumption DEF NextMonth, vars, IInv, TypeOK, Months
  <2>2. Grows BY <2>1 DEF Grows
  <2>3. QED BY <2>1, <2>2, SameInFlight, SameOwned DEF IInv, TypeOK
<1>7. QED BY <1>1, <1>2, <1>3, <1>4, <1>5, <1>6 DEF Next

LEMMA KeysAlways == Spec => []IInv
<1>1. IInv /\ [Next]_vars => IInv' BY KeysNext
<1>2. QED BY KeysInit, <1>1, PTL DEF Spec

-----------------------------------------------------------------------------
(* The theorems.                                                           *)

\* TypeOK: every variable stays within its type; in particular the remainder that
\* GET /api/usage answers is never negative.
THEOREM KeyTypes == Spec => []TypeOK
<1>1. IInv => TypeOK BY DEF IInv
<1>2. QED BY <1>1, KeysAlways, PTL

\* AdmissionsAreOwned: whatever prefixes collide and whatever is revoked while
\* bcrypt compares, a request is admitted as the owner of the key it presents, and
\* only if the key was not revoked when it came.
THEOREM AdmittedAsOwner == Spec => []AdmissionsAreOwned
<1>1. IInv => AdmissionsAreOwned BY DEF IInv, AllOwned, Owned, AdmissionsAreOwned
<1>2. QED BY <1>1, KeysAlways, PTL

\* RevocationIsFinal: no step, the late update of last_used_at included, takes a
\* revocation back or gives a key to another account.
THEOREM RevokedForGood == Spec => RevocationIsFinal
<1>1. IInv /\ [Next]_vars =>
         [\A k \in Keys : rows[k] # None =>
             /\ rows'[k] # None
             /\ rows'[k].owner = rows[k].owner
             /\ rows[k].revoked => rows'[k].revoked]_vars
  BY KeysNext DEF Grows
<1>2. QED BY <1>1, KeysAlways, PTL DEF Spec, RevocationIsFinal

-----------------------------------------------------------------------------
(* The allowance.                                                          *)

\* No key is of a month to come, and no creation began in one.
Past ==
    /\ \A k \in Keys : rows[k] # None => rows[k].month <= month
    /\ \A r \in Requests : req[r] # None => req[r].month <= month

\* The account's keys of a month, and its creations that may still add to them
\* without counting that month again: each has room.
Rows(u, m) == {k \in Keys : rows[k] # None /\ rows[k].owner = u /\ rows[k].month = m}
Owing(u, m) == {r \in Requests :
    /\ req[r] # None /\ req[r].kind = "create" /\ req[r].user = u
    /\ req[r].month < m \/ (req[r].month = m /\ req[r].stage = "save")}
Room(u, m) == Cardinality(Rows(u, m)) + Cardinality(Owing(u, m)) <= Most(Limit[u], Requests)
AllowanceInv == Past /\ \A u \in Users, m \in Months : Room(u, m)

LEMMA AllowanceInit == Init => AllowanceInv
<1>. SUFFICES ASSUME Init PROVE AllowanceInv OBVIOUS
<1>. USE KeyAssumption
<1>1. Past BY DEF Init, Past
<1>2. ASSUME NEW u \in Users, NEW m \in Months PROVE Room(u, m)
  <2>1. Rows(u, m) = {} /\ Owing(u, m) \in SUBSET Requests BY DEF Init, Rows, Owing
  <2>2. Cardinality(Rows(u, m)) = 0 /\ Limit[u] \in Nat BY <2>1, FS_EmptySet
  <2>3. QED BY <2>1, <2>2, Fits DEF Room
<1>3. QED BY <1>1, <1>2 DEF AllowanceInv

LEMMA AllowanceSets ==
    ASSUME IInv, NEW u \in Users, NEW m \in Months
    PROVE  /\ Rows(u, m) \in SUBSET Keys /\ IsFiniteSet(Rows(u, m))
           /\ Owing(u, m) \in SUBSET Requests /\ IsFiniteSet(Owing(u, m))
           /\ Cardinality(Rows(u, m)) \in Nat /\ Cardinality(Owing(u, m)) \in Nat
           /\ Most(Limit[u], Requests) \in Int /\ Limit[u] \in Nat
<1>1. Rows(u, m) \in SUBSET Keys /\ Owing(u, m) \in SUBSET Requests BY DEF Rows, Owing
<1>2. IsFiniteSet(Rows(u, m)) /\ IsFiniteSet(Owing(u, m))
  BY <1>1, FS_Subset, KeyAssumption
<1>3. Cardinality(Requests) \in Nat /\ Limit[u] \in Nat
  BY FS_CardinalityType, KeyAssumption
<1>4. QED BY <1>1, <1>2, <1>3, FS_CardinalityType DEF Most

\* Creations that end leave the room they took.
LEMMA RoomLeft ==
    ASSUME IInv, NEW u \in Users, NEW m \in Months, Room(u, m),
           Rows(u, m)' \subseteq Rows(u, m), Owing(u, m)' \subseteq Owing(u, m)
    PROVE  Room(u, m)'
<1>. DEFINE R == Rows(u, m)'
            O == Owing(u, m)'
<1>1. R \in SUBSET Rows(u, m) /\ O \in SUBSET Owing(u, m) OBVIOUS
<1>2. IsFiniteSet(R) /\ IsFiniteSet(O) BY <1>1, AllowanceSets, FS_Subset
<1>3. Cardinality(R) \in Nat /\ Cardinality(O) \in Nat BY <1>2, FS_CardinalityType
<1>. HIDE DEF R, O
<1>4. Cardinality(R) + Cardinality(O) <= Cardinality(Rows(u, m)) + Cardinality(Owing(u, m))
  BY <1>1, AllowanceSets, Leaves
<1>5. Cardinality(R) + Cardinality(O) <= Most(Limit[u], Requests)
  BY <1>3, <1>4, AllowanceSets DEF Room
<1>6. QED BY <1>5 DEF Room, R, O

\* Steps of requests that create nothing, whatever they mark or revoke, and of
\* creations that end.
LEMMA RoomKept ==
    ASSUME IInv, AllowanceInv, IInv', UNCHANGED month,
           \A k \in Keys : rows'[k] # None =>
               rows[k] # None /\ rows'[k].owner = rows[k].owner /\ rows'[k].month = rows[k].month,
           \A r \in Requests : req'[r] # None /\ req'[r].kind = "create" => req'[r] = req[r],
           \A r \in Requests : req'[r] # None => req'[r].month <= month
    PROVE  AllowanceInv'
<1>1. Past' BY DEF AllowanceInv, Past
<1>2. ASSUME NEW u \in Users, NEW m \in Months PROVE Room(u, m)'
  <2>1. Rows(u, m)' \subseteq Rows(u, m) BY DEF Rows
  <2>2. Owing(u, m)' \subseteq Owing(u, m) BY DEF Owing
  <2>3. QED BY <2>1, <2>2, RoomLeft DEF AllowanceInv
<1>3. QED BY <1>1, <1>2 DEF AllowanceInv

\* A creation that counts less than its limit, and one that ends with 429.
LEMMA RoomCounted ==
    ASSUME IInv, AllowanceInv, NEW r \in Requests, CountKeys(r)
    PROVE  AllowanceInv'
<1>1. /\ req[r] # None /\ req[r].kind = "create" /\ req[r].stage = "db"
      /\ UNCHANGED <<month, rows>>
  BY DEF CountKeys, At
<1>2. req \in [Requests -> Request \cup {None}] /\ req[r] \in Request
  BY <1>1 DEF IInv, TypeOK
<1>. DEFINE q == [req[r] EXCEPT !.stage = "save"]
<1>3. req' = [req EXCEPT ![r] = None]
      \/ /\ ~Reached(Counted(req[r].user, req[r].month), req[r].user)
         /\ req' = [req EXCEPT ![r] = q]
  BY DEF CountKeys, End, To
<1>4. q.month = req[r].month /\ q.user = req[r].user /\ q.kind = "create"
  BY <1>1, <1>2 DEF Request
<1>. HIDE DEF q
<1>5. \A s \in Requests \ {r} : req'[s] = req[s] BY <1>2, <1>3
<1>6. req'[r] # None => req'[r] = q /\ ~Reached(Counted(req[r].user, req[r].month), req[r].user)
  BY <1>2, <1>3
<1>7. Past' BY <1>1, <1>4, <1>5, <1>6 DEF AllowanceInv, Past
<1>8. ASSUME NEW u \in Users, NEW m \in Months PROVE Room(u, m)'
  <2>1. Rows(u, m)' = Rows(u, m) BY <1>1 DEF Rows
  <2>2. \A s \in Requests \ {r} : s \in Owing(u, m)' => s \in Owing(u, m)
    BY <1>5 DEF Owing
  <2>3. CASE r \notin Owing(u, m)' \/ r \in Owing(u, m)
    <3>1. Owing(u, m)' \subseteq Owing(u, m) BY <2>2, <2>3 DEF Owing
    <3>2. QED BY <2>1, <3>1, RoomLeft DEF AllowanceInv
  <2>4. CASE r \in Owing(u, m)' /\ r \notin Owing(u, m)
    <3>1. req'[r] # None /\ u = req[r].user /\ m = req[r].month
      <4>1. req'[r] # None /\ req'[r].user = u
            /\ (req'[r].month < m \/ req'[r].month = m)
        BY <2>4 DEF Owing
      <4>2. req[r].user = u /\ (req[r].month < m \/ req[r].month = m)
        BY <1>4, <1>6, <4>1
      <4>3. ~(req[r].month < m) BY <1>1, <2>4, <4>2 DEF Owing
      <4>4. QED BY <4>1, <4>2, <4>3
    <3>2. Counted(u, m) = Cardinality(Rows(u, m)) BY DEF Counted, Rows
    <3>3. Cardinality(Rows(u, m)) < Limit[u]
      BY <1>6, <3>1, <3>2, AllowanceSets DEF Reached
    <3>. DEFINE O == Owing(u, m)'
    <3>4. O \in SUBSET Requests BY DEF Owing
    <3>. HIDE DEF O
    <3>5. Cardinality(Rows(u, m)) + Cardinality(O) <= Most(Limit[u], Requests)
      BY <3>3, <3>4, AllowanceSets, Fits, KeyAssumption
    <3>6. QED BY <2>1, <3>5 DEF Room, O
  <2>5. QED BY <2>3, <2>4
<1>9. QED BY <1>7, <1>8 DEF AllowanceInv

\* The month is fixed as the creation begins: no key is of a later one.
LEMMA RoomBegun ==
    ASSUME IInv, AllowanceInv, NEW r \in Requests, NEW kind, NEW user, NEW key,
           Begin(r, kind, user, key)
    PROVE  AllowanceInv'
<1>. DEFINE q == [kind |-> kind, stage |-> "db", user |-> user, key |-> key,
                  month |-> month, row |-> None, read |-> None, count |-> 0,
                  late |-> key # None /\ rows[key] # None /\ rows[key].revoked]
<1>1. req' = [req EXCEPT ![r] = q] /\ UNCHANGED <<month, rows>> BY DEF Begin
<1>2. q.stage = "db" /\ q.month = month OBVIOUS
<1>. HIDE DEF q
<1>3. req'[r] = q /\ \A s \in Requests \ {r} : req'[s] = req[s]
  BY <1>1 DEF IInv, TypeOK
<1>4. month \in Nat BY DEF IInv, TypeOK, Months
<1>5. Past' BY <1>1, <1>2, <1>3, <1>4 DEF AllowanceInv, Past
<1>6. ASSUME NEW u \in Users, NEW m \in Months PROVE Room(u, m)'
  <2>1. Rows(u, m)' = Rows(u, m) BY <1>1 DEF Rows
  <2>2. m \in Nat BY DEF Months
  <2>3. CASE m <= month
    <3>1. r \notin Owing(u, m)' BY <1>2, <1>3, <1>4, <2>2, <2>3 DEF Owing
    <3>2. Owing(u, m)' \subseteq Owing(u, m) BY <1>3, <3>1 DEF Owing
    <3>3. QED BY <2>1, <3>2, RoomLeft DEF AllowanceInv
  <2>4. CASE ~(m <= month)
    <3>1. Rows(u, m) = {}
      <4>1. ASSUME NEW k \in Keys, rows[k] # None PROVE rows[k].month # m
        <5>1. rows[k].month <= month BY <4>1 DEF AllowanceInv, Past
        <5>2. QED BY <2>4, <5>1
      <4>2. QED BY <4>1 DEF Rows
    <3>. DEFINE O == Owing(u, m)'
    <3>2. O \in SUBSET Requests BY DEF Owing
    <3>. HIDE DEF O
    <3>3. Cardinality(Rows(u, m)) = 0 BY <3>1, FS_EmptySet
    <3>4. Cardinality(Rows(u, m)) + Cardinality(O) <= Most(Limit[u], Requests)
      BY <3>2, <3>3, AllowanceSets, Fits, KeyAssumption
    <3>5. QED BY <2>1, <3>4 DEF Room, O
  <2>5. QED BY <2>3, <2>4
<1>7. QED BY <1>5, <1>6 DEF AllowanceInv

\* An insert adds a key of the month that runs, which the creation owed.
LEMMA RoomPaid ==
    ASSUME IInv, AllowanceInv, NEW r \in Requests, NEW k \in Keys, Save(r, k)
    PROVE  AllowanceInv'
<1>. DEFINE row == [owner |-> req[r].user, month |-> month, revoked |-> FALSE, used |-> FALSE]
<1>1. /\ req[r] # None /\ req[r].kind = "create" /\ req[r].stage = "save"
      /\ rows' = [rows EXCEPT ![k] = row] /\ req' = [req EXCEPT ![r] = None]
      /\ UNCHANGED month
  BY DEF Save, At, End
<1>2. row.owner = req[r].user /\ row.month = month OBVIOUS
<1>. HIDE DEF row
<1>3. /\ rows'[k] = row /\ \A j \in Keys \ {k} : rows'[j] = rows[j]
      /\ req'[r] = None /\ \A s \in Requests \ {r} : req'[s] = req[s]
  BY <1>1 DEF IInv, TypeOK
<1>4. month \in Nat /\ req[r].month <= month /\ req[r].month \in Nat
  BY <1>1 DEF IInv, TypeOK, Months, Request, AllowanceInv, Past
<1>5. Past' BY <1>1, <1>2, <1>3, <1>4 DEF AllowanceInv, Past
<1>6. ASSUME NEW u \in Users, NEW m \in Months PROVE Room(u, m)'
  <2>1. Owing(u, m)' \subseteq Owing(u, m) \ {r} BY <1>3 DEF Owing
  <2>2. Rows(u, m)' \subseteq Rows(u, m) \cup {k} BY <1>3 DEF Rows
  <2>3. CASE u = req[r].user /\ m = month
    <3>1. r \in Owing(u, m) BY <1>1, <1>4, <2>3 DEF Owing
    <3>. DEFINE R == Rows(u, m)'
                O == Owing(u, m)'
    <3>2. /\ R \in SUBSET (Rows(u, m) \cup {k}) /\ O \in SUBSET (Owing(u, m) \ {r})
          /\ R \in SUBSET Keys /\ O \in SUBSET Requests
      BY <2>1, <2>2 DEF Rows, Owing
    <3>. HIDE DEF R, O
    <3>3. Cardinality(R) + Cardinality(O)
            <= Cardinality(Rows(u, m)) + Cardinality(Owing(u, m))
      BY <3>1, <3>2, AllowanceSets, Pays
    <3>4. Cardinality(R) \in Nat /\ Cardinality(O) \in Nat
      BY <3>2, FS_Subset, FS_CardinalityType, KeyAssumption
    <3>5. Cardinality(R) + Cardinality(O) <= Most(Limit[u], Requests)
      BY <3>3, <3>4, AllowanceSets DEF AllowanceInv, Room
    <3>6. QED BY <3>5 DEF Room, R, O
  <2>4. CASE u # req[r].user \/ m # month
    <3>1. k \notin Rows(u, m)' BY <1>2, <1>3, <2>4 DEF Rows
    <3>2. QED BY <2>1, <2>2, <3>1, RoomLeft DEF AllowanceInv
  <2>5. QED BY <2>3, <2>4
<1>7. QED BY <1>5, <1>6 DEF AllowanceInv

LEMMA AllowanceStep == IInv /\ AllowanceInv /\ [Next]_vars => AllowanceInv'
<1>. SUFFICES ASSUME IInv, AllowanceInv, [Next]_vars PROVE AllowanceInv' OBVIOUS
<1>1. IInv' BY KeysNext
<1>2. /\ req \in [Requests -> Request \cup {None}] /\ rows \in [Keys -> Row \cup {None}]
      /\ month \in Nat /\ Past
  BY DEF IInv, TypeOK, Months, AllowanceInv
<1>3. ASSUME NEW r \in Requests, NEW x, req' = [req EXCEPT ![r] = x],
             x.kind # "create", x.month <= month, UNCHANGED <<month, rows>>
      PROVE  AllowanceInv'
  <2>1. req'[r] = x /\ \A s \in Requests \ {r} : req'[s] = req[s] BY <1>2, <1>3
  <2>2. \A s \in Requests : req'[s] # None /\ req'[s].kind = "create" => req'[s] = req[s]
    BY <1>3, <2>1
  <2>3. \A s \in Requests : req'[s] # None => req'[s].month <= month
    BY <1>2, <1>3, <2>1 DEF Past
  <2>4. QED BY <1>1, <1>3, <2>2, <2>3, RoomKept
<1>4. ASSUME NEW r \in Requests, req' = [req EXCEPT ![r] = None], UNCHANGED month,
             \A k \in Keys : rows'[k] # None =>
                rows[k] # None /\ rows'[k].owner = rows[k].owner /\ rows'[k].month = rows[k].month
      PROVE  AllowanceInv'
  <2>1. \A s \in Requests : req'[s] # None => req[s] # None /\ req'[s] = req[s] BY <1>2, <1>4
  <2>2. \A s \in Requests : req'[s] # None => req'[s].month <= month BY <1>2, <2>1 DEF Past
  <2>3. QED BY <1>1, <1>4, <2>1, <2>2, RoomKept
<1>5. ASSUME NEW r \in Requests, Find(r) \/ Compare(r) \/ CountUsage(r) \/ Summarise(r)
      PROVE  AllowanceInv'
  <2>1. req[r] # None /\ req[r].kind \in {"validate", "usage"} /\ UNCHANGED <<month, rows>>
    BY <1>5 DEF Find, Compare, CountUsage, Summarise, At
  <2>2. req[r] \in Request /\ req[r].month <= month BY <1>2, <2>1 DEF Past
  <2>3. CASE req' = [req EXCEPT ![r] = None]
    <3>1. \A k \in Keys : rows'[k] # None =>
             rows[k] # None /\ rows'[k].owner = rows[k].owner /\ rows'[k].month = rows[k].month
      BY <2>1
    <3>2. month' = month BY <2>1
    <3>3. QED BY <1>4, <2>3, <3>1, <3>2
  <2>4. ASSUME NEW j, req' = [req EXCEPT ![r].stage = "bcrypt", ![r].row = j, ![r].read = rows[j]]
        PROVE  AllowanceInv'
    <3>. DEFINE x == [req[r] EXCEPT !.stage = "bcrypt", !.row = j, !.read = rows[j]]
    <3>1. req' = [req EXCEPT ![r] = x] BY <2>4
    <3>2. x.kind # "create" /\ x.month = req[r].month BY <2>1, <2>2 DEF Request
    <3>. HIDE DEF x
    <3>3. QED BY <1>3, <2>1, <2>2, <3>1, <3>2
  <2>5. CASE req' = [req EXCEPT ![r].kind = "mark", ![r].stage = "save"]
    <3>. DEFINE x == [req[r] EXCEPT !.kind = "mark", !.stage = "save"]
    <3>1. req' = [req EXCEPT ![r] = x] BY <2>5
    <3>2. x.kind # "create" /\ x.month = req[r].month BY <2>2 DEF Request
    <3>. HIDE DEF x
    <3>3. QED BY <1>3, <2>1, <2>2, <3>1, <3>2
  <2>6. CASE CountUsage(r)
    <3>. DEFINE n == Counted(req[r].user, month)
                x == [req[r] EXCEPT !.stage = "save", !.month = month, !.count = n]
    <3>1. req' = [req EXCEPT ![r] = x] BY <2>6 DEF CountUsage
    <3>. HIDE DEF n
    <3>2. x.kind # "create" /\ x.month = month BY <2>1, <2>2 DEF Request
    <3>. HIDE DEF x
    <3>3. x.month <= month BY <1>2, <3>2
    <3>4. QED BY <1>3, <2>1, <3>1, <3>2, <3>3
  <2>7. QED BY <1>5, <2>3, <2>4, <2>5, <2>6 DEF Find, Compare, Summarise, End
<1>6. ASSUME NEW r \in Requests, MarkUsed(r) PROVE AllowanceInv'
  <2>. DEFINE k == req[r].row
              row == [rows[k] EXCEPT !.used = TRUE]
  <2>1. /\ req[r] # None /\ req[r].kind = "mark" /\ UNCHANGED month
        /\ rows' = rows \/ rows' = [rows EXCEPT ![k] = row]
        /\ req' = [req EXCEPT ![r] = None]
    BY <1>6 DEF MarkUsed, At, Marked
  <2>2. k \in Keys /\ rows[k] # None BY <2>1 DEF IInv, InFlight, Shape, Placed, Found
  <2>3. rows[k] \in Row BY <1>2, <2>2
  <2>4. row.owner = rows[k].owner /\ row.month = rows[k].month BY <2>3 DEF Row
  <2>. HIDE DEF row, k
  <2>5. QED BY <1>2, <1>4, <2>1, <2>2, <2>4
<1>7. ASSUME NEW u \in Users, NEW k \in Keys, Revoke(u, k) PROVE AllowanceInv'
  <2>. DEFINE row == [rows[k] EXCEPT !.revoked = TRUE]
  <2>1. rows[k] # None /\ rows' = [rows EXCEPT ![k] = row] /\ UNCHANGED <<month, req>>
    BY <1>7 DEF Revoke
  <2>2. rows[k] \in Row BY <1>2, <2>1
  <2>3. row.owner = rows[k].owner /\ row.month = rows[k].month BY <2>2 DEF Row
  <2>. HIDE DEF row
  <2>4. \A j \in Keys : rows'[j] # None =>
           rows[j] # None /\ rows'[j].owner = rows[j].owner /\ rows'[j].month = rows[j].month
    BY <1>2, <2>1, <2>3
  <2>5. \A s \in Requests : req'[s] # None => req'[s].month <= month BY <1>2, <2>1 DEF Past
  <2>6. QED BY <1>1, <2>1, <2>4, <2>5, RoomKept
<1>8. CASE NextMonth \/ UNCHANGED vars
  <2>1. UNCHANGED <<rows, req>> /\ (month' = month \/ month' = month + 1)
    BY <1>8 DEF NextMonth, vars
  <2>2. \A k \in Keys : rows[k] # None => rows[k].month \in Nat BY <1>2 DEF Row, Months
  <2>3. \A s \in Requests : req[s] # None => req[s].month \in Nat BY <1>2 DEF Request, Months
  <2>4. Past' BY <1>2, <2>1, <2>2, <2>3 DEF Past
  <2>5. ASSUME NEW u \in Users, NEW m \in Months PROVE Room(u, m)'
    BY <2>1 DEF AllowanceInv, Room, Rows, Owing
  <2>6. QED BY <2>4, <2>5 DEF AllowanceInv
<1>9. QED BY <1>5, <1>6, <1>7, <1>8, RoomBegun, RoomCounted, RoomPaid DEF Next

\* KeyOvershootBounded: a creation counts, hashes for a long time and inserts; the
\* allowance is passed by fewer keys than requests can be in flight at once, across
\* a month's end too.
THEOREM KeyOvershoot == Spec => []KeyOvershootBounded
<1>1. IInv /\ AllowanceInv /\ [Next]_vars => (IInv /\ AllowanceInv)'
  BY KeysNext, AllowanceStep
<1>2. IInv /\ AllowanceInv => KeyOvershootBounded
  <2>1. ASSUME IInv, AllowanceInv, NEW u \in Users, NEW m \in Months
        PROVE  Counted(u, m) <= (IF Limit[u] = 0 THEN 1 ELSE Limit[u])
                                   + Cardinality(Requests) - 1
    <3>1. Counted(u, m) = Cardinality(Rows(u, m)) BY DEF Counted, Rows
    <3>2. Cardinality(Rows(u, m)) <= Most(Limit[u], Requests)
      BY <2>1, AllowanceSets DEF AllowanceInv, Room
    <3>3. QED BY <3>1, <3>2 DEF Most
  <2>2. QED BY <2>1 DEF KeyOvershootBounded
<1>3. QED BY KeysInit, AllowanceInit, <1>1, <1>2, PTL DEF Spec
=============================================================================
