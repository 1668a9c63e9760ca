-------------------------- MODULE LinkCreationProofs --------------------------
(***************************************************************************)
(* Theorems about LinkCreation, for every number of accounts, slugs and    *)
(* concurrent creations: the transaction keeps links and outbox together,  *)
(* a request makes one link at most, a link is never replaced, the         *)
(* allowance is passed by fewer links than creations can be in flight, and *)
(* the whole implements LinkRegistry.                                      *)
(***************************************************************************)
EXTENDS LinkCreation, AllowanceProofs

\* What a transaction has written at each stage, and the slug it has by then.
Written(stage) ==
    IF stage = "commit" THEN {"link", "outbox"} ELSE IF stage = "outbox" THEN {"link"} ELSE {}
Shaped(c) ==
    /\ tx[c].pending = Written(tx[c].stage)
    /\ tx[c].stage \in {"insert", "outbox", "commit"} => tx[c].slug \in Slugs
Shapes == \A c \in Creations : tx[c] # None => Shaped(c)

TypeInv == TypeOK /\ Shapes

\* A creation that is still in flight has made nothing.
NothingMadeYet ==
    \A c \in Creations : IF tx[c] = None THEN made[c] <= 1 ELSE made[c] = 0

\* An uncommitted link row holds its slug: it is free, and nobody else's.
Holds(c) == tx[c] # None /\ tx[c].stage \in {"outbox", "commit"}
SlugsHeld ==
    \A c \in Creations : Holds(c) =>
        /\ links[tx[c].slug] = None
        /\ \A d \in Creations \ {c} : Holds(d) => tx[d].slug # tx[c].slug

CreationInv == NothingMadeYet /\ SlugsHeld /\ OutboxComplete

-----------------------------------------------------------------------------
LEMMA CreationInit == Init => TypeInv /\ CreationInv
BY CreationAssumption
   DEF Init, TypeInv, TypeOK, Shapes, CreationInv, NothingMadeYet, SlugsHeld, Holds,
       OutboxComplete, Months

\* A creation that ends, and one that goes on.
LEMMA EndedTypes ==
    ASSUME TypeInv, NEW c \in Creations, tx' = [tx EXCEPT ![c] = None]
    PROVE  tx' \in [Creations -> Tx \cup {None}] /\ Shapes'
BY DEF TypeInv, TypeOK, Shapes, Shaped

LEMMA MovedTypes ==
    ASSUME TypeInv, NEW c \in Creations, NEW record \in Tx,
           record.pending = Written(record.stage),
           record.stage \in {"insert", "outbox", "commit"} => record.slug \in Slugs,
           tx' = [tx EXCEPT ![c] = record]
    PROVE  tx' \in [Creations -> Tx \cup {None}] /\ Shapes'
<1>. USE DEF TypeInv, TypeOK
<1>1. tx' \in [Creations -> Tx \cup {None}] OBVIOUS
<1>2. ASSUME NEW d \in Creations, tx'[d] # None PROVE Shaped(d)'
  <2>1. CASE d = c
    <3>1. tx'[d] = record BY <2>1
    <3>2. QED BY <3>1 DEF Shaped
  <2>2. CASE d # c
    <3>1. tx'[d] = tx[d] BY <2>2
    <3>2. Shaped(d) BY <1>2, <3>1 DEF Shapes
    <3>3. QED BY <3>1, <3>2 DEF Shaped
  <2>3. QED BY <2>1, <2>2
<1>3. QED BY <1>1, <1>2 DEF Shapes

\* What the actions do to the transaction that takes the step.
LEMMA Moves ==
    ASSUME TypeInv, NEW c \in Creations, tx[c] # None
    PROVE  /\ \A d \in Creations : d # c => tx[d] \in Tx \cup {None}
           /\ Count(c) => tx' = [tx EXCEPT ![c] = None]
                \/ tx' = [tx EXCEPT ![c] = [tx[c] EXCEPT !.stage = "attempt"]]
           /\ Insert(c) =>
                tx' = [tx EXCEPT ![c] = [tx[c] EXCEPT !.stage = "outbox",
                                                      !.pending = {"link"}]]
           /\ Conflict(c) => tx' = [tx EXCEPT ![c] = None]
                \/ /\ tx[c].attempts + 1 # MaxSlugRetries
                   /\ tx' = [tx EXCEPT ![c] = [tx[c] EXCEPT !.stage = "attempt",
                                                 !.attempts = tx[c].attempts + 1]]
           /\ SaveOutbox(c) =>
                tx' = [tx EXCEPT ![c] = [tx[c] EXCEPT !.stage = "commit",
                                   !.pending = tx[c].pending \cup {"outbox"}]]
BY DEF TypeInv, TypeOK, Count, Insert, Conflict, SaveOutbox, Ended, Retried

\* The rows an attempt publishes keep the tables well typed.
LEMMA PublishTypes ==
    ASSUME TypeInv, NEW c \in Creations, tx[c] # None, NEW rows, Publish(c, rows),
           "link" \in rows \/ "outbox" \in rows => tx[c].slug \in Slugs
    PROVE  /\ links' \in [Slugs -> Link \cup {None}] /\ outbox' \in [Slugs -> Nat]
           /\ created' \in [Slugs -> Nat] /\ made' \in [Creations -> Nat]
<1>1. TypeOK BY DEF TypeInv
<1>2. tx[c] \in Tx BY <1>1 DEF TypeOK
<1>3. [owner |-> tx[c].user, month |-> tx[c].at] \in Link BY <1>2 DEF Tx, Link
<1>4. QED BY <1>1, <1>3 DEF Publish, TypeOK

LEMMA StepTypes ==
    ASSUME TypeInv, NEW c \in Creations, CreationStep(c)
    PROVE  TypeInv'
<1>. USE CreationAssumption
<1>0. TypeOK /\ Shapes BY DEF TypeInv
<1>1. tx[c] # None
  BY DEF CreationStep, Proceed, Count, Attempt, Insert, Conflict, SaveOutbox, Commit,
         CommitReplyLost, Fail, At
<1>2. tx[c] \in Tx /\ Shaped(c) BY <1>0, <1>1 DEF TypeOK, Shapes
<1>3. ASSUME NEW record \in Tx,
             record.pending = Written(record.stage),
             record.stage \in {"insert", "outbox", "commit"} => record.slug \in Slugs,
             tx' = [tx EXCEPT ![c] = record],
             UNCHANGED <<month, links, outbox, begun, created, made>>
      PROVE  TypeInv'
  <2>1. tx' \in [Creations -> Tx \cup {None}] /\ Shapes' BY <1>3, MovedTypes
  <2>2. QED BY <1>0, <1>3, <2>1 DEF TypeInv, TypeOK
<1>4. ASSUME tx' = [tx EXCEPT ![c] = None],
             UNCHANGED <<month, links, outbox, begun, created, made>>
      PROVE  TypeInv'
  <2>1. tx' \in [Creations -> Tx \cup {None}] /\ Shapes' BY <1>4, EndedTypes
  <2>2. QED BY <1>0, <1>4, <2>1 DEF TypeInv, TypeOK
<1>5. ASSUME NEW rows \in {{}, tx[c].pending}, Publish(c, rows),
             tx' = [tx EXCEPT ![c] = None], UNCHANGED <<month, begun>>
      PROVE  TypeInv'
  <2>1. "link" \in rows \/ "outbox" \in rows => tx[c].slug \in Slugs
    BY <1>2, <1>5 DEF Shaped, Written
  <2>2. /\ links' \in [Slugs -> Link \cup {None}] /\ outbox' \in [Slugs -> Nat]
        /\ created' \in [Slugs -> Nat] /\ made' \in [Creations -> Nat]
    BY <1>1, <1>5, <2>1, PublishTypes
  <2>3. tx' \in [Creations -> Tx \cup {None}] /\ Shapes' BY <1>5, EndedTypes
  <2>4. QED BY <1>0, <1>5, <2>2, <2>3 DEF TypeInv, TypeOK
<1>6. CASE Count(c)
  <2>. DEFINE x == [tx[c] EXCEPT !.stage = "attempt"]
  <2>1. x \in Tx /\ x.stage = "attempt" /\ x.pending = Written("attempt")
    BY <1>2, <1>6 DEF Count, At, Tx, Shaped, Written
  <2>2. tx' = [tx EXCEPT ![c] = None] \/ tx' = [tx EXCEPT ![c] = x]
    BY <1>1, <1>6, Moves
  <2>3. UNCHANGED <<month, links, outbox, begun, created, made>> BY <1>6 DEF Count
  <2>. HIDE DEF x
  <2>4. QED BY <1>3, <1>4, <2>1, <2>2, <2>3
<1>7. CASE \E s \in Slugs : Attempt(c, s)
  <2>1. PICK s \in Slugs : Attempt(c, s) BY <1>7
  <2>. DEFINE x == [[[tx[c] EXCEPT !.stage = "insert"] EXCEPT !.slug = s] EXCEPT !.at = month]
  <2>2. /\ x \in Tx /\ x.stage = "insert" /\ x.pending = tx[c].pending /\ x.slug = s
    BY <1>0, <1>2 DEF TypeOK, Tx
  <2>3. tx[c].pending = Written("insert") BY <1>2, <2>1 DEF Attempt, At, Shaped, Written
  <2>4. tx' = [tx EXCEPT ![c] = x] BY <1>0, <2>1 DEF Attempt, TypeOK
  <2>5. UNCHANGED <<month, links, outbox, begun, created, made>> BY <2>1 DEF Attempt
  <2>. HIDE DEF x
  <2>6. QED BY <1>3, <2>2, <2>3, <2>4, <2>5
<1>8. CASE Insert(c)
  <2>. DEFINE x == [tx[c] EXCEPT !.stage = "outbox", !.pending = {"link"}]
  <2>1. x \in Tx /\ x.stage = "outbox" /\ x.pending = {"link"} /\ x.slug = tx[c].slug
    BY <1>2 DEF Tx
  <2>2. x.pending = Written("outbox") /\ x.slug \in Slugs
    BY <1>2, <1>8, <2>1 DEF Insert, At, Shaped, Written
  <2>3. tx' = [tx EXCEPT ![c] = x] BY <1>1, <1>8, Moves
  <2>4. UNCHANGED <<month, links, outbox, begun, created, made>> BY <1>8 DEF Insert
  <2>. HIDE DEF x
  <2>5. QED BY <1>3, <2>1, <2>2, <2>3, <2>4
<1>9. CASE Conflict(c)
  <2>1. UNCHANGED <<month, links, outbox, begun, created, made>> BY <1>9 DEF Conflict
  <2>2. CASE tx' = [tx EXCEPT ![c] = None] BY <1>4, <2>1, <2>2
  <2>3. CASE /\ tx[c].attempts + 1 # MaxSlugRetries
             /\ tx' = [tx EXCEPT ![c] = [tx[c] EXCEPT !.stage = "attempt",
                                           !.attempts = tx[c].attempts + 1]]
    <3>. DEFINE x == [tx[c] EXCEPT !.stage = "attempt", !.attempts = tx[c].attempts + 1]
    <3>1. tx[c].attempts + 1 \in 0 .. MaxSlugRetries - 1 BY <1>2, <2>3 DEF Tx
    <3>2. x \in Tx /\ x.stage = "attempt" /\ x.pending = tx[c].pending
      BY <1>2, <3>1 DEF Tx
    <3>3. tx[c].pending = Written("attempt") BY <1>2, <1>9 DEF Conflict, At, Shaped, Written
    <3>4. tx' = [tx EXCEPT ![c] = x] BY <2>3
    <3>. HIDE DEF x
    <3>5. QED BY <1>3, <2>1, <3>2, <3>3, <3>4
  <2>4. QED BY <1>1, <1>9, <2>2, <2>3, Moves
<1>10. CASE SaveOutbox(c)
  <2>. DEFINE x == [tx[c] EXCEPT !.stage = "commit",
                                 !.pending = tx[c].pending \cup {"outbox"}]
  <2>1. tx[c].pending = {"link"} /\ tx[c].slug \in Slugs
    BY <1>2, <1>10 DEF SaveOutbox, At, Shaped, Written
  <2>2. /\ x \in Tx /\ x.stage = "commit" /\ x.slug = tx[c].slug
        /\ x.pending = Written("commit")
    BY <1>2, <2>1 DEF Tx, Written
  <2>3. tx' = [tx EXCEPT ![c] = x] BY <1>1, <1>10, Moves
  <2>4. UNCHANGED <<month, links, outbox, begun, created, made>> BY <1>10 DEF SaveOutbox
  <2>. HIDE DEF x
  <2>5. QED BY <1>3, <2>1, <2>2, <2>3, <2>4
<1>11. CASE Commit(c) BY <1>5, <1>11 DEF Commit, Ended
<1>12. CASE CommitReplyLost(c) BY <1>5, <1>12 DEF CommitReplyLost, Rethrown, Ended
<1>13. CASE Fail(c) BY <1>5, <1>13 DEF Fail, Kept, Ended
<1>14. QED
  BY <1>6, <1>7, <1>8, <1>9, <1>10, <1>11, <1>12, <1>13 DEF CreationStep, Proceed

LEMMA TypeStep == TypeInv /\ [Next]_vars => TypeInv'
<1>. SUFFICES ASSUME TypeInv, [Next]_vars PROVE TypeInv'
  OBVIOUS
<1>. USE CreationAssumption
<1>0. TypeOK /\ Shapes BY DEF TypeInv
<1>1. CASE \E c \in Creations, u \in Actors : Begin(c, u)
  <2>1. PICK c \in Creations, u \in Actors : Begin(c, u) BY <1>1
  <2>. DEFINE x == [user |-> u, month |-> month,
                    stage |-> IF u = Guest THEN "attempt" ELSE "count",
                    attempts |-> 0, slug |-> None, at |-> month, pending |-> {}]
  <2>2. x \in Tx /\ x.stage \in {"attempt", "count"} /\ x.pending = Written(x.stage)
    BY <1>0 DEF TypeOK, Tx, Written
  <2>3. tx' = [tx EXCEPT ![c] = x] BY <2>1 DEF Begin
  <2>4. tx' \in [Creations -> Tx \cup {None}] /\ Shapes'
    <3>. HIDE DEF x
    <3>1. QED BY <2>2, <2>3, MovedTypes
  <2>5. QED BY <1>0, <2>1, <2>4 DEF Begin, TypeInv, TypeOK
<1>2. CASE \E s \in Slugs : Delete(s)
  BY <1>0, <1>2 DEF Delete, TypeInv, TypeOK, Shapes, Shaped
<1>3. CASE NextMonth
  <2>1. month' \in Months BY <1>0, <1>3 DEF NextMonth, TypeOK, Months
  <2>2. QED BY <1>0, <1>3, <2>1 DEF NextMonth, TypeInv, TypeOK, Shapes, Shaped
<1>4. CASE UNCHANGED vars
  BY <1>0, <1>4 DEF vars, TypeInv, TypeOK, Shapes, Shaped
<1>5. QED BY <1>1, <1>2, <1>3, <1>4, StepTypes DEF Next

\* The type invariant of creations; in particular the retry loop of
\* retryOnSlugConflict makes MaxSlugRetries attempts at most.
THEOREM CreationTypes == Spec => []TypeOK
<1>1. Init => TypeInv BY CreationInit
<1>2. TypeInv => TypeOK BY DEF TypeInv
<1>3. QED BY <1>1, <1>2, TypeStep, PTL DEF Spec

-----------------------------------------------------------------------------
\* A row that is held has been written and not committed: an INSERT of its slug
\* waits.
LEMMA HeldIsPending ==
    ASSUME TypeInv, NEW c \in Creations, Holds(c)
    PROVE  tx[c].slug \in Slugs /\ "link" \in tx[c].pending
BY DEF Holds, TypeInv, Shapes, Shaped, Written

\* A step that publishes nothing and lets nobody hold a new slug.
LEMMA NothingPublished ==
    ASSUME CreationInv, UNCHANGED <<links, outbox, created, made>>,
           \A c \in Creations : tx'[c] # None => tx[c] # None,
           \A c \in Creations : Holds(c)' => Holds(c) /\ tx'[c].slug = tx[c].slug
    PROVE  CreationInv'
BY DEF CreationInv, NothingMadeYet, SlugsHeld, OutboxComplete

\* The step that ends a creation, with its rows or without.
LEMMA EndInv ==
    ASSUME TypeInv, CreationInv, NEW c \in Creations, tx[c] # None,
           NEW rows \in {{}, {"link", "outbox"}}, Publish(c, rows),
           rows # {} => Holds(c),
           tx' = [tx EXCEPT ![c] = None]
    PROVE  /\ CreationInv'
           /\ \A s \in Slugs : links[s] # None => links'[s] = links[s]
<1>1. TypeOK /\ NothingMadeYet /\ SlugsHeld /\ OutboxComplete BY DEF TypeInv, CreationInv
<1>2. /\ tx'[c] = None /\ \A d \in Creations \ {c} : tx'[d] = tx[d]
  BY <1>1 DEF TypeOK
<1>3. \A d \in Creations : Holds(d)' => d # c /\ Holds(d) /\ tx'[d].slug = tx[d].slug
  BY <1>2 DEF Holds
<1>4. made[c] = 0 BY <1>1 DEF NothingMadeYet
<1>5. CASE rows = {}
  <2>1. UNCHANGED <<links, outbox, created, made>> BY <1>5 DEF Publish
  <2>2. \A d \in Creations : IF tx'[d] = None THEN made[d] <= 1 ELSE made[d] = 0
    BY <1>1, <1>2, <1>4 DEF NothingMadeYet
  <2>3. NothingMadeYet' BY <2>1, <2>2 DEF NothingMadeYet
  <2>4. SlugsHeld' BY <1>1, <1>3, <2>1 DEF SlugsHeld
  <2>5. OutboxComplete' BY <1>1, <2>1 DEF OutboxComplete
  <2>6. QED BY <2>1, <2>3, <2>4, <2>5 DEF CreationInv
<1>6. CASE rows = {"link", "outbox"}
  <2>. DEFINE s == tx[c].slug
  <2>1. Holds(c) /\ s \in Slugs BY <1>6, HeldIsPending
  <2>2. /\ links' = [links EXCEPT ![s] = [owner |-> tx[c].user, month |-> tx[c].at]]
        /\ created' = [created EXCEPT ![s] = created[s] + 1]
        /\ outbox' = [outbox EXCEPT ![s] = outbox[s] + 1]
        /\ made' = [made EXCEPT ![c] = made[c] + 1]
    BY <1>6 DEF Publish
  <2>3. \A t \in Slugs : t # s => links'[t] = links[t] BY <1>1, <2>2 DEF TypeOK
  <2>4. links[s] = None /\ \A d \in Creations \ {c} : Holds(d) => tx[d].slug # s
    BY <1>1, <2>1 DEF SlugsHeld
  <2>5. NothingMadeYet'
    <3>1. made'[c] = 1 BY <1>1, <1>4, <2>2 DEF TypeOK
    <3>2. \A d \in Creations \ {c} : made'[d] = made[d] BY <1>1, <2>2 DEF TypeOK
    <3>3. QED BY <1>1, <1>2, <3>1, <3>2 DEF NothingMadeYet
  <2>6. SlugsHeld'
    <3>1. ASSUME NEW d \in Creations, Holds(d)'
          PROVE  /\ links'[tx'[d].slug] = None
                 /\ \A e \in Creations \ {d} : Holds(e)' => tx'[e].slug # tx'[d].slug
      <4>1. d # c /\ Holds(d) /\ tx'[d].slug = tx[d].slug BY <1>3, <3>1
      <4>2. tx[d].slug \in Slugs /\ tx[d].slug # s BY <2>4, <4>1, HeldIsPending
      <4>3. links[tx[d].slug] = None BY <1>1, <4>1 DEF SlugsHeld
      <4>4. \A e \in Creations \ {d} : Holds(e)' => tx'[e].slug # tx'[d].slug
        BY <1>1, <1>3, <4>1 DEF SlugsHeld
      <4>5. QED BY <2>3, <4>1, <4>2, <4>3, <4>4
    <3>2. QED BY <3>1 DEF SlugsHeld
  <2>7. OutboxComplete' BY <1>1, <2>2 DEF OutboxComplete, TypeOK
  <2>8. \A t \in Slugs : links[t] # None => links'[t] = links[t] BY <2>3, <2>4
  <2>9. QED BY <2>5, <2>6, <2>7, <2>8 DEF CreationInv
<1>7. QED BY <1>5, <1>6

\* One creation's step keeps the invariant and every committed link.
LEMMA StepInv ==
    ASSUME TypeInv, CreationInv, NEW c \in Creations, CreationStep(c)
    PROVE  /\ CreationInv'
           /\ \A s \in Slugs : links[s] # None => links'[s] = links[s]
<1>1. TypeOK /\ NothingMadeYet /\ SlugsHeld /\ OutboxComplete BY DEF TypeInv, CreationInv
<1>2. tx[c] # None
  BY DEF CreationStep, Proceed, Count, Attempt, Insert, Conflict, SaveOutbox, Commit,
         CommitReplyLost, Fail, At
<1>3. tx[c] \in Tx /\ Shaped(c) BY <1>1, <1>2 DEF TypeInv, TypeOK, Shapes
<1>4. ASSUME UNCHANGED <<links, outbox, created, made>>, tx' = [tx EXCEPT ![c] = None]
      PROVE  CreationInv'
  <2>1. Publish(c, {}) BY <1>4 DEF Publish
  <2>2. QED BY <1>2, <1>4, <2>1, EndInv
<1>5. ASSUME NEW record, tx' = [tx EXCEPT ![c] = record],
             record.stage \notin {"outbox", "commit"},
             UNCHANGED <<links, outbox, created, made>>
      PROVE  CreationInv'
  <2>1. tx'[c] = record /\ \A d \in Creations \ {c} : tx'[d] = tx[d]
    BY <1>1, <1>5 DEF TypeOK
  <2>2. \A d \in Creations : tx'[d] # None => tx[d] # None BY <1>2, <2>1
  <2>3. \A d \in Creations : Holds(d)' => Holds(d) /\ tx'[d].slug = tx[d].slug
    BY <1>5, <2>1 DEF Holds
  <2>4. QED BY <1>5, <2>2, <2>3, NothingPublished
<1>6. CASE Count(c)
  <2>. DEFINE x == [tx[c] EXCEPT !.stage = "attempt"]
  <2>1. x.stage = "attempt" BY <1>3 DEF Tx
  <2>2. tx' = [tx EXCEPT ![c] = None] \/ tx' = [tx EXCEPT ![c] = x]
    BY <1>2, <1>6, Moves
  <2>3. UNCHANGED <<links, outbox, created, made>> BY <1>6 DEF Count
  <2>. HIDE DEF x
  <2>4. QED BY <1>4, <1>5, <2>1, <2>2, <2>3
<1>7. CASE \E s \in Slugs : Attempt(c, s)
  <2>1. PICK s \in Slugs : Attempt(c, s) BY <1>7
  <2>. DEFINE x == [[[tx[c] EXCEPT !.stage = "insert"] EXCEPT !.slug = s] EXCEPT !.at = month]
  <2>2. x.stage = "insert" BY <1>3 DEF Tx
  <2>3. tx' = [tx EXCEPT ![c] = x] BY <1>1, <2>1 DEF Attempt, TypeOK
  <2>4. UNCHANGED <<links, outbox, created, made>> BY <2>1 DEF Attempt
  <2>. HIDE DEF x
  <2>5. QED BY <1>5, <2>2, <2>3, <2>4
<1>8. CASE Insert(c)
  <2>. DEFINE x == [tx[c] EXCEPT !.stage = "outbox", !.pending = {"link"}]
               s == tx[c].slug
  <2>1. x # None /\ x.slug = s /\ x.stage = "outbox"
    <3>1. x \in Tx BY <1>3 DEF Tx
    <3>2. QED BY <1>3, <3>1, CreationAssumption DEF Tx
  <2>2. tx' = [tx EXCEPT ![c] = x] BY <1>2, <1>8, Moves
  <2>3. UNCHANGED <<links, outbox, created, made>> BY <1>8 DEF Insert
  <2>4. links[s] = None BY <1>8 DEF Insert, Taken
  <2>5. \A d \in Creations \ {c} : Holds(d) => tx[d].slug # s
    BY <1>8, HeldIsPending DEF Insert, Locked, Holds
  <2>. HIDE DEF x
  <2>6. tx'[c] = x /\ \A d \in Creations \ {c} : tx'[d] = tx[d]
    BY <1>1, <2>2 DEF TypeOK
  <2>7. \A d \in Creations \ {c} : Holds(d)' => Holds(d) BY <2>6 DEF Holds
  <2>8. NothingMadeYet' BY <1>1, <1>2, <2>1, <2>3, <2>6 DEF NothingMadeYet
  <2>9. SlugsHeld'
    <3>1. ASSUME NEW d \in Creations, Holds(d)'
          PROVE  /\ links'[tx'[d].slug] = None
                 /\ \A e \in Creations \ {d} : Holds(e)' => tx'[e].slug # tx'[d].slug
      <4>1. CASE d = c BY <2>1, <2>3, <2>4, <2>5, <2>6, <2>7, <4>1
      <4>2. CASE d # c
        <5>1. Holds(d) /\ tx'[d] = tx[d] /\ tx[d].slug # s BY <2>5, <2>6, <2>7, <3>1, <4>2
        <5>2. links[tx[d].slug] = None BY <1>1, <5>1 DEF SlugsHeld
        <5>3. ASSUME NEW e \in Creations \ {d}, Holds(e)' PROVE tx'[e].slug # tx'[d].slug
          <6>1. CASE e = c BY <2>1, <2>6, <5>1, <6>1
          <6>2. CASE e # c BY <1>1, <2>6, <2>7, <5>1, <5>3, <6>2 DEF SlugsHeld
          <6>3. QED BY <6>1, <6>2
        <5>4. QED BY <2>3, <5>1, <5>2, <5>3
      <4>3. QED BY <4>1, <4>2
    <3>2. QED BY <3>1 DEF SlugsHeld
  <2>10. OutboxComplete' BY <1>1, <2>3 DEF OutboxComplete
  <2>11. QED BY <2>3, <2>8, <2>9, <2>10 DEF CreationInv
<1>9. CASE Conflict(c)
  <2>. DEFINE x == [tx[c] EXCEPT !.stage = "attempt", !.attempts = tx[c].attempts + 1]
  <2>1. x.stage = "attempt" BY <1>3 DEF Tx
  <2>2. tx' = [tx EXCEPT ![c] = None] \/ tx' = [tx EXCEPT ![c] = x]
    BY <1>2, <1>9, Moves
  <2>3. UNCHANGED <<links, outbox, created, made>> BY <1>9 DEF Conflict
  <2>. HIDE DEF x
  <2>4. QED BY <1>4, <1>5, <2>1, <2>2, <2>3
<1>10. CASE SaveOutbox(c)
  <2>. DEFINE x == [tx[c] EXCEPT !.stage = "commit",
                                 !.pending = tx[c].pending \cup {"outbox"}]
  <2>1. x.slug = tx[c].slug BY <1>3 DEF Tx
  <2>2. tx' = [tx EXCEPT ![c] = x] BY <1>2, <1>10, Moves
  <2>3. UNCHANGED <<links, outbox, created, made>> BY <1>10 DEF SaveOutbox
  <2>4. Holds(c) BY <1>10 DEF SaveOutbox, At, Holds
  <2>. HIDE DEF x
  <2>5. tx'[c] = x /\ \A d \in Creations \ {c} : tx'[d] = tx[d]
    BY <1>1, <2>2 DEF TypeOK
  <2>6. \A d \in Creations : tx'[d] # None => tx[d] # None BY <1>2, <2>5
  <2>7. \A d \in Creations : Holds(d)' => Holds(d) /\ tx'[d].slug = tx[d].slug
    BY <2>1, <2>4, <2>5 DEF Holds
  <2>8. QED BY <2>3, <2>6, <2>7, NothingPublished
<1>11. CASE Commit(c) \/ CommitReplyLost(c)
  <2>1. Publish(c, tx[c].pending) /\ tx' = [tx EXCEPT ![c] = None] /\ At(c, "commit")
    BY <1>11 DEF Commit, CommitReplyLost, Rethrown, Ended
  <2>2. tx[c].pending = {"link", "outbox"} /\ Holds(c)
    BY <1>3, <2>1 DEF At, Shaped, Written, Holds
  <2>3. QED BY <1>2, <2>1, <2>2, EndInv
<1>12. CASE Fail(c)
  BY <1>2, <1>12, EndInv DEF Fail, Kept, Ended
<1>13. links' = links \/ Commit(c) \/ CommitReplyLost(c) \/ Fail(c)
  BY DEF CreationStep, Proceed, Count, Attempt, Insert, Conflict, SaveOutbox
<1>14. QED
  BY <1>6, <1>7, <1>8, <1>9, <1>10, <1>11, <1>12, <1>13 DEF CreationStep, Proceed

LEMMA InvStep ==
    ASSUME TypeInv, CreationInv, [Next]_vars
    PROVE  /\ CreationInv'
           /\ \A s \in Slugs : links[s] # None => links'[s] \in {links[s], None}
<1>1. TypeOK /\ NothingMadeYet /\ SlugsHeld /\ OutboxComplete BY DEF TypeInv, CreationInv
<1>2. CASE \E c \in Creations, u \in Actors : Begin(c, u)
  <2>1. PICK c \in Creations, u \in Actors : Begin(c, u) BY <1>2
  <2>2. /\ \A d \in Creations \ {c} : tx'[d] = tx[d] /\ made'[d] = made[d]
        /\ made'[c] = 0 /\ tx'[c].stage \notin {"outbox", "commit"}
        /\ links' = links /\ outbox' = outbox /\ created' = created
    BY <1>1, <2>1 DEF Begin, TypeOK
  <2>3. NothingMadeYet' BY <1>1, <2>2 DEF NothingMadeYet
  <2>4. \A d \in Creations : Holds(d)' => Holds(d) /\ tx'[d].slug = tx[d].slug
    BY <2>2 DEF Holds
  <2>5. SlugsHeld' BY <1>1, <2>2, <2>4 DEF SlugsHeld
  <2>6. OutboxComplete' BY <1>1, <2>2 DEF OutboxComplete
  <2>7. QED BY <2>2, <2>3, <2>5, <2>6 DEF CreationInv
<1>3. CASE \E s \in Slugs : Delete(s)
  <2>1. PICK s \in Slugs : Delete(s) BY <1>3
  <2>2. /\ tx' = tx /\ made' = made /\ outbox' = outbox /\ created' = created
        /\ \A t \in Slugs : links'[t] \in {links[t], None}
    BY <1>1, <2>1 DEF Delete, TypeOK
  <2>3. NothingMadeYet' BY <1>1, <2>2 DEF NothingMadeYet
  <2>4. SlugsHeld'
    <3>1. \A c \in Creations : Holds(c)' <=> Holds(c) BY <2>2 DEF Holds
    <3>2. \A c \in Creations : Holds(c) => tx[c].slug \in Slugs BY HeldIsPending
    <3>3. QED BY <1>1, <2>2, <3>1, <3>2 DEF SlugsHeld
  <2>5. OutboxComplete' BY <1>1, <2>2 DEF OutboxComplete
  <2>6. QED BY <2>2, <2>3, <2>4, <2>5 DEF CreationInv
<1>4. CASE NextMonth \/ UNCHANGED vars
  <2>1. UNCHANGED <<links, outbox, tx, created, made>> BY <1>4 DEF NextMonth, vars
  <2>2. QED BY <2>1, NothingPublished DEF Holds
<1>5. QED BY <1>2, <1>3, <1>4, StepInv DEF Next

LEMMA CreationInvariant == Spec => [](TypeInv /\ CreationInv)
<1>1. TypeInv /\ CreationInv /\ [Next]_vars => (TypeInv /\ CreationInv)'
  BY TypeStep, InvStep
<1>2. QED BY CreationInit, <1>1, PTL DEF Spec

\* tryCreate's transaction: a link and its link_created row appear together, in
\* whatever order statements fail and COMMIT replies get lost.
THEOREM OutboxFollowsLinks == Spec => []OutboxComplete
<1>1. CreationInv => OutboxComplete BY DEF CreationInv
<1>2. QED BY CreationInvariant, <1>1, PTL

\* retryOnSlugConflict retries only what the database rolled back, so one request
\* never makes two links.
THEOREM OneLink == Spec => []OneLinkPerRequest
<1>1. TypeInv /\ CreationInv => OneLinkPerRequest
  BY DEF TypeInv, TypeOK, CreationInv, NothingMadeYet, OneLinkPerRequest
<1>2. QED BY CreationInvariant, <1>1, PTL

\* Creation never takes a slug over from the link that has it.
THEOREM NoReplacement ==
    Spec => [][\A s \in Slugs : links[s] # None => links'[s] \in {links[s], None}]_vars
<1>1. TypeInv /\ CreationInv /\ [Next]_vars =>
         [\A s \in Slugs : links[s] # None => links'[s] \in {links[s], None}]_vars
  BY InvStep
<1>2. QED BY CreationInvariant, <1>1, PTL DEF Spec

-----------------------------------------------------------------------------
(* The allowance.                                                          *)

\* No row is of a month to come, and a creation's row is of no month before the
\* one whose links it counts.
Past ==
    /\ \A s \in Slugs : links[s] # None => links[s].month <= month
    /\ \A c \in Creations : tx[c] # None => tx[c].month <= tx[c].at /\ tx[c].at <= month

\* The account's links of a month, and its creations that may still add to them
\* without counting that month again: each has room.
Rows(u, m) == {s \in Slugs : links[s] # None /\ links[s].owner = u /\ links[s].month = m}
Owing(u, m) == {c \in Creations :
    tx[c] # None /\ tx[c].user = u
    /\ (tx[c].month < m \/ (tx[c].month = m /\ tx[c].stage # "count"))}
Room(u, m) == Cardinality(Rows(u, m)) + Cardinality(Owing(u, m)) <= Most(Limit[u], Creations)
AllowanceInv == Past /\ \A u \in Users, m \in Months : Room(u, m)

LEMMA AllowanceInit == Init => AllowanceInv
<1>. SUFFICES ASSUME Init PROVE AllowanceInv OBVIOUS
<1>. USE CreationAssumption
<1>1. Past BY DEF Init, Past
<1>2. ASSUME NEW u \in Users, NEW m \in Months PROVE Room(u, m)
  <2>1. Rows(u, m) = {} /\ Owing(u, m) \in SUBSET Creations BY DEF Init, Rows, Owing
  <2>2. Cardinality(Rows(u, m)) = 0 /\ Limit[u] \in Nat BY <2>1, FS_EmptySet
  <2>3. QED BY <2>1, <2>2, Fits DEF Room
<1>3. QED BY <1>1, <1>2 DEF AllowanceInv

LEMMA AllowanceSets ==
    ASSUME TypeInv, NEW u \in Users, NEW m \in Months
    PROVE  /\ Rows(u, m) \in SUBSET Slugs /\ IsFiniteSet(Rows(u, m))
           /\ Owing(u, m) \in SUBSET Creations /\ IsFiniteSet(Owing(u, m))
           /\ Cardinality(Rows(u, m)) \in Nat /\ Cardinality(Owing(u, m)) \in Nat
           /\ Most(Limit[u], Creations) \in Int /\ Limit[u] \in Nat
<1>1. Rows(u, m) \in SUBSET Slugs /\ Owing(u, m) \in SUBSET Creations BY DEF Rows, Owing
<1>2. IsFiniteSet(Rows(u, m)) /\ IsFiniteSet(Owing(u, m))
  BY <1>1, FS_Subset, CreationAssumption
<1>3. Cardinality(Creations) \in Nat /\ Limit[u] \in Nat
  BY FS_CardinalityType, CreationAssumption
<1>4. QED BY <1>1, <1>2, <1>3, FS_CardinalityType DEF Most

\* Links that go and creations that end leave the room they took.
LEMMA RoomLeft ==
    ASSUME TypeInv, NEW u \in Users, NEW m \in Months, Room(u, m),
           Rows(u, m)' \subseteq Rows(u, m), Owing(u, m)' \subseteq Owing(u, m)
    PROVE  Room(u, m)'
<1>. DEFINE R == Rows(u, m)'
            O == Owing(u, m)'
<1>1. R \in SUBSET Rows(u, m) /\ O \in SUBSET Owing(u, m) OBVIOUS
<1>2. IsFiniteSet(R) /\ IsFiniteSet(O) BY <1>1, AllowanceSets, FS_Subset
<1>3. Cardinality(R) \in Nat /\ Cardinality(O) \in Nat BY <1>2, FS_CardinalityType
<1>. HIDE DEF R, O
<1>4. Cardinality(R) + Cardinality(O) <= Cardinality(Rows(u, m)) + Cardinality(Owing(u, m))
  BY <1>1, AllowanceSets, Leaves
<1>5. Cardinality(R) + Cardinality(O) <= Most(Limit[u], Creations)
  BY <1>3, <1>4, AllowanceSets DEF Room
<1>6. QED BY <1>5 DEF Room, R, O

\* The others' steps: creations that go on as they are, ones that end, ones that
\* move on after the count, links that are deleted.
LEMMA RoomKept ==
    ASSUME TypeInv, AllowanceInv,
           \A s \in Slugs : links'[s] \in {links[s], None},
           \A c \in Creations : tx'[c] # None =>
               /\ tx[c] # None /\ tx'[c].user = tx[c].user /\ tx'[c].month = tx[c].month
               /\ tx[c].stage = "count" => tx'[c].stage = "count",
           NEW u \in Users, NEW m \in Months
    PROVE  Room(u, m)'
<1>1. Room(u, m) BY DEF AllowanceInv
<1>2. Rows(u, m)' \subseteq Rows(u, m) BY DEF Rows
<1>3. Owing(u, m)' \subseteq Owing(u, m) BY DEF Owing
<1>4. QED BY <1>1, <1>2, <1>3, RoomLeft

LEMMA RoomCounted ==
    ASSUME TypeInv, AllowanceInv, NEW c \in Creations, Count(c),
           NEW u \in Users, NEW m \in Months
    PROVE  Room(u, m)'
<1>1. TypeOK BY DEF TypeInv
<1>2. /\ tx[c] # None /\ tx[c].stage = "count" /\ links' = links
  BY DEF Count, At
<1>3. tx[c] \in Tx BY <1>1, <1>2 DEF TypeOK
<1>4. Rows(u, m)' = Rows(u, m) BY <1>2 DEF Rows
<1>5. CASE tx' = [tx EXCEPT ![c] = None] \/ u # tx[c].user \/ m # tx[c].month
  <2>1. Owing(u, m)' \subseteq Owing(u, m)
    <3>. DEFINE x == [tx[c] EXCEPT !.stage = "attempt"]
    <3>1. tx' = [tx EXCEPT ![c] = None] \/ tx' = [tx EXCEPT ![c] = x]
      BY <1>2, Moves
    <3>2. x.user = tx[c].user /\ x.month = tx[c].month BY <1>3 DEF Tx
    <3>. HIDE DEF x
    <3>3. \A d \in Creations \ {c} : tx'[d] = tx[d] BY <1>1, <3>1 DEF TypeOK
    <3>4. tx'[c] # None => tx'[c] = x BY <1>1, <3>1 DEF TypeOK
    <3>5. CASE tx'[c] = None BY <3>3, <3>5 DEF Owing
    <3>6. CASE tx'[c] # None
      <4>1. tx'[c] = x BY <3>4, <3>6
      <4>2. u # tx[c].user \/ m # tx[c].month BY <1>1, <1>5, <3>6 DEF TypeOK
      <4>3. c \in Owing(u, m)' => c \in Owing(u, m)
        <5>1. tx'[c].user = tx[c].user /\ tx'[c].month = tx[c].month BY <3>2, <4>1
        <5>2. c \in Owing(u, m)' => u = tx[c].user /\ tx[c].month <= m
          BY <1>3, <5>1 DEF Owing, Tx, Months
        <5>3. tx[c].month \in Int /\ m \in Int BY <1>3 DEF Tx, Months
        <5>4. c \in Owing(u, m)' => u = tx[c].user /\ tx[c].month < m
          BY <4>2, <5>2, <5>3
        <5>5. u = tx[c].user /\ tx[c].month < m => c \in Owing(u, m) BY <1>2 DEF Owing
        <5>6. QED BY <5>4, <5>5
      <4>4. \A d \in Creations \ {c} : d \in Owing(u, m)' => d \in Owing(u, m)
        BY <3>3 DEF Owing
      <4>5. QED BY <4>3, <4>4 DEF Owing
    <3>7. QED BY <3>5, <3>6
  <2>2. QED BY <1>4, <2>1, RoomLeft DEF AllowanceInv
<1>6. CASE tx' # [tx EXCEPT ![c] = None] /\ u = tx[c].user /\ m = tx[c].month
  <2>1. ~Reached(Counted(u, m), u) BY <1>6 DEF Count, Ended
  <2>2. Counted(u, m) = Cardinality(Rows(u, m)) BY DEF Counted, Rows
  <2>3. Cardinality(Rows(u, m)) < Limit[u] BY <2>1, <2>2, AllowanceSets DEF Reached
  <2>4. Owing(u, m)' \in SUBSET Creations BY DEF Owing
  <2>. DEFINE O == Owing(u, m)'
  <2>5. O \in SUBSET Creations BY <2>4
  <2>. HIDE DEF O
  <2>6. Cardinality(Rows(u, m)) + Cardinality(O) <= Most(Limit[u], Creations)
    BY <2>3, <2>5, AllowanceSets, Fits, CreationAssumption
  <2>7. Cardinality(Rows(u, m)') + Cardinality(Owing(u, m)') <= Most(Limit[u], Creations)
    BY <1>4, <2>6 DEF O
  <2>8. QED BY <2>7 DEF Room
<1>7. QED BY <1>5, <1>6

\* The month's bounds are computed as the creation begins: no row is of a later
\* month.
LEMMA RoomBegun ==
    ASSUME TypeInv, AllowanceInv, NEW c \in Creations, NEW a \in Actors, Begin(c, a),
           NEW u \in Users, NEW m \in Months
    PROVE  Room(u, m)'
<1>1. TypeOK /\ month \in Nat /\ m \in Nat BY DEF TypeInv, TypeOK, Months
<1>. DEFINE x == [user |-> a, month |-> month,
                  stage |-> IF a = Guest THEN "attempt" ELSE "count",
                  attempts |-> 0, slug |-> None, at |-> month, pending |-> {}]
<1>2. /\ tx' = [tx EXCEPT ![c] = x] /\ links' = links BY DEF Begin
<1>3. x.user = a /\ x.month = month /\ (a = u => x.stage = "count")
  BY CreationAssumption
<1>. HIDE DEF x
<1>4. tx'[c] = x /\ \A d \in Creations \ {c} : tx'[d] = tx[d] BY <1>1, <1>2 DEF TypeOK
<1>5. Rows(u, m)' = Rows(u, m) BY <1>2 DEF Rows
<1>6. CASE m <= month
  <2>1. c \notin Owing(u, m)' BY <1>1, <1>3, <1>4, <1>6 DEF Owing
  <2>2. Owing(u, m)' \subseteq Owing(u, m) BY <1>4, <2>1 DEF Owing
  <2>3. QED BY <1>5, <2>2, RoomLeft DEF AllowanceInv
<1>7. CASE ~(m <= month)
  <2>1. Rows(u, m) = {}
    <3>1. ASSUME NEW s \in Slugs, links[s] # None PROVE links[s].month # m
      <4>1. links[s].month <= month BY <3>1 DEF AllowanceInv, Past
      <4>2. QED BY <1>7, <4>1
    <3>2. QED BY <3>1 DEF Rows
  <2>. DEFINE O == Owing(u, m)'
  <2>2. O \in SUBSET Creations BY DEF Owing
  <2>. HIDE DEF O
  <2>3. Cardinality(Rows(u, m)) = 0 BY <2>1, FS_EmptySet
  <2>4. Cardinality(Rows(u, m)) + Cardinality(O) <= Most(Limit[u], Creations)
    BY <2>2, <2>3, AllowanceSets, Fits, CreationAssumption
  <2>5. Cardinality(Rows(u, m)') + Cardinality(Owing(u, m)') <= Most(Limit[u], Creations)
    BY <1>5, <2>4 DEF O
  <2>6. QED BY <2>5 DEF Room
<1>8. QED BY <1>6, <1>7

\* A commit adds a link to the month its attempt started in, which the creation
\* owed.
LEMMA RoomPaid ==
    ASSUME TypeInv, AllowanceInv, NEW c \in Creations, tx[c] # None, tx[c].stage = "commit",
           Publish(c, tx[c].pending), tx' = [tx EXCEPT ![c] = None],
           NEW u \in Users, NEW m \in Months
    PROVE  Room(u, m)'
<1>1. TypeOK /\ Shapes BY DEF TypeInv
<1>2. tx[c] \in Tx /\ tx[c].pending = {"link", "outbox"} /\ tx[c].slug \in Slugs
  BY <1>1 DEF TypeOK, Shapes, Shaped, Written
<1>. DEFINE s == tx[c].slug
            row == [owner |-> tx[c].user, month |-> tx[c].at]
<1>3. links' = [links EXCEPT ![s] = row] BY <1>2 DEF Publish
<1>4. /\ links'[s] = row /\ \A t \in Slugs \ {s} : links'[t] = links[t]
      /\ tx'[c] = None /\ \A d \in Creations \ {c} : tx'[d] = tx[d]
  BY <1>1, <1>2, <1>3 DEF TypeOK
<1>5. Owing(u, m)' \subseteq Owing(u, m) \ {c} BY <1>4 DEF Owing
<1>6. Rows(u, m)' \subseteq Rows(u, m) \cup {s} BY <1>4 DEF Rows
<1>7. CASE u = tx[c].user /\ m = tx[c].at
  <2>1. c \in Owing(u, m)
    <3>1. tx[c].month <= m BY <1>7 DEF AllowanceInv, Past
    <3>2. tx[c].month \in Int /\ m \in Int BY <1>2 DEF Tx, Months
    <3>3. QED BY <1>7, <3>1, <3>2 DEF Owing
  <2>. DEFINE R == Rows(u, m)'
              O == Owing(u, m)'
  <2>2. R \in SUBSET (Rows(u, m) \cup {s}) /\ O \in SUBSET (Owing(u, m) \ {c})
    BY <1>5, <1>6
  <2>3. R \in SUBSET Slugs /\ O \in SUBSET Creations BY DEF Rows, Owing
  <2>. HIDE DEF R, O, s
  <2>4. Cardinality(R) + Cardinality(O)
          <= Cardinality(Rows(u, m)) + Cardinality(Owing(u, m))
    BY <2>1, <2>2, AllowanceSets, Pays
  <2>5. Cardinality(R) \in Nat /\ Cardinality(O) \in Nat
    BY <2>3, FS_Subset, FS_CardinalityType, CreationAssumption
  <2>6. Cardinality(R) + Cardinality(O) <= Most(Limit[u], Creations)
    BY <2>4, <2>5, AllowanceSets DEF AllowanceInv, Room
  <2>7. QED BY <2>6 DEF Room, R, O
<1>8. CASE u # tx[c].user \/ m # tx[c].at
  <2>1. s \notin Rows(u, m)' BY <1>4, <1>8 DEF Rows
  <2>2. QED BY <1>5, <1>6, <2>1, RoomLeft DEF AllowanceInv
<1>9. QED BY <1>7, <1>8

LEMMA PastStep == TypeInv /\ AllowanceInv /\ [Next]_vars => Past'
<1>. SUFFICES ASSUME TypeInv, AllowanceInv, [Next]_vars PROVE Past'
  OBVIOUS
<1>1. TypeOK /\ Shapes /\ Past /\ month \in Nat BY DEF TypeInv, TypeOK, AllowanceInv, Months
<1>2. ASSUME NEW c \in Creations, NEW x,
             tx' = [tx EXCEPT ![c] = x], x.month <= x.at, x.at <= month,
             UNCHANGED <<month, links>>
      PROVE  Past'
  BY <1>1, <1>2 DEF Past, TypeOK
<1>9. ASSUME NEW c \in Creations, tx' = [tx EXCEPT ![c] = None], UNCHANGED <<month, links>>
      PROVE  Past'
  BY <1>1, <1>9 DEF Past, TypeOK
<1>3. ASSUME NEW c \in Creations, NEW u \in Actors, Begin(c, u) PROVE Past'
  <2>. DEFINE x == [user |-> u, month |-> month,
                    stage |-> IF u = Guest THEN "attempt" ELSE "count",
                    attempts |-> 0, slug |-> None, at |-> month, pending |-> {}]
  <2>1. tx' = [tx EXCEPT ![c] = x] /\ UNCHANGED <<month, links>> BY <1>3 DEF Begin
  <2>2. x.month <= x.at /\ x.at <= month BY <1>1
  <2>. HIDE DEF x
  <2>3. QED BY <1>2, <2>1, <2>2
<1>4. ASSUME NEW c \in Creations, CreationStep(c) PROVE Past'
  <2>1. tx[c] # None
    BY <1>4 DEF CreationStep, Proceed, Count, Attempt, Insert, Conflict, SaveOutbox, Commit,
                CommitReplyLost, Fail, At
  <2>2. /\ tx[c] \in Tx /\ Shaped(c) /\ tx[c].month <= tx[c].at /\ tx[c].at <= month
        /\ tx[c].month \in Nat /\ tx[c].at \in Nat
    BY <1>1, <2>1 DEF TypeOK, Shapes, Past, Tx, Months
  <2>3. ASSUME NEW x \in Tx, tx' = [tx EXCEPT ![c] = x], UNCHANGED <<month, links>>,
               x.month = tx[c].month, x.at \in {tx[c].at, month}
        PROVE  Past'
    <3>1. x.month <= x.at /\ x.at <= month BY <1>1, <2>2, <2>3
    <3>2. QED BY <1>2, <2>3, <3>1
  <2>4. CASE Count(c)
    <3>. DEFINE x == [tx[c] EXCEPT !.stage = "attempt"]
    <3>1. tx' = [tx EXCEPT ![c] = None] \/ tx' = [tx EXCEPT ![c] = x] BY <2>1, <2>4, Moves
    <3>2. UNCHANGED <<month, links>> BY <2>4 DEF Count
    <3>3. x \in Tx /\ x.month = tx[c].month /\ x.at = tx[c].at BY <2>2 DEF Tx
    <3>. HIDE DEF x
    <3>4. QED BY <1>9, <2>3, <3>1, <3>2, <3>3
  <2>5. ASSUME NEW s \in Slugs, Attempt(c, s) PROVE Past'
    <3>. DEFINE p == [[tx[c] EXCEPT !.stage = "insert"] EXCEPT !.slug = s]
                x == [p EXCEPT !.at = month]
    <3>1. tx' = [tx EXCEPT ![c] = x] /\ UNCHANGED <<month, links>> BY <2>5 DEF Attempt
    <3>2. p \in Tx /\ p.month = tx[c].month BY <2>2 DEF Tx
    <3>. HIDE DEF p
    <3>3. x \in Tx /\ x.month = p.month /\ x.at = month
      BY <1>1, <3>2 DEF Tx, TypeOK
    <3>. HIDE DEF x
    <3>4. QED BY <2>3, <3>1, <3>2, <3>3
  <2>6. CASE Insert(c) \/ SaveOutbox(c)
    <3>. DEFINE x == [[tx[c] EXCEPT !.stage = IF Insert(c) THEN "outbox" ELSE "commit"]
                        EXCEPT !.pending = IF Insert(c) THEN {"link"}
                                           ELSE tx[c].pending \cup {"outbox"}]
    <3>1. tx' = [tx EXCEPT ![c] = x] /\ UNCHANGED <<month, links>>
      BY <2>1, <2>6, Moves DEF Insert, SaveOutbox
    <3>2. x \in Tx /\ x.month = tx[c].month /\ x.at = tx[c].at BY <2>2 DEF Tx
    <3>. HIDE DEF x
    <3>3. QED BY <2>3, <3>1, <3>2
  <2>7. CASE Conflict(c)
    <3>. DEFINE x == [tx[c] EXCEPT !.stage = "attempt", !.attempts = tx[c].attempts + 1]
    <3>1. tx' = [tx EXCEPT ![c] = None]
          \/ (tx[c].attempts + 1 # MaxSlugRetries /\ tx' = [tx EXCEPT ![c] = x])
      BY <2>1, <2>7, Moves
    <3>2. UNCHANGED <<month, links>> BY <2>7 DEF Conflict
    <3>3. x.month = tx[c].month /\ x.at = tx[c].at BY <2>2 DEF Tx
    <3>. HIDE DEF x
    <3>4. QED BY <1>2, <1>9, <2>2, <3>1, <3>2, <3>3
  <2>8. CASE Commit(c) \/ CommitReplyLost(c)
    <3>1. /\ Publish(c, tx[c].pending) /\ tx' = [tx EXCEPT ![c] = None] /\ month' = month
          /\ tx[c].stage = "commit"
      BY <2>8 DEF Commit, CommitReplyLost, Ended, Rethrown, At
    <3>2. tx[c].slug \in Slugs BY <2>2, <3>1 DEF Shaped
    <3>. DEFINE row == [owner |-> tx[c].user, month |-> tx[c].at]
    <3>3. links' = links \/ links' = [links EXCEPT ![tx[c].slug] = row]
      BY <3>1 DEF Publish
    <3>4. row.month = tx[c].at OBVIOUS
    <3>. HIDE DEF row
    <3>5. \A s \in Slugs : links'[s] # None => links'[s].month <= month
      BY <1>1, <2>2, <3>2, <3>3, <3>4 DEF Past, TypeOK
    <3>6. \A d \in Creations : tx'[d] # None => tx[d] # None /\ tx'[d] = tx[d]
      BY <1>1, <3>1 DEF TypeOK
    <3>7. QED BY <1>1, <3>1, <3>5, <3>6 DEF Past
  <2>9. CASE Fail(c)
    <3>1. tx' = [tx EXCEPT ![c] = None] /\ UNCHANGED <<month, links>>
      BY <2>9 DEF Fail, Publish, Kept, Ended
    <3>2. QED BY <1>9, <3>1
  <2>10. QED BY <1>4, <2>4, <2>5, <2>6, <2>7, <2>8, <2>9 DEF CreationStep, Proceed
<1>5. ASSUME NEW s \in Slugs, Delete(s) PROVE Past'
  BY <1>1, <1>5 DEF Delete, Past, TypeOK
<1>6. CASE NextMonth
  <2>1. month' = month + 1 /\ links' = links /\ tx' = tx BY <1>6 DEF NextMonth
  <2>2. \A s \in Slugs : links[s] # None => links[s].month \in Nat
    BY <1>1 DEF TypeOK, Link, Months
  <2>3. \A c \in Creations : tx[c] # None => tx[c].at \in Nat
    BY <1>1 DEF TypeOK, Tx, Months
  <2>4. QED BY <1>1, <2>1, <2>2, <2>3 DEF Past
<1>7. CASE UNCHANGED vars BY <1>1, <1>7 DEF vars, Past
<1>8. QED BY <1>3, <1>4, <1>5, <1>6, <1>7 DEF Next

LEMMA AllowanceStep == TypeInv /\ AllowanceInv /\ [Next]_vars => AllowanceInv'
<1>. SUFFICES ASSUME TypeInv, AllowanceInv, [Next]_vars PROVE AllowanceInv'
  OBVIOUS
<1>1. TypeOK /\ Shapes BY DEF TypeInv
<1>2. ASSUME NEW u \in Users, NEW m \in Months PROVE Room(u, m)'
  <2>1. ASSUME NEW c \in Creations, NEW a \in Actors, Begin(c, a) PROVE Room(u, m)'
    BY <2>1, RoomBegun
  <2>2. ASSUME NEW c \in Creations, CreationStep(c) PROVE Room(u, m)'
    <3>1. tx[c] # None
      BY <2>2 DEF CreationStep, Proceed, Count, Attempt, Insert, Conflict, SaveOutbox, Commit,
                  CommitReplyLost, Fail, At
    <3>2. tx[c] \in Tx BY <1>1, <3>1 DEF TypeOK
    <3>3. ASSUME NEW x, tx' = [tx EXCEPT ![c] = x],
                 x.user = tx[c].user, x.month = tx[c].month,
                 tx[c].stage # "count", links' = links
          PROVE  Room(u, m)'
      <4>1. \A d \in Creations : tx'[d] # None =>
               /\ tx[d] # None /\ tx'[d].user = tx[d].user /\ tx'[d].month = tx[d].month
               /\ tx[d].stage = "count" => tx'[d].stage = "count"
        BY <1>1, <3>1, <3>3 DEF TypeOK
      <4>2. QED BY <3>3, <4>1, RoomKept
    <3>11. ASSUME tx' = [tx EXCEPT ![c] = None], links' = links PROVE Room(u, m)'
      <4>1. \A d \in Creations : tx'[d] # None => tx[d] # None /\ tx'[d] = tx[d]
        BY <1>1, <3>11 DEF TypeOK
      <4>2. QED BY <3>11, <4>1, RoomKept
    <3>4. CASE Count(c) BY <3>4, RoomCounted
    <3>5. ASSUME NEW s \in Slugs, Attempt(c, s) PROVE Room(u, m)'
      <4>. DEFINE p == [[tx[c] EXCEPT !.stage = "insert"] EXCEPT !.slug = s]
                  x == [p EXCEPT !.at = month]
      <4>1. tx' = [tx EXCEPT ![c] = x] /\ links' = links /\ tx[c].stage = "attempt"
        BY <3>5 DEF Attempt, At
      <4>2. p \in Tx /\ p.user = tx[c].user /\ p.month = tx[c].month BY <3>2 DEF Tx
      <4>. HIDE DEF p
      <4>3. x.user = p.user /\ x.month = p.month BY <4>2 DEF Tx
      <4>. HIDE DEF x
      <4>4. QED BY <3>3, <4>1, <4>2, <4>3
    <3>6. CASE Insert(c) \/ SaveOutbox(c)
      <4>. DEFINE x == [[tx[c] EXCEPT !.stage = IF Insert(c) THEN "outbox" ELSE "commit"]
                          EXCEPT !.pending = IF Insert(c) THEN {"link"}
                                             ELSE tx[c].pending \cup {"outbox"}]
      <4>1. tx' = [tx EXCEPT ![c] = x] /\ links' = links
        BY <3>1, <3>6, Moves DEF Insert, SaveOutbox
      <4>2. tx[c].stage # "count" BY <3>6 DEF Insert, SaveOutbox, At
      <4>3. x.user = tx[c].user /\ x.month = tx[c].month BY <3>2 DEF Tx
      <4>. HIDE DEF x
      <4>4. QED BY <3>3, <4>1, <4>2, <4>3
    <3>7. CASE Conflict(c)
      <4>. DEFINE x == [tx[c] EXCEPT !.stage = "attempt", !.attempts = tx[c].attempts + 1]
      <4>1. tx' = [tx EXCEPT ![c] = None]
            \/ (tx[c].attempts + 1 # MaxSlugRetries /\ tx' = [tx EXCEPT ![c] = x])
        BY <3>1, <3>7, Moves
      <4>2. links' = links /\ tx[c].stage # "count" BY <3>7 DEF Conflict, At
      <4>3. x.user = tx[c].user /\ x.month = tx[c].month BY <3>2 DEF Tx
      <4>. HIDE DEF x
      <4>4. QED BY <3>3, <3>11, <4>1, <4>2, <4>3
    <3>8. CASE Commit(c) \/ CommitReplyLost(c)
      BY <3>1, <3>8, RoomPaid DEF Commit, CommitReplyLost, Ended, Rethrown, At
    <3>9. CASE Fail(c)
      <4>1. tx' = [tx EXCEPT ![c] = None] /\ links' = links
        BY <3>9 DEF Fail, Publish, Kept, Ended
      <4>2. QED BY <3>11, <4>1
    <3>10. QED BY <2>2, <3>4, <3>5, <3>6, <3>7, <3>8, <3>9 DEF CreationStep, Proceed
  <2>3. ASSUME tx' = tx, \A s \in Slugs : links'[s] \in {links[s], None} PROVE Room(u, m)'
    BY <2>3, RoomKept
  <2>4. ASSUME NEW s \in Slugs, Delete(s) PROVE Room(u, m)'
    <3>1. tx' = tx /\ \A t \in Slugs : links'[t] \in {links[t], None}
      BY <1>1, <2>4 DEF Delete, TypeOK
    <3>2. QED BY <2>3, <3>1
  <2>5. CASE NextMonth \/ UNCHANGED vars
    BY <2>3, <2>5 DEF NextMonth, vars
  <2>6. QED BY <2>1, <2>2, <2>4, <2>5 DEF Next
<1>3. QED BY <1>2, PastStep DEF AllowanceInv

\* OvershootBounded: LinksService counts before it inserts, and its creations race,
\* straddle a month's end, fail and are deleted; the allowance is passed by fewer
\* links than creations can be in flight at once.
THEOREM Overshoot == Spec => []OvershootBounded
<1>1. TypeInv /\ AllowanceInv /\ [Next]_vars => (TypeInv /\ AllowanceInv)'
  BY TypeStep, AllowanceStep
<1>2. TypeInv /\ AllowanceInv => OvershootBounded
  <2>1. ASSUME TypeInv, AllowanceInv, NEW u \in Users, NEW m \in Months
        PROVE  Counted(u, m) <= (IF Limit[u] = 0 THEN 1 ELSE Limit[u])
                                   + Cardinality(Creations) - 1
    <3>1. Counted(u, m) = Cardinality(Rows(u, m)) BY DEF Counted, Rows
    <3>2. Cardinality(Rows(u, m)) <= Most(Limit[u], Creations)
      BY <2>1, AllowanceSets DEF AllowanceInv, Room
    <3>3. QED BY <3>1, <3>2 DEF Most
  <2>2. QED BY <2>1 DEF OvershootBounded
<1>3. QED BY CreationInit, AllowanceInit, <1>1, <1>2, PTL DEF Spec

-----------------------------------------------------------------------------
(* The registry.                                                           *)

\* A request in flight is an asked one, in the name of its account and since the
\* month it counts.
LEMMA AskedReads ==
    ASSUME TypeInv
    PROVE  /\ Asked \in [Creations -> Registry!Request \cup {None}]
           /\ \A c \in Creations : tx[c] = None => Asked[c] = None
           /\ \A c \in Creations : tx[c] # None =>
                 /\ Asked[c] # None /\ Asked[c].user = tx[c].user
                 /\ Asked[c].since = tx[c].month
<1>1. ASSUME NEW c \in Creations, tx[c] # None
      PROVE  [user |-> tx[c].user, since |-> tx[c].month] \in Registry!Request
  BY <1>1 DEF TypeInv, TypeOK, Tx, Registry!Request
<1>2. QED BY <1>1, RequestAssumption DEF Asked

\* The moves of a creation that stays in flight are none of the registry's.
LEMMA AskedKept ==
    ASSUME TypeInv, NEW c \in Creations, tx[c] # None, NEW x, x # None,
           tx' = [tx EXCEPT ![c] = x], x.user = tx[c].user, x.month = tx[c].month
    PROVE  Asked' = Asked
<1>1. tx \in [Creations -> Tx \cup {None}] BY DEF TypeInv, TypeOK
<1>2. tx'[c] = x /\ \A d \in Creations \ {c} : tx'[d] = tx[d] BY <1>1
<1>3. QED BY <1>2 DEF Asked

LEMMA AskedEnded ==
    ASSUME TypeInv, NEW c \in Creations, tx' = [tx EXCEPT ![c] = None]
    PROVE  Asked' = [Asked EXCEPT ![c] = None]
<1>1. tx \in [Creations -> Tx \cup {None}] BY DEF TypeInv, TypeOK
<1>2. tx'[c] = None /\ \A d \in Creations \ {c} : tx'[d] = tx[d] BY <1>1
<1>3. QED BY <1>2 DEF Asked

\* A creation that ends without its rows was refused.
LEMMA Refused ==
    ASSUME TypeInv, NEW c \in Creations, tx[c] # None, tx' = [tx EXCEPT ![c] = None],
           UNCHANGED <<month, links, outbox>>
    PROVE  Registry!Next
BY AskedReads, AskedEnded DEF Registry!Next, Registry!Refuse

\* A commit grants the request the link and its announcement together: the slug is
\* held, and the month is within the request.
LEMMA Granted ==
    ASSUME TypeInv, CreationInv, Past, NEW c \in Creations, tx[c] # None,
           tx[c].stage = "commit", Publish(c, tx[c].pending),
           tx' = [tx EXCEPT ![c] = None], month' = month
    PROVE  Registry!Next
<1>1. /\ tx[c] \in Tx /\ tx[c].pending = {"link", "outbox"} /\ tx[c].slug \in Slugs
      /\ tx[c].at \in Months
  BY DEF TypeInv, TypeOK, Shapes, Shaped, Written, Tx
<1>2. /\ links' = [links EXCEPT ![tx[c].slug] = [owner |-> tx[c].user, month |-> tx[c].at]]
      /\ outbox' = [outbox EXCEPT ![tx[c].slug] = @ + 1]
  BY <1>1 DEF Publish
<1>3. links[tx[c].slug] = None BY DEF CreationInv, SlugsHeld, Holds
<1>4. tx[c].month <= tx[c].at /\ tx[c].at <= month BY DEF Past
<1>5. /\ Asked[c] # None /\ Asked[c].user = tx[c].user /\ Asked[c].since = tx[c].month
      /\ Asked' = [Asked EXCEPT ![c] = None]
  BY AskedReads, AskedEnded
<1>6. Registry!Grant(c, tx[c].slug, tx[c].at)
  BY <1>2, <1>3, <1>4, <1>5 DEF Registry!Grant
<1>7. QED BY <1>1, <1>6 DEF Registry!Next

\* One creation's step is one of the registry, or none.
LEMMA CreationStepMaps ==
    ASSUME TypeInv, CreationInv, Past, NEW c \in Creations, CreationStep(c)
    PROVE  Registry!Next \/ UNCHANGED <<month, links, outbox, Asked>>
<1>1. TypeOK /\ Shapes BY DEF TypeInv
<1>2. tx[c] # None
  BY DEF CreationStep, Proceed, Count, Attempt, Insert, Conflict, SaveOutbox, Commit,
         CommitReplyLost, Fail, At
<1>3. tx[c] \in Tx BY <1>1, <1>2 DEF TypeOK
<1>4. ASSUME NEW x \in Tx, tx' = [tx EXCEPT ![c] = x], x.user = tx[c].user,
             x.month = tx[c].month
      PROVE  Asked' = Asked
  <2>1. x # None BY CreationAssumption
  <2>2. QED BY <1>2, <1>4, <2>1, AskedKept
<1>5. CASE Count(c)
  <2>. DEFINE x == [tx[c] EXCEPT !.stage = "attempt"]
  <2>1. tx' = [tx EXCEPT ![c] = None] \/ tx' = [tx EXCEPT ![c] = x] BY <1>2, <1>5, Moves
  <2>2. UNCHANGED <<month, links, outbox>> BY <1>5 DEF Count
  <2>3. x \in Tx /\ x.user = tx[c].user /\ x.month = tx[c].month BY <1>3 DEF Tx
  <2>. HIDE DEF x
  <2>4. QED BY <1>2, <1>4, <2>1, <2>2, <2>3, Refused
<1>6. ASSUME NEW s \in Slugs, Attempt(c, s) PROVE UNCHANGED <<month, links, outbox, Asked>>
  <2>. DEFINE p == [[tx[c] EXCEPT !.stage = "insert"] EXCEPT !.slug = s]
              x == [p EXCEPT !.at = month]
  <2>1. tx' = [tx EXCEPT ![c] = x] /\ UNCHANGED <<month, links, outbox>> BY <1>6 DEF Attempt
  <2>2. p \in Tx /\ p.user = tx[c].user /\ p.month = tx[c].month BY <1>3 DEF Tx
  <2>. HIDE DEF p
  <2>3. x \in Tx /\ x.user = p.user /\ x.month = p.month BY <1>1, <2>2 DEF Tx, TypeOK
  <2>. HIDE DEF x
  <2>4. QED BY <1>4, <2>1, <2>2, <2>3
<1>7. CASE Insert(c) \/ SaveOutbox(c)
  <2>. DEFINE x == [[tx[c] EXCEPT !.stage = IF Insert(c) THEN "outbox" ELSE "commit"]
                      EXCEPT !.pending = IF Insert(c) THEN {"link"}
                                         ELSE tx[c].pending \cup {"outbox"}]
  <2>1. tx' = [tx EXCEPT ![c] = x] /\ UNCHANGED <<month, links, outbox>>
    BY <1>2, <1>7, Moves DEF Insert, SaveOutbox
  <2>2. x \in Tx /\ x.user = tx[c].user /\ x.month = tx[c].month BY <1>3 DEF Tx
  <2>. HIDE DEF x
  <2>3. QED BY <1>4, <2>1, <2>2
<1>8. CASE Conflict(c)
  <2>. DEFINE x == [tx[c] EXCEPT !.stage = "attempt", !.attempts = tx[c].attempts + 1]
  <2>1. tx' = [tx EXCEPT ![c] = None]
        \/ (tx[c].attempts + 1 # MaxSlugRetries /\ tx' = [tx EXCEPT ![c] = x])
    BY <1>2, <1>8, Moves
  <2>2. UNCHANGED <<month, links, outbox>> BY <1>8 DEF Conflict
  <2>3. tx[c].attempts + 1 # MaxSlugRetries => x \in Tx
    <3>1. tx[c].attempts + 1 # MaxSlugRetries =>
            tx[c].attempts + 1 \in 0 .. MaxSlugRetries - 1
      BY <1>3, CreationAssumption DEF Tx
    <3>2. QED BY <1>3, <3>1 DEF Tx
  <2>4. x.user = tx[c].user /\ x.month = tx[c].month BY <1>3 DEF Tx
  <2>. HIDE DEF x
  <2>5. QED BY <1>2, <1>4, <2>1, <2>2, <2>3, <2>4, Refused
<1>9. CASE Commit(c) \/ CommitReplyLost(c)
  BY <1>2, <1>9, Granted DEF Commit, CommitReplyLost, Ended, Rethrown, At
<1>10. CASE Fail(c)
  BY <1>2, <1>10, Refused DEF Fail, Publish, Kept, Ended
<1>11. QED BY <1>5, <1>6, <1>7, <1>8, <1>9, <1>10 DEF CreationStep, Proceed

\* Every step is a step of the registry or leaves it as it is.
LEMMA RegistryStep ==
    TypeInv /\ CreationInv /\ Past /\ [Next]_vars => [Registry!Next]_(Registry!vars)
<1>. SUFFICES ASSUME TypeInv, CreationInv, Past, [Next]_vars
              PROVE  Registry!Next \/ UNCHANGED <<month, links, outbox, Asked>>
  BY DEF Registry!vars
<1>1. TypeOK BY DEF TypeInv
<1>2. ASSUME NEW c \in Creations, NEW u \in Actors, Begin(c, u) PROVE Registry!Next
  <2>. DEFINE x == [user |-> u, month |-> month,
                    stage |-> IF u = Guest THEN "attempt" ELSE "count",
                    attempts |-> 0, slug |-> None, at |-> month, pending |-> {}]
  <2>1. /\ tx' = [tx EXCEPT ![c] = x] /\ tx[c] = None
        /\ UNCHANGED <<month, links, outbox>>
    BY <1>2 DEF Begin
  <2>2. x.user = u /\ x.month = month OBVIOUS
  <2>3. x \in Tx BY <1>1, CreationAssumption DEF TypeOK, Tx
  <2>. HIDE DEF x
  <2>4. x # None BY <2>3, CreationAssumption
  <2>5. tx'[c] = x /\ \A d \in Creations \ {c} : tx'[d] = tx[d] BY <1>1, <2>1 DEF TypeOK
  <2>6. Asked' = [Asked EXCEPT ![c] = [user |-> u, since |-> month]]
    BY <2>2, <2>4, <2>5 DEF Asked
  <2>7. Registry!Ask(c, u) BY <2>1, <2>6, AskedReads DEF Registry!Ask
  <2>8. QED BY <2>7 DEF Registry!Next
<1>3. ASSUME NEW s \in Slugs, Delete(s) PROVE Registry!Next
  <2>1. tx' = tx /\ Registry!Remove(s) BY <1>3 DEF Delete, Registry!Remove, Asked
  <2>2. QED BY <2>1 DEF Registry!Next
<1>4. CASE NextMonth
  BY <1>4 DEF NextMonth, Registry!Next, Registry!Turn, Asked
<1>5. CASE UNCHANGED vars BY <1>5 DEF vars, Asked
<1>6. QED BY <1>2, <1>3, <1>4, <1>5, CreationStepMaps DEF Next

\* ImplementsLinkRegistry: counts, retries, races, failures and lost replies do to
\* the links what LinkRegistry says and nothing else.
THEOREM Implements == Spec => ImplementsLinkRegistry
<1>1. Init => Registry!Init BY DEF Init, Registry!Init, Asked
<1>2. TypeInv /\ AllowanceInv /\ [Next]_vars => (TypeInv /\ AllowanceInv)'
  BY TypeStep, AllowanceStep
<1>3. AllowanceInv => Past BY DEF AllowanceInv
<1>4. QED
  BY CreationInit, AllowanceInit, CreationInvariant, <1>1, <1>2, <1>3, RegistryStep, PTL
     DEF Spec, ImplementsLinkRegistry, Registry!Spec
=============================================================================
