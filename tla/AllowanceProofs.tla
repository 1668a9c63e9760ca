---------------------------- MODULE AllowanceProofs ---------------------------
(***************************************************************************)
(* Lemmas on the monthly allowances of LinksService.create and             *)
(* ApiKeysService.createForUser, which both count, take their time and     *)
(* insert: an allowance is passed by fewer rows than creations that can be *)
(* in flight. Rows are what was inserted, owing the creations that still   *)
(* may insert and counted before.                                          *)
(***************************************************************************)
EXTENDS Integers, FiniteSets, FiniteSetTheorems, TLAPS

Most(limit, slots) == (IF limit = 0 THEN 1 ELSE limit) + Cardinality(slots) - 1

\* A creation that counts less than the limit, or that comes before any row is
\* there, fits whatever is in flight.
LEMMA Fits ==
    ASSUME NEW limit \in Nat, NEW Slots, IsFiniteSet(Slots),
           NEW Owing \in SUBSET Slots, NEW count \in Nat, count = 0 \/ count < limit
    PROVE  count + Cardinality(Owing) <= Most(limit, Slots)
<1>1. /\ Cardinality(Owing) \in Nat /\ Cardinality(Slots) \in Nat
      /\ Cardinality(Owing) <= Cardinality(Slots)
  BY FS_Subset, FS_CardinalityType
<1>2. QED BY <1>1 DEF Most

\* Rows that go, and creations that end, leave room.
LEMMA Leaves ==
    ASSUME NEW Rows, IsFiniteSet(Rows), NEW Owing, IsFiniteSet(Owing),
           NEW R \in SUBSET Rows, NEW O \in SUBSET Owing
    PROVE  Cardinality(R) + Cardinality(O) <= Cardinality(Rows) + Cardinality(Owing)
<1>1. IsFiniteSet(R) /\ IsFiniteSet(O) BY FS_Subset
<1>2. /\ Cardinality(R) \in Nat /\ Cardinality(O) \in Nat
      /\ Cardinality(Rows) \in Nat /\ Cardinality(Owing) \in Nat
  BY <1>1, FS_CardinalityType
<1>3. Cardinality(R) <= Cardinality(Rows) /\ Cardinality(O) <= Cardinality(Owing)
  BY FS_Subset
<1>4. QED BY <1>2, <1>3

\* A creation that inserts its row no longer owes one.
LEMMA Pays ==
    ASSUME NEW Rows, IsFiniteSet(Rows), NEW Owing, IsFiniteSet(Owing),
           NEW row, NEW c \in Owing, NEW R \in SUBSET (Rows \cup {row}),
           NEW O \in SUBSET (Owing \ {c})
    PROVE  Cardinality(R) + Cardinality(O) <= Cardinality(Rows) + Cardinality(Owing)
<1>1. IsFiniteSet(Rows \cup {row}) /\ Cardinality(Rows \cup {row}) <= Cardinality(Rows) + 1
  <2>1. Cardinality(Rows) \in Nat BY FS_CardinalityType
  <2>2. /\ IsFiniteSet(Rows \cup {row})
        /\ Cardinality(Rows \cup {row}) =
              IF row \in Rows THEN Cardinality(Rows) ELSE Cardinality(Rows) + 1
    BY FS_AddElement
  <2>3. QED BY <2>1, <2>2
<1>2. IsFiniteSet(Owing \ {c}) /\ Cardinality(Owing \ {c}) = Cardinality(Owing) - 1
  BY FS_RemoveElement
<1>3. Cardinality(R) + Cardinality(O)
        <= Cardinality(Rows \cup {row}) + Cardinality(Owing \ {c})
  BY <1>1, <1>2, Leaves
<1>4. IsFiniteSet(R) /\ IsFiniteSet(O) BY <1>1, <1>2, FS_Subset
<1>5. /\ Cardinality(R) \in Nat /\ Cardinality(O) \in Nat
      /\ Cardinality(Rows) \in Nat /\ Cardinality(Owing) \in Nat
      /\ Cardinality(Rows \cup {row}) \in Nat /\ Cardinality(Owing \ {c}) \in Nat
  BY <1>1, <1>2, <1>4, FS_CardinalityType
<1>6. QED BY <1>1, <1>2, <1>3, <1>5
=============================================================================
