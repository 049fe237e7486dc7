---------------------------- MODULE BatchProofs -----------------------------
(* Proofs about what is read page by page and worked off in batches: retention
   with the walk over dead deliveries, the audit log with its walks and
   exports, and the transactional outbox.  Each has an inductive invariant, the
   lemma that every step keeps it, and the theorems it gives.  The pages rest
   on what the first n of a finite linear order are. *)
EXTENDS Retention, AuditTrail, Outbox, FiniteSetTheorems, WellFoundedInduction, TLAPS

(* The first n of a finite linear order: what a page of a listing returns. *)

\* Strict orders as sets of pairs, and the first n of a finite set.
Strict(R, S) ==
    /\ \A a \in S : <<a, a>> \notin R
    /\ \A a, b, c \in S : <<a, b>> \in R /\ <<b, c>> \in R => <<a, c>> \in R
Linear(R, S) == Strict(R, S) /\ \A a, b \in S : a = b \/ <<a, b>> \in R \/ <<b, a>> \in R
Preceding(R, S, r) == {s \in S : <<s, r>> \in R}
First(R, S, n) == {r \in S : Cardinality(Preceding(R, S, r)) < n}

\* A finite set that is not empty has a minimal element.
LEMMA MinimalElement ==
    ASSUME NEW S, IsFiniteSet(S), NEW R, Strict(R, S), NEW T \in SUBSET S, T # {}
    PROVE  \E r \in T : \A s \in T : <<s, r>> \notin R
<1> DEFINE P == {Preceding(R, S, r) : r \in T}
<1>1. IsWellFoundedOn(StrictSubsetOrdering(S), SUBSET S)
  BY Zenon, FS_FiniteSubsetsOfFinite, FS_StrictSubsetOrderingWellFounded
<1>2. P \subseteq SUBSET S /\ P # {}
  BY Zenon DEF Preceding
<1> HIDE DEF P
<1>3. PICK x \in P : \A y \in P : ~(<<y, x>> \in StrictSubsetOrdering(S))
  BY Zenon, <1>1, <1>2, WFMin
<1>4. PICK r \in T : x = Preceding(R, S, r)
  BY Zenon DEF P
<1>5. ASSUME NEW s \in T, <<s, r>> \in R PROVE FALSE
  <2> DEFINE y == Preceding(R, S, s)
  <2>1. y \in P
    BY Zenon DEF P
  <2>2. y \subseteq x /\ s \in x /\ s \notin y
    BY Zenon, <1>4, <1>5 DEF Preceding, Strict
  <2>3. y \in SUBSET S /\ x \in SUBSET S /\ y # x
    BY Zenon, <1>2, <2>1, <2>2
  <2>4. <<y, x>> \in StrictSubsetOrdering(S)
    BY Zenon, <2>2, <2>3 DEF StrictSubsetOrdering
  <2> QED
    BY Zenon, <1>3, <2>1, <2>4
<1> QED
  BY Zenon, <1>5

\* And a maximal one.
LEMMA MaximalElement ==
    ASSUME NEW S, IsFiniteSet(S), NEW R, Strict(R, S), NEW T \in SUBSET S, T # {}
    PROVE  \E r \in T : \A s \in T : <<r, s>> \notin R
<1> DEFINE Q == {p \in S \X S : <<p[2], p[1]>> \in R}
<1>1. \A a, b \in S : <<a, b>> \in Q <=> <<b, a>> \in R
  BY Zenon
<1> HIDE DEF Q
<1>2. Strict(Q, S)
  BY Zenon, <1>1 DEF Strict
<1>3. PICK r \in T : \A s \in T : <<s, r>> \notin Q
  BY Zenon, <1>2, MinimalElement
<1> QED
  BY Zenon, <1>1, <1>3

\* The first n of a finite set are finitely many.
LEMMA FirstFinite ==
    ASSUME NEW S, IsFiniteSet(S), NEW R, NEW n \in Nat
    PROVE  /\ First(R, S, n) \subseteq S /\ IsFiniteSet(First(R, S, n))
           /\ Cardinality(First(R, S, n)) \in Nat
           /\ \A r \in S : IsFiniteSet(Preceding(R, S, r))
                           /\ Cardinality(Preceding(R, S, r)) \in Nat
BY Zenon, FS_Subset, FS_CardinalityType DEF First, Preceding

\* Fewer than n among the first n: there are no more.
LEMMA FirstAll ==
    ASSUME NEW S, IsFiniteSet(S), NEW R, Strict(R, S), NEW n \in Nat,
           Cardinality(First(R, S, n)) < n
    PROVE  First(R, S, n) = S
<1> DEFINE F == First(R, S, n)
<1>1. F \subseteq S /\ IsFiniteSet(F) /\ Cardinality(F) \in Nat
  BY Zenon, FirstFinite
<1> SUFFICES ASSUME S \ F # {} PROVE FALSE
  BY Zenon, <1>1
<1>2. PICK r \in S \ F : \A s \in S \ F : <<s, r>> \notin R
  BY Zenon, MinimalElement
<1>3. Preceding(R, S, r) \subseteq F
  BY Zenon, <1>2 DEF Preceding
<1>4. Cardinality(Preceding(R, S, r)) <= Cardinality(F)
  BY Zenon, <1>1, <1>3, FS_Subset
<1>5. ~(Cardinality(Preceding(R, S, r)) < n)
  BY Zenon DEF First
<1> QED
  BY <1>1, <1>4, <1>5, FirstFinite

\* There are no more than n among the first n of a linear order.
LEMMA FirstBound ==
    ASSUME NEW S, IsFiniteSet(S), NEW R, Linear(R, S), NEW n \in Nat
    PROVE  Cardinality(First(R, S, n)) <= n
<1> DEFINE F == First(R, S, n)
<1>1. F \subseteq S /\ IsFiniteSet(F) /\ Cardinality(F) \in Nat
  BY Zenon, FirstFinite
<1>2. CASE F = {}
  BY <1>2, FS_EmptySet
<1>3. CASE F # {}
  <2>1. PICK r \in F : \A s \in F : <<r, s>> \notin R
    BY Zenon, <1>1, <1>3, MaximalElement DEF Linear
  <2>2. F \ {r} \subseteq Preceding(R, S, r)
    BY Zenon, <1>1, <2>1 DEF Linear, Preceding
  <2>3. Cardinality(Preceding(R, S, r)) < n /\ Cardinality(Preceding(R, S, r)) \in Nat
        /\ IsFiniteSet(Preceding(R, S, r))
    BY Zenon, <1>1, <2>1, FirstFinite DEF First
  <2>4. Cardinality(F \ {r}) <= Cardinality(Preceding(R, S, r))
    BY Zenon, <2>2, <2>3, FS_Subset
  <2>5. Cardinality(F \ {r}) = Cardinality(F) - 1
    BY Zenon, <1>1, FS_RemoveElement
  <2> QED
    BY <1>1, <2>3, <2>4, <2>5
<1> QED
  BY Zenon, <1>2, <1>3

\* All are among the first n when there are no more than n.
LEMMA FirstOfFew ==
    ASSUME NEW S, IsFiniteSet(S), NEW R, Strict(R, S), NEW n \in Nat, Cardinality(S) <= n
    PROVE  First(R, S, n) = S
<1> SUFFICES ASSUME NEW r \in S PROVE Cardinality(Preceding(R, S, r)) < n
  BY Zenon DEF First
<1>1. Preceding(R, S, r) \subseteq S \ {r}
  BY Zenon DEF Preceding, Strict
<1>2. IsFiniteSet(S \ {r}) /\ Cardinality(S \ {r}) = Cardinality(S) - 1
  BY Zenon, FS_RemoveElement
<1>3. Cardinality(Preceding(R, S, r)) <= Cardinality(S) - 1
  BY <1>1, <1>2, FS_Subset
<1>4. Cardinality(Preceding(R, S, r)) \in Nat /\ Cardinality(S) \in Nat
  BY Zenon, FirstFinite, FS_CardinalityType
<1> QED
  BY <1>3, <1>4

\* What is not among the first n comes after all of them.
LEMMA FirstAreFirst ==
    ASSUME NEW S, IsFiniteSet(S), NEW R, Linear(R, S), NEW n \in Nat,
           NEW r \in First(R, S, n), NEW s \in S \ First(R, S, n)
    PROVE  <<r, s>> \in R
<1> SUFFICES ASSUME <<s, r>> \in R PROVE FALSE
  BY Zenon DEF Linear, First
<1>1. Preceding(R, S, s) \subseteq Preceding(R, S, r)
  BY Zenon DEF Linear, Strict, Preceding, First
<1>2. r \in S /\ Cardinality(Preceding(R, S, r)) < n /\ ~(Cardinality(Preceding(R, S, s)) < n)
  BY Zenon DEF First
<1>3. /\ IsFiniteSet(Preceding(R, S, r)) /\ Cardinality(Preceding(R, S, r)) \in Nat
      /\ Cardinality(Preceding(R, S, s)) \in Nat
  BY Zenon, <1>2, FirstFinite
<1>4. Cardinality(Preceding(R, S, s)) <= Cardinality(Preceding(R, S, r))
  BY Zenon, <1>1, <1>3, FS_Subset
<1> QED
  BY <1>2, <1>3, <1>4

\* One more than n was asked for and there are no more than n: that is all.
LEMMA SpareTellsAll ==
    ASSUME NEW S, IsFiniteSet(S), NEW R, Strict(R, S), NEW n \in Nat,
           ~(Cardinality(First(R, S, n + 1)) > n)
    PROVE  First(R, S, n + 1) = S /\ First(R, S, n) = S
<1>1. n + 1 \in Nat /\ Cardinality(First(R, S, n + 1)) \in Nat
  BY FirstFinite
<1>2. First(R, S, n + 1) = S
  BY <1>1, FirstAll
<1> QED
  BY <1>1, <1>2, FirstOfFew

-----------------------------------------------------------------------------
(* Retention: the purge, and the walk over the dead deliveries. *)

\* What a delivery, the janitor and the walk can hold.
LetterRow == [status : {"open", "succeeded", "dead", "gone"}, at : Nat,
        body : {"none", "kept", "erased"}, purged_at : Nat]
MayGo(d) == letter[d].status \in {"succeeded", "dead"} /\ letter[d].at + delivery_days <= keep_clock

\* What a purge has selected may go, or is gone.
PurgeInv ==
    /\ letter \in [Letter -> LetterRow] /\ keep_clock \in Nat
    /\ janitor \in [Janitor -> [at : {"idle", "locked"}, now : Nat, rows : SUBSET Letter]]
    /\ purger \in [Purger -> [at : {"idle", "selected", "done"}, ids : SUBSET Letter]]
    /\ \A p \in Purger : \A d \in purger[p].ids : letter[d].status = "gone" \/ MayGo(d)

\* The dead deliveries, and those that come before one on a page.
DeadLetters == {d \in Letter : letter[d].status = "dead"}
LaterDead(d) == {c \in DeadLetters : Earlier(d, c)}
NoneGone == \A d \in Letter : letter[d].status # "gone"

\* As long as nothing is purged, a dead delivery that the walk has not met is
\* further down the list than the walk has come.
DeadWalkInv ==
    /\ dead_walk \in [at : {"idle", "walking", "done"}, offset : Nat, seen : SUBSET Letter,
                      old : SUBSET Letter]
    /\ NoneGone => \A d \in dead_walk.old \ dead_walk.seen :
                      /\ dead_walk.at = "walking" /\ d \in DeadLetters
                      /\ Cardinality(LaterDead(d)) >= dead_walk.offset

\* Erasing a body changes neither a delivery's end nor its time.
LEMMA EraseKeeps ==
    ASSUME PurgeInv, NEW j \in Janitor, EraseResponses(j), NEW d \in Letter
    PROVE  letter'[d] \in LetterRow /\ letter'[d].status = letter[d].status
           /\ letter'[d].at = letter[d].at
<1> DEFINE erased == [letter[d] EXCEPT !.body = "erased", !.purged_at = janitor[j].now]
<1>1. letter[d] \in LetterRow /\ janitor[j].now \in Nat
  BY Zenon DEF PurgeInv
<1>2. erased \in LetterRow /\ erased.status = letter[d].status /\ erased.at = letter[d].at
  BY Zenon, <1>1 DEF LetterRow
<1>3. letter'[d] = erased \/ letter'[d] = letter[d]
  BY Zenon DEF EraseResponses
<1> QED
  BY Zenon, <1>1, <1>2, <1>3

\* Every step of the janitor, the walk and the deliveries keeps it.
LEMMA PurgeStep == PurgeInv /\ [EraseNext \/ DeadNext]_retention_vars => PurgeInv'
<1> SUFFICES ASSUME PurgeInv, [EraseNext \/ DeadNext]_retention_vars PROVE PurgeInv'
  BY Zenon
<1> USE RetentionAssumption DEF PurgeInv, MayGo
<1>1. ASSUME NEW d \in Letter, EndDelivery(d) PROVE PurgeInv'
  <2>1. PICK status \in {"succeeded", "dead"}, body \in {"none", "kept"}, age \in 0 .. MaxEndAge :
           /\ age <= keep_clock
           /\ letter' = [letter EXCEPT ![d] = [status |-> status, at |-> keep_clock - age,
                                               body |-> body, purged_at |-> 0]]
    BY ZenonT(60), <1>1 DEF EndDelivery
  <2>2. letter' \in [Letter -> LetterRow]
    BY <2>1 DEF LetterRow
  <2>3. \A p \in Purger : d \notin purger[p].ids
    BY Zenon, <1>1 DEF EndDelivery
  <2> QED
    BY Zenon, <1>1, <2>1, <2>2, <2>3 DEF EndDelivery
<1>2. CASE update_policy \/ StartDeadWalk \/ DeadPage \/ UNCHANGED retention_vars
  BY ZenonT(60), <1>2 DEF update_policy, StartDeadWalk, DeadPage, retention_vars
<1>3. CASE KeepTick
  BY <1>3 DEF KeepTick, LetterRow
<1>4. ASSUME NEW j \in Janitor, SelectResponses(j) PROVE PurgeInv'
  <2>1. Batch \in SUBSET Letter
    BY Zenon DEF Batch, FirstOf
  <2> QED
    BY Zenon, <1>4, <2>1 DEF SelectResponses
<1>5. ASSUME NEW j \in Janitor, EraseResponses(j) PROVE PurgeInv'
  <2>1. \A d \in Letter : letter'[d] \in LetterRow /\ letter'[d].status = letter[d].status
                          /\ letter'[d].at = letter[d].at
    BY Zenon, <1>5, EraseKeeps
  <2>2. letter' \in [Letter -> LetterRow]
    BY Zenon, <1>5, <2>1 DEF EraseResponses
  <2>3. janitor' \in [Janitor -> [at : {"idle", "locked"}, now : Nat, rows : SUBSET Letter]]
    <3>1. IdleJanitor \in [at : {"idle", "locked"}, now : Nat, rows : SUBSET Letter]
      BY Zenon DEF IdleJanitor
    <3> QED
      BY Zenon, <1>5, <3>1 DEF EraseResponses
  <2>4. purger' = purger /\ keep_clock' = keep_clock
    BY Zenon, <1>5 DEF EraseResponses
  <2>5. ASSUME NEW p \in Purger, NEW d \in purger[p].ids
        PROVE  (letter[d].status = "gone" \/ MayGo(d))'
    BY Zenon, <2>1, <2>4, <2>5
  <2> QED
    BY Zenon, <2>2, <2>3, <2>4, <2>5
<1>6. ASSUME NEW j \in Janitor, RollBackJanitor(j) PROVE PurgeInv'
  BY Zenon, <1>6 DEF RollBackJanitor, IdleJanitor
<1>7. ASSUME NEW p \in Purger, SelectEligible(p) PROVE PurgeInv'
  <2> DEFINE eligible == {d \in Letter : OldEnough(d)}
             ids == {d \in eligible : Cardinality({c \in eligible : c < d}) < purge_batch}
  <2>1. purger' = [purger EXCEPT ![p] = [at |-> "selected", ids |-> ids]]
    BY Zenon, <1>7 DEF SelectEligible
  <2>2. ids \in SUBSET Letter /\ \A d \in ids : MayGo(d)
    BY Zenon DEF OldEnough, Ended, LetterRow
  <2> HIDE DEF ids
  <2> QED
    BY <1>7, <2>1, <2>2 DEF SelectEligible
<1>8. ASSUME NEW p \in Purger, DryRun(p) PROVE PurgeInv'
  BY Zenon, <1>8 DEF DryRun
<1>9. ASSUME NEW p \in Purger, DeleteEligible(p) PROVE PurgeInv'
  <2>1. letter' \in [Letter -> LetterRow]
    BY Zenon, <1>9 DEF DeleteEligible, LetterRow, Open
  <2>2. \A d \in Letter : letter'[d] = letter[d] \/ letter'[d].status = "gone"
    BY Zenon, <1>9 DEF DeleteEligible, Open
  <2> QED
    BY SMTT(30), <1>9, <2>1, <2>2 DEF DeleteEligible
<1> QED
  BY Zenon, <1>1, <1>2, <1>3, <1>4, <1>5, <1>6, <1>7, <1>8, <1>9 DEF EraseNext, DeadNext, EndsAndPurges

\* It holds always.
LEMMA PurgeInvariant == RetentionSpec => []PurgeInv
<1>1. RetentionInit => PurgeInv
  BY RetentionAssumption DEF RetentionInit, PurgeInv, LetterRow, Open, IdleJanitor
<1> QED
  BY <1>1, PurgeStep, PTL DEF RetentionSpec

\* purge_finished_deliveries deletes a delivery only after it ended, and not
\* before its retention period is over, for all batch sizes and periods: a
\* delivery selected without a lock cannot stop being eligible.
THEOREM RetentionKept == RetentionSpec => KeptLongEnough
<1>1. PurgeInv /\ [EraseNext \/ DeadNext]_retention_vars =>
         [\A d \in Letter : letter'[d].status = "gone" /\ letter[d].status # "gone" => 
              /\ letter[d].status \in {"succeeded", "dead"}
              /\ letter[d].at + delivery_days <= keep_clock]_retention_vars
  <2> SUFFICES ASSUME PurgeInv, EraseNext \/ DeadNext, NEW d \in Letter,
                      letter'[d].status = "gone", letter[d].status # "gone"
               PROVE  MayGo(d)
    BY Zenon DEF MayGo
  <2>1. ASSUME NEW c \in Letter, EndDelivery(c) PROVE FALSE
    BY <2>1 DEF EndDelivery, PurgeInv
  <2>2. ASSUME NEW j \in Janitor, EraseResponses(j) PROVE FALSE
    BY Zenon, <2>2, EraseKeeps
  <2>3. ASSUME NEW p \in Purger, DeleteEligible(p) PROVE MayGo(d)
    BY Zenon, <2>3 DEF DeleteEligible, PurgeInv
  <2> QED
    BY Zenon, <2>1, <2>2, <2>3 DEF EraseNext, DeadNext, EndsAndPurges, KeepTick, update_policy,
       StartDeadWalk, DeadPage, SelectResponses, RollBackJanitor, SelectEligible, DryRun
<1> QED
  BY <1>1, PurgeInvariant, PTL DEF RetentionSpec, KeptLongEnough

\* The order of the list of dead deliveries: the latest first.
LatestFirst == {p \in DeadLetters \X DeadLetters : Earlier(p[2], p[1])}

\* The order of the page is a linear order of the dead deliveries.
LEMMA LatestFirstLinear ==
    ASSUME PurgeInv
    PROVE  /\ IsFiniteSet(DeadLetters) /\ Linear(LatestFirst, DeadLetters)
           /\ \A d \in DeadLetters : Preceding(LatestFirst, DeadLetters, d) = LaterDead(d)
<1>1. IsFiniteSet(DeadLetters)
  BY Zenon, RetentionAssumption, FS_Subset DEF DeadLetters
<1>2. \A c, d \in DeadLetters : <<c, d>> \in LatestFirst <=> Earlier(d, c)
  BY Zenon DEF LatestFirst
<1>3. \A d \in DeadLetters : letter[d].at \in Nat /\ d \in Nat
  BY Zenon, RetentionAssumption DEF DeadLetters, PurgeInv, LetterRow
<1>4. Strict(LatestFirst, DeadLetters)
  BY <1>2, <1>3 DEF Strict, Earlier
<1>5. \A c, d \in DeadLetters : c = d \/ Earlier(c, d) \/ Earlier(d, c)
  BY <1>3 DEF Earlier
<1>6. \A d \in DeadLetters : Preceding(LatestFirst, DeadLetters, d) = LaterDead(d)
  BY Zenon, <1>2 DEF Preceding, LaterDead
<1> QED
  BY Zenon, <1>1, <1>2, <1>4, <1>5, <1>6 DEF Linear

\* A page that is not the last is full.
LEMMA PageIsFull ==
    ASSUME PurgeInv, NEW n \in Nat, NEW d \in DeadLetters, Cardinality(LaterDead(d)) >= n + dead_page
    PROVE  Cardinality(Page(DeadLetters, n)) = dead_page
<1> DEFINE F(k) == First(LatestFirst, DeadLetters, k)
           m == n + dead_page
<1>1. m \in Nat /\ dead_page \in Nat
  BY RetentionAssumption
<1>2. \A c \in DeadLetters : Cardinality(LaterDead(c)) \in Nat
  BY Zenon, LatestFirstLinear, FirstFinite
<1>3. \A k \in Nat, c \in DeadLetters : c \in F(k) <=> Cardinality(LaterDead(c)) < k
  BY Zenon, LatestFirstLinear DEF First
<1>4. ASSUME NEW k \in Nat, k <= m
      PROVE  IsFiniteSet(F(k)) /\ F(k) \subseteq DeadLetters /\ Cardinality(F(k)) = k
  <2>1. IsFiniteSet(F(k)) /\ F(k) \subseteq DeadLetters /\ Cardinality(F(k)) \in Nat
        /\ Cardinality(F(k)) <= k
    BY Zenon, LatestFirstLinear, FirstFinite, FirstBound
  <2>2. d \notin F(k)
    BY <1>1, <1>2, <1>3, <1>4
  <2>3. ~(Cardinality(F(k)) < k)
    BY Zenon, <2>2, LatestFirstLinear, FirstAll DEF Linear
  <2> QED
    BY <2>1, <2>3
<1>5. Page(DeadLetters, n) = F(m) \ F(n)
  <2>1. \A c \in DeadLetters : c \in Page(DeadLetters, n) <=>
           n <= Cardinality(LaterDead(c)) /\ Cardinality(LaterDead(c)) < m
    BY Zenon DEF Page, LaterDead
  <2>2. Page(DeadLetters, n) \subseteq DeadLetters /\ F(m) \subseteq DeadLetters
    BY <1>1, <1>4 DEF Page
  <2>3. \A c \in DeadLetters : c \in Page(DeadLetters, n) <=> c \in F(m) /\ c \notin F(n)
    BY <1>1, <1>2, <1>3, <2>1
  <2> HIDE DEF F
  <2> QED
    BY Zenon, <2>2, <2>3
<1>6. F(n) \intersect F(m) = F(n)
  BY <1>1, <1>2, <1>3, <1>4
<1> HIDE DEF F
<1>7. Cardinality(F(m) \ F(n)) = Cardinality(F(m)) - Cardinality(F(m) \intersect F(n))
  <2>1. IsFiniteSet(F(m)) /\ IsFiniteSet(F(n))
    BY <1>1, <1>4
  <2> QED
    BY Zenon, <2>1, FS_Difference
<1>8. Cardinality(F(m)) = m /\ Cardinality(F(m) \intersect F(n)) = n
  BY <1>1, <1>4, <1>6
<1> QED
  BY <1>1, <1>5, <1>7, <1>8

\* Deliveries that die push others back, never forward.
LEMMA MoreDead ==
    ASSUME PurgeInv, PurgeInv', DeadLetters \subseteq DeadLetters', NEW d \in DeadLetters,
           \A c \in DeadLetters : letter'[c].at = letter[c].at
    PROVE  Cardinality(LaterDead(d)) <= Cardinality(LaterDead(d)')
<1>1. LaterDead(d) \subseteq LaterDead(d)'
  BY Zenon DEF LaterDead, Earlier
<1>2. IsFiniteSet(LaterDead(d)')
  <2>1. LaterDead(d)' \subseteq Letter
    BY Zenon DEF LaterDead, DeadLetters
  <2> QED
    BY Zenon, <2>1, RetentionAssumption, FS_Subset
<1> QED
  BY Zenon, <1>1, <1>2, FS_Subset

\* Every step keeps the invariant of the walk.
LEMMA DeadWalkStep ==
    PurgeInv /\ PurgeInv' /\ DeadWalkInv /\ [EraseNext \/ DeadNext]_retention_vars => DeadWalkInv'
<1> SUFFICES ASSUME PurgeInv, PurgeInv', DeadWalkInv, [EraseNext \/ DeadNext]_retention_vars
             PROVE  DeadWalkInv'
  BY Zenon
<1> DEFINE WalkType == [at : {"idle", "walking", "done"}, offset : Nat, seen : SUBSET Letter,
                        old : SUBSET Letter]
<1>0. \A d \in DeadLetters : Cardinality(LaterDead(d)) \in Nat /\ Cardinality(LaterDead(d))' \in Nat
  <2>1. \A d \in DeadLetters : LaterDead(d) \subseteq Letter /\ LaterDead(d)' \subseteq Letter
    BY Zenon DEF LaterDead, DeadLetters
  <2> QED
    BY Zenon, <2>1, RetentionAssumption, FS_Subset, FS_CardinalityType
<1>1. CASE /\ dead_walk' = dead_walk
           /\ NoneGone' => NoneGone /\ DeadLetters \subseteq DeadLetters'
                           /\ \A c \in DeadLetters : letter'[c].at = letter[c].at
  <2>1. SUFFICES ASSUME NoneGone', NEW d \in dead_walk.old \ dead_walk.seen
                 PROVE  /\ dead_walk.at = "walking" /\ d \in DeadLetters'
                        /\ Cardinality(LaterDead(d))' >= dead_walk.offset
    BY Zenon, <1>1 DEF DeadWalkInv
  <2>2. /\ dead_walk.at = "walking" /\ d \in DeadLetters /\ dead_walk.offset \in Nat
        /\ Cardinality(LaterDead(d)) >= dead_walk.offset
    BY Zenon, <1>1, <2>1 DEF DeadWalkInv
  <2>3. Cardinality(LaterDead(d)) <= Cardinality(LaterDead(d))'
    BY Zenon, <1>1, <2>1, <2>2, MoreDead
  <2> QED
    BY <1>0, <1>1, <2>1, <2>2, <2>3
<1>2. CASE UNCHANGED <<letter, dead_walk>>
  BY Zenon, <1>1, <1>2 DEF NoneGone, DeadLetters
<1>3. ASSUME NEW c \in Letter, EndDelivery(c) PROVE DeadWalkInv'
  <2>1. \A d \in Letter \ {c} : letter'[d] = letter[d]
    BY ZenonT(60), <1>3 DEF EndDelivery, PurgeInv
  <2>2. letter[c].status = "open" /\ dead_walk' = dead_walk
    BY Zenon, <1>3 DEF EndDelivery
  <2> QED
    BY Zenon, <1>1, <2>1, <2>2 DEF NoneGone, DeadLetters
<1>4. ASSUME NEW j \in Janitor, EraseResponses(j) PROVE DeadWalkInv'
  <2>1. \A d \in Letter : letter'[d].status = letter[d].status /\ letter'[d].at = letter[d].at
    BY Zenon, <1>4, EraseKeeps
  <2> QED
    BY Zenon, <1>1, <1>4, <2>1 DEF NoneGone, DeadLetters, EraseResponses
<1>5. ASSUME NEW p \in Purger, DeleteEligible(p) PROVE DeadWalkInv'
  <2>1. \A d \in Letter : letter'[d] = letter[d] \/ letter'[d].status = "gone"
    BY Zenon, <1>5 DEF DeleteEligible, Open
  <2> QED
    BY Zenon, <1>1, <1>5, <2>1 DEF NoneGone, DeadLetters, DeleteEligible
<1>6. CASE StartDeadWalk
  <2>1. dead_walk' = [at |-> "walking", offset |-> 0, seen |-> {}, old |-> DeadLetters]
        /\ letter' = letter
    BY Zenon, <1>6 DEF StartDeadWalk, NoDeadWalk, DeadLetters
  <2>2. dead_walk' \in WalkType
    BY Zenon, <2>1 DEF DeadLetters
  <2>3. DeadLetters' = DeadLetters
    BY Zenon, <2>1 DEF DeadLetters
  <2> QED
    BY <1>0, <2>1, <2>2, <2>3 DEF DeadWalkInv
<1>7. CASE DeadPage
  <2> DEFINE n == dead_walk.offset
             page == Page(DeadLetters, n)
  <2>1. /\ dead_walk.at = "walking" /\ letter' = letter
        /\ dead_walk' = [dead_walk EXCEPT !.offset = @ + dead_page, !.seen = @ \cup page,
              !.at = IF Cardinality(page) = dead_page THEN "walking" ELSE "done"]
    BY Zenon, <1>7 DEF DeadPage, dead_deliveries, DeadLetters
  <2>2. page \subseteq Letter /\ dead_walk \in WalkType /\ n \in Nat /\ dead_page \in Nat
    BY Zenon, RetentionAssumption DEF Page, DeadLetters, DeadWalkInv
  <2> HIDE DEF page
  <2>3. /\ dead_walk' \in WalkType /\ dead_walk'.offset = n + dead_page
        /\ dead_walk'.seen = dead_walk.seen \union page /\ dead_walk'.old = dead_walk.old
        /\ Cardinality(page) = dead_page => dead_walk'.at = "walking"
    <3> DEFINE at == IF Cardinality(page) = dead_page THEN "walking" ELSE "done"
    <3>1. at \in {"walking", "done"} /\ (Cardinality(page) = dead_page => at = "walking")
      BY Zenon
    <3> HIDE DEF at
    <3>2. dead_walk' = [at |-> at, offset |-> n + dead_page, seen |-> dead_walk.seen \union page,
                        old |-> dead_walk.old]
      BY Zenon, <2>1, <2>2 DEF at
    <3> QED
      BY <2>2, <3>1, <3>2
  <2>4. DeadLetters' = DeadLetters /\ NoneGone' = NoneGone
    BY Zenon, <2>1 DEF DeadLetters, NoneGone
  <2>5. ASSUME NoneGone, NEW d \in dead_walk.old \ (dead_walk.seen \union page)
        PROVE  /\ d \in DeadLetters /\ Cardinality(LaterDead(d)) >= n + dead_page
               /\ Cardinality(page) = dead_page
    <3>1. d \in DeadLetters /\ Cardinality(LaterDead(d)) >= n
      BY Zenon, <2>5 DEF DeadWalkInv
    <3>2. ~(n <= Cardinality(LaterDead(d)) /\ Cardinality(LaterDead(d)) < n + dead_page)
      BY Zenon, <2>5, <3>1 DEF page, Page, LaterDead
    <3>3. Cardinality(LaterDead(d)) >= n + dead_page
      BY <1>0, <2>2, <3>1, <3>2
    <3> QED
      BY Zenon, <2>2, <3>1, <3>3, PageIsFull DEF page
  <2>6. \A d \in DeadLetters : LaterDead(d)' = LaterDead(d)
    BY Zenon, <2>1, <2>4 DEF LaterDead, Earlier
  <2> QED
    BY Zenon, <2>3, <2>4, <2>5, <2>6 DEF DeadWalkInv
<1> QED
  BY Zenon, <1>2, <1>3, <1>4, <1>5, <1>6, <1>7 DEF EraseNext, DeadNext, EndsAndPurges, KeepTick,
     update_policy, SelectResponses, RollBackJanitor, SelectEligible, DryRun, retention_vars

\* list_dead by offset misses no delivery that was dead when the walk began,
\* for any page size and any number of deliveries that die meanwhile, as long
\* as none is purged.
THEOREM RetentionWalk == RetentionSpec => []DeadWalkComplete
<1>1. RetentionInit => DeadWalkInv
  BY DEF RetentionInit, DeadWalkInv, NoDeadWalk
<1>2. DeadWalkInv => DeadWalkComplete
  BY Zenon DEF DeadWalkInv, DeadWalkComplete, NoneGone
<1> QED
  BY <1>1, <1>2, PurgeInvariant, DeadWalkStep, PTL DEF RetentionSpec

-----------------------------------------------------------------------------
(* The audit log: walks by cursor, and exports. *)

\* Rows of the log, and writers whose row has its id but is not committed.
AuditRow == [created_at : Nat, id : Nat]
Flushed(w) == audit_writer[w].at = "flushed"

\* Every row has an id of its own, also the rows that are not committed yet.
AuditLogInv ==
    /\ audit_log \in SUBSET AuditRow /\ IsFiniteSet(audit_log)
    /\ audit_id \in Nat /\ audit_clock \in Nat
    /\ audit_writer \in [AuditWriter -> [at : {"idle", "begun", "flushed"}, row : AuditRow]]
    /\ \A r \in audit_log : r.id <= audit_id
    /\ \A r, s \in audit_log : r.id = s.id => r = s
    /\ \A w \in AuditWriter : Flushed(w) =>
          /\ audit_writer[w].row.id <= audit_id
          /\ \A r \in audit_log : r.id # audit_writer[w].row.id
          /\ \A v \in AuditWriter :
                Flushed(v) /\ audit_writer[v].row.id = audit_writer[w].row.id => v = w

\* Every step keeps it.
LEMMA AuditLogStep ==
    AuditLogInv /\ [WalkNext \/ ExportNext]_audit_vars =>
        AuditLogInv' /\ audit_log \subseteq audit_log'
<1> SUFFICES ASSUME AuditLogInv, [WalkNext \/ ExportNext]_audit_vars
             PROVE  AuditLogInv' /\ audit_log \subseteq audit_log'
  BY Zenon
<1> DEFINE Writer == [at : {"idle", "begun", "flushed"}, row : AuditRow]
<1>1. CASE UNCHANGED log_vars
  BY Zenon, <1>1 DEF log_vars, AuditLogInv, Flushed
<1>2. CASE AuditTick
  BY SMTT(30), <1>2 DEF AuditTick, AuditLogInv, Flushed
<1>3. ASSUME NEW w \in AuditWriter, BeginAudited(w)
      PROVE  AuditLogInv' /\ audit_log \subseteq audit_log'
  <2> DEFINE new == [at |-> "begun", row |-> [created_at |-> audit_clock, id |-> 0]]
  <2>1. new \in Writer /\ new.at # "flushed"
    BY Zenon DEF AuditLogInv, AuditRow
  <2>2. audit_writer' = [audit_writer EXCEPT ![w] = new]
    BY Zenon, <1>3 DEF BeginAudited
  <2> HIDE DEF new
  <2> QED
    BY <1>3, <2>1, <2>2 DEF BeginAudited, AuditLogInv, Flushed
<1>4. ASSUME NEW w \in AuditWriter, append_audit(w)
      PROVE  AuditLogInv' /\ audit_log \subseteq audit_log'
  <2> DEFINE new == [at |-> "flushed", row |-> [created_at |-> audit_writer[w].row.created_at,
                                                id |-> audit_id + 1]]
  <2>1. new \in Writer /\ new.row.id = audit_id + 1
    BY DEF AuditLogInv, AuditRow
  <2>2. audit_writer' = [audit_writer EXCEPT ![w] = new]
    <3>1. audit_writer[w].row \in AuditRow
      BY Zenon DEF AuditLogInv
    <3>2. [audit_writer[w].row EXCEPT !.id = audit_id + 1] = new.row
      BY <3>1 DEF AuditRow
    <3> QED
      BY Zenon, <1>4, <3>2 DEF append_audit
  <2> HIDE DEF new
  <2>3. audit_writer'[w] = new /\ \A v \in AuditWriter \ {w} : audit_writer'[v] = audit_writer[v]
    BY Zenon, <2>2 DEF AuditLogInv
  <2>4. audit_log' = audit_log /\ audit_id' = audit_id + 1 /\ audit_clock' = audit_clock
    BY Zenon, <1>4 DEF append_audit
  <2>5. \A v \in AuditWriter : Flushed(v) => audit_writer[v].row.id # audit_id + 1
    BY DEF AuditLogInv, AuditRow
  <2>6. \A r \in audit_log : r.id # audit_id + 1 /\ r.id <= audit_id + 1
    BY DEF AuditLogInv, AuditRow
  <2>7. audit_writer' \in [AuditWriter -> Writer]
    BY Zenon, <2>1, <2>2 DEF AuditLogInv
  <2>8. ASSUME NEW v \in AuditWriter, Flushed(v)' PROVE audit_writer'[v].row.id <= audit_id'
    BY <2>1, <2>3, <2>4, <2>8 DEF AuditLogInv, Flushed, AuditRow
  <2> QED
    BY <2>1, <2>3, <2>4, <2>5, <2>6, <2>7, <2>8 DEF AuditLogInv, Flushed
<1>5. ASSUME NEW w \in AuditWriter, CommitAudited(w) \/ RollBackAudited(w)
      PROVE  AuditLogInv' /\ audit_log \subseteq audit_log'
  <2>1. NoWriter \in Writer /\ NoWriter.at # "flushed"
    BY Zenon DEF NoWriter, AuditRow
  <2>2. audit_writer' = [audit_writer EXCEPT ![w] = NoWriter]
        /\ audit_id' = audit_id /\ audit_clock' = audit_clock
    BY Zenon, <1>5 DEF CommitAudited, RollBackAudited, EndAudited
  <2>3. audit_writer' \in [AuditWriter -> Writer] /\ ~Flushed(w)'
        /\ \A v \in AuditWriter \ {w} : audit_writer'[v] = audit_writer[v]
    BY Zenon, <2>1, <2>2 DEF AuditLogInv, Flushed
  <2>4. CASE audit_log' = audit_log
    BY <2>2, <2>3, <2>4 DEF AuditLogInv, Flushed
  <2>5. CASE CommitAudited(w)
    <3> DEFINE new == audit_writer[w].row
    <3>1. Flushed(w) /\ audit_log' = audit_log \union {new} /\ new \in AuditRow
      BY Zenon, <2>5 DEF CommitAudited, Flushed, AuditLogInv
    <3>2. IsFiniteSet(audit_log')
      BY Zenon, <3>1, FS_AddElement DEF AuditLogInv
    <3> QED
      BY <2>2, <2>3, <3>1, <3>2 DEF AuditLogInv, Flushed
  <2> QED
    BY Zenon, <1>5, <2>4, <2>5 DEF RollBackAudited
<1> QED
  BY Zenon, <1>1, <1>2, <1>3, <1>4, <1>5 DEF WalkNext, ExportNext, WriterNext, StartWalk, NextPage,
     StartExport, ListTable, ListAudit, bounded_count, InsertTableRow, DeleteTableRow,
     audit_vars, log_vars

\* It holds always.
LEMMA AuditLogInvariant == AuditSpec => []AuditLogInv
<1>1. AuditInit => AuditLogInv
  BY FS_EmptySet DEF AuditInit, AuditLogInv, NoWriter, AuditRow, Flushed
<1> QED
  BY <1>1, AuditLogStep, PTL DEF AuditSpec

\* The listing order of rows of the log, the newest first.
NewerOf(rows) == {p \in rows \X rows : Before(p[1], p[2])}

\* The order of the pages is a linear order of the rows.
LEMMA NewestFirst ==
    ASSUME AuditLogInv, NEW rows \in SUBSET audit_log
    PROVE  /\ IsFiniteSet(rows) /\ Linear(NewerOf(rows), rows)
           /\ \A r, s \in rows : <<r, s>> \in NewerOf(rows) <=> Before(r, s)
           /\ \A n \in Nat : Newest(rows, n) = First(NewerOf(rows), rows, n)
<1>1. IsFiniteSet(rows)
  BY Zenon, FS_Subset DEF AuditLogInv
<1>2. \A r, s \in rows : <<r, s>> \in NewerOf(rows) <=> Before(r, s)
  BY Zenon DEF NewerOf
<1>3. \A r \in rows : r.created_at \in Nat /\ r.id \in Nat
  BY Zenon DEF AuditLogInv, AuditRow
<1>4. Strict(NewerOf(rows), rows)
  BY <1>2, <1>3 DEF Strict, Before
<1>5. \A r, s \in rows : r = s \/ Before(r, s) \/ Before(s, r)
  <2>1. \A r, s \in rows : r.id = s.id => r = s
    BY Zenon DEF AuditLogInv
  <2> QED
    BY <1>3, <2>1 DEF Before
<1>6. ASSUME NEW n \in Nat PROVE Newest(rows, n) = First(NewerOf(rows), rows, n)
  <2>1. \A r \in rows : {s \in rows : Before(s, r)} = Preceding(NewerOf(rows), rows, r)
    BY Zenon, <1>2 DEF Preceding
  <2> QED
    BY Zenon, <2>1 DEF Newest, First
<1> QED
  BY Zenon, <1>1, <1>2, <1>4, <1>5, <1>6 DEF Linear

\* Every old row has been seen or is still to come after the cursor.
WalkInv ==
    /\ walk \in [at : {"idle", "walking", "done"}, with_id : BOOLEAN,
                 cursor : AuditRow \union {NoCursor}, seen : SUBSET audit_log, old : SUBSET audit_log]
    /\ walk.with_id /\ walk.at = "walking" => walk.old \subseteq walk.seen \union After(walk.cursor)
    /\ walk.with_id /\ walk.at = "done" => walk.old \subseteq walk.seen

\* Every step keeps the invariant of the walk.
LEMMA WalkStep ==
    AuditLogInv /\ WalkInv /\ [WalkNext \/ ExportNext]_audit_vars => WalkInv'
<1> SUFFICES ASSUME AuditLogInv, WalkInv, [WalkNext \/ ExportNext]_audit_vars PROVE WalkInv'
  BY Zenon
<1> USE AuditAssumption
<1>1. audit_log \subseteq audit_log'
  BY Zenon, AuditLogStep
<1>2. CASE walk' = walk
  <2>1. After(walk.cursor) \subseteq After(walk.cursor)'
    BY Zenon, <1>1, <1>2 DEF After
  <2>2. walk.seen \in SUBSET audit_log' /\ walk.old \in SUBSET audit_log'
    BY Zenon, <1>1 DEF WalkInv
  <2> QED
    BY Zenon, <1>2, <2>1, <2>2 DEF WalkInv
<1>3. CASE StartWalk
  <2>1. PICK with_id \in BOOLEAN :
           walk' = [NoWalk EXCEPT !.at = "walking", !.with_id = with_id, !.old = audit_log]
    BY Zenon, <1>3 DEF StartWalk
  <2>2. walk' = [at |-> "walking", with_id |-> with_id, cursor |-> NoCursor, seen |-> {},
                 old |-> audit_log] /\ audit_log' = audit_log
    BY Zenon, <1>3, <2>1 DEF NoWalk, StartWalk, log_vars
  <2> QED
    BY Zenon, <2>2 DEF WalkInv, After
<1>4. CASE NextPage
  <2> DEFINE rest == After(walk.cursor)
             page == Newest(rest, page_limit)
             last == CHOOSE r \in page : \A s \in page : ~Before(r, s)
             full == Cardinality(page) = page_limit
             cut == [last EXCEPT !.id = IF walk.with_id THEN @ ELSE 0]
  <2>1. /\ walk.at = "walking" /\ audit_log' = audit_log
        /\ walk' = [walk EXCEPT !.at = IF full THEN "walking" ELSE "done",
                                !.cursor = IF full THEN cut ELSE NoCursor,
                                !.seen = @ \union page]
    BY Zenon, <1>4 DEF NextPage, list_audit, log_vars
  <2>2. rest \in SUBSET audit_log /\ page_limit \in Nat \ {0}
    BY DEF After
  <2> HIDE DEF rest
  <2>a. /\ IsFiniteSet(rest) /\ Linear(NewerOf(rest), rest) /\ Strict(NewerOf(rest), rest)
        /\ \A r, s \in rest : <<r, s>> \in NewerOf(rest) <=> Before(r, s)
        /\ page = First(NewerOf(rest), rest, page_limit)
    BY Zenon, <2>2, NewestFirst DEF Linear
  <2> HIDE DEF page
  <2>3. page \subseteq rest /\ IsFiniteSet(page) /\ Cardinality(page) \in Nat
        /\ Cardinality(page) <= page_limit
    BY Zenon, <2>2, <2>a, FirstFinite, FirstBound
  <2>4. ASSUME ~full PROVE page = rest
    <3>1. Cardinality(page) < page_limit
      BY <2>2, <2>3, <2>4
    <3> QED
      BY Zenon, <2>2, <2>a, <3>1, FirstAll
  <2>5. ASSUME full PROVE last \in page
    <3>1. page # {}
      BY Zenon, <2>2, <2>5, FS_EmptySet
    <3>2. \E r \in page : \A s \in page : <<r, s>> \notin NewerOf(rest)
      BY Zenon, <2>3, <2>a, <3>1, MaximalElement
    <3>3. \E r \in page : \A s \in page : ~Before(r, s)
      BY Zenon, <2>3, <2>a, <3>2
    <3> QED
      BY Zenon, <3>3
  <2>6. ASSUME full, NEW r \in rest \ page PROVE Before(last, r)
    <3>1. last \in First(NewerOf(rest), rest, page_limit)
          /\ r \in rest \ First(NewerOf(rest), rest, page_limit)
      BY Zenon, <2>5, <2>6, <2>a
    <3> HIDE DEF last
    <3>2. <<last, r>> \in NewerOf(rest)
      BY Zenon, <2>2, <2>a, <3>1, FirstAreFirst
    <3> QED
      BY Zenon, <2>3, <2>5, <2>6, <2>a, <3>2
  <2>7. ASSUME full PROVE cut \in AuditRow /\ (walk.with_id => cut = last)
    <3>1. last \in AuditRow
      BY Zenon, <2>2, <2>3, <2>5, <2>7 DEF AuditLogInv
    <3> HIDE DEF last
    <3> QED
      BY Zenon, <3>1 DEF AuditRow
  <2> HIDE DEF last, cut, full
  <2>8. walk' = [at |-> IF full THEN "walking" ELSE "done", with_id |-> walk.with_id,
                 cursor |-> IF full THEN cut ELSE NoCursor, seen |-> walk.seen \union page,
                 old |-> walk.old]
    BY ZenonT(60), <2>1 DEF WalkInv
  <2>9. walk.seen \union page \in SUBSET audit_log' /\ walk.old \in SUBSET audit_log'
    BY Zenon, <2>1, <2>2, <2>3 DEF WalkInv
  <2>10. CASE full
    <3>1. walk' = [at |-> "walking", with_id |-> walk.with_id, cursor |-> cut,
                   seen |-> walk.seen \union page, old |-> walk.old]
      BY Zenon, <2>8, <2>10
    <3>2. {r \in audit_log : Before(cut, r)} \subseteq After(walk.cursor)'
      <4>1. walk'.cursor = cut
        BY Zenon, <3>1
      <4> QED
        BY Zenon, <2>1, <4>1 DEF After
    <3>3. ASSUME walk.with_id
          PROVE  walk.old \subseteq walk.seen \union page \union After(walk.cursor)'
      <4>1. rest \subseteq page \union {r \in audit_log : Before(cut, r)}
        BY Zenon, <2>2, <2>6, <2>7, <2>10, <3>3
      <4>2. walk.old \subseteq walk.seen \union rest
        BY Zenon, <2>1, <3>3 DEF WalkInv, rest
      <4> QED
        BY Zenon, <3>2, <4>1, <4>2
    <3>4. walk'.at = "walking" /\ walk'.with_id = walk.with_id /\ walk'.old = walk.old
          /\ walk'.seen = walk.seen \union page
      BY Zenon, <3>1
    <3>5. walk' \in [at : {"idle", "walking", "done"}, with_id : BOOLEAN,
                     cursor : AuditRow \union {NoCursor}, seen : SUBSET audit_log',
                     old : SUBSET audit_log']
      BY Zenon, <2>7, <2>9, <2>10, <3>1 DEF WalkInv
    <3> QED
      BY Zenon, <3>3, <3>4, <3>5 DEF WalkInv
  <2>11. CASE ~full
    <3>1. walk' = [at |-> "done", with_id |-> walk.with_id, cursor |-> NoCursor,
                   seen |-> walk.seen \union page, old |-> walk.old]
      BY Zenon, <2>8, <2>11
    <3>2. walk.with_id => walk.old \subseteq walk.seen \union page
      BY Zenon, <2>1, <2>4, <2>11 DEF WalkInv, rest
    <3> QED
      BY Zenon, <2>9, <3>1, <3>2 DEF WalkInv
  <2> QED
    BY Zenon, <2>10, <2>11
<1> QED
  BY Zenon, <1>2, <1>3, <1>4 DEF WalkNext, ExportNext, WriterNext, AuditTick, BeginAudited, append_audit,
     CommitAudited, RollBackAudited, EndAudited, StartExport, ListTable, ListAudit, bounded_count,
     InsertTableRow, DeleteTableRow, audit_vars

\* A walk over the audit log whose cursors carry the id returns every row that
\* was committed when it began, for any page size, however transactions that
\* write rows overlap with it.
THEOREM AuditWalk == AuditSpec => []WalkComplete
<1>1. AuditInit => WalkInv
  BY DEF AuditInit, WalkInv, NoWalk
<1>2. WalkInv => WalkComplete
  BY Zenon DEF WalkInv, WalkComplete
<1> QED
  BY <1>1, <1>2, AuditLogInvariant, WalkStep, PTL DEF AuditSpec

\* An id of a table with its rows, in the order of ids.
SmallerOf(ids) == {p \in ids \X ids : p[1] < p[2]}

\* A table that does not overflow has been listed whole.
LEMMA ListedWhole ==
    ASSUME NEW ids \in SUBSET Nat, IsFiniteSet(ids), ~Overflows(Lowest(ids, export_limit + 1))
    PROVE  Lowest(Lowest(ids, export_limit + 1), export_limit) = ids
<1>1. Strict(SmallerOf(ids), ids) /\ export_limit \in Nat
  BY AuditAssumption DEF Strict, SmallerOf
<1>2. ASSUME NEW n \in Nat PROVE Lowest(ids, n) = First(SmallerOf(ids), ids, n)
  <2>1. \A i \in ids : {j \in ids : j < i} = Preceding(SmallerOf(ids), ids, i)
    BY Zenon DEF Preceding, SmallerOf
  <2> QED
    BY ZenonT(60), <2>1 DEF Lowest, First
<1>3. Lowest(ids, export_limit + 1) = First(SmallerOf(ids), ids, export_limit + 1)
      /\ Lowest(ids, export_limit) = First(SmallerOf(ids), ids, export_limit)
  BY <1>1, <1>2
<1> QED
  BY Zenon, <1>1, <1>3, SpareTellsAll DEF Overflows

\* And so has the log, if list_audit can return one row more than the export.
LEMMA AuditListedWhole ==
    ASSUME AuditLogInv, export_limit < list_cap,
           ~Overflows(list_audit(AskedWithSpare(list_cap), NoCursor))
    PROVE  Newest(list_audit(AskedWithSpare(list_cap), NoCursor), export_limit) = audit_log
<1> DEFINE R == NewerOf(audit_log)
<1>1. AskedWithSpare(list_cap) = export_limit + 1 /\ export_limit \in Nat /\ export_limit + 1 \in Nat
  BY AuditAssumption DEF AskedWithSpare
<1>2. After(NoCursor) = audit_log
  BY Zenon DEF After
<1>3. IsFiniteSet(audit_log) /\ Strict(R, audit_log)
      /\ \A n \in Nat : Newest(audit_log, n) = First(R, audit_log, n)
  BY Zenon, NewestFirst DEF Linear
<1> HIDE DEF R
<1>4. list_audit(AskedWithSpare(list_cap), NoCursor) = First(R, audit_log, export_limit + 1)
  BY Zenon, <1>1, <1>2, <1>3 DEF list_audit
<1>5. First(R, audit_log, export_limit + 1) = audit_log /\ First(R, audit_log, export_limit) = audit_log
  BY Zenon, <1>1, <1>3, <1>4, SpareTellsAll DEF Overflows
<1> QED
  BY Zenon, <1>1, <1>3, <1>4, <1>5

\* What a statement has listed holds what is kept of it, unless the export
\* says that it is truncated.
HasListed(i) == export.at \in {"audit", "count", "done"} \/ (export.at = "list" /\ i < export.step)
\* The export has listed every table it has passed.
ExportRecord ==
    [at : {"idle", "list", "audit", "count", "done"}, step : Nat, rows : [Table -> SUBSET Nat],
     audit : SUBSET AuditRow, truncated : BOOLEAN, kept : [Table -> SUBSET Nat],
     old : SUBSET AuditRow]
ExportInv ==
    /\ tables \in [Table -> [ids : SUBSET (1 .. MaxTableId), used : SUBSET (1 .. MaxTableId)]]
    /\ export \in ExportRecord
    /\ \A t \in Table : export.kept[t] \subseteq tables[t].ids
    /\ export.old \subseteq audit_log
    /\ export.at = "list" => export.step \in DOMAIN Listed
    /\ ~export.truncated =>
          /\ \A i \in DOMAIN Listed : HasListed(i) => export.kept[Listed[i]] \subseteq export.rows[Listed[i]]
          /\ export.at \in {"count", "done"} /\ export_limit < list_cap => export.old \subseteq export.audit

\* Every step keeps the invariant of the export.
LEMMA ExportStep ==
    AuditLogInv /\ ExportInv /\ [WalkNext \/ ExportNext]_audit_vars => ExportInv'
<1> SUFFICES ASSUME AuditLogInv, ExportInv, [WalkNext \/ ExportNext]_audit_vars PROVE ExportInv'
  BY Zenon
<1> USE AuditAssumption
<1>0. audit_log \subseteq audit_log'
  BY Zenon, AuditLogStep
<1>a. \A t \in Table : tables[t].ids \in SUBSET Nat /\ IsFiniteSet(tables[t].ids)
  <2>1. IsFiniteSet(1 .. MaxTableId)
    BY FS_Interval
  <2>2. \A t \in Table : tables[t].ids \subseteq 1 .. MaxTableId
    BY Zenon DEF ExportInv
  <2> QED
    BY <2>1, <2>2, FS_Subset
<1>b. Len(Listed) \in Nat \ {0} /\ DOMAIN Listed = 1 .. Len(Listed)
      /\ \A i \in DOMAIN Listed : Listed[i] \in Table
  BY SMTT(30) DEF Table
<1>1. CASE UNCHANGED <<tables, export>>
  BY Zenon, <1>0, <1>1 DEF ExportInv, HasListed
<1>2. ASSUME NEW t \in Table, InsertTableRow(t) PROVE ExportInv'
  <2>1. PICK id \in (1 .. MaxTableId) \ tables[t].used :
           tables' = [tables EXCEPT ![t].ids = @ \cup {id}, ![t].used = @ \cup {id}]
    BY Zenon, <1>2 DEF InsertTableRow
  <2>2. tables' \in [Table -> [ids : SUBSET (1 .. MaxTableId), used : SUBSET (1 .. MaxTableId)]]
        /\ \A u \in Table : tables[u].ids \subseteq tables'[u].ids
    BY ZenonT(60), <2>1 DEF ExportInv
  <2>3. export' = export /\ audit_log' = audit_log
    BY Zenon, <1>2 DEF InsertTableRow, log_vars
  <2> QED
    BY Zenon, <2>2, <2>3 DEF ExportInv, HasListed
<1>3. ASSUME NEW t \in Table, DeleteTableRow(t) PROVE ExportInv'
  <2>1. PICK id \in tables[t].ids :
           /\ tables' = [tables EXCEPT ![t].ids = @ \ {id}]
           /\ export' = [export EXCEPT !.kept[t] = @ \ {id}]
    BY Zenon, <1>3 DEF DeleteTableRow
  <2> DEFINE kept == [export.kept EXCEPT ![t] = @ \ {id}]
  <2>2. kept \in [Table -> SUBSET Nat] /\ export' = [export EXCEPT !.kept = kept]
        /\ \A u \in Table : kept[u] = IF u = t THEN export.kept[t] \ {id} ELSE export.kept[u]
    BY Zenon, <2>1 DEF ExportInv, ExportRecord
  <2> HIDE DEF kept
  <2>3. tables' \in [Table -> [ids : SUBSET (1 .. MaxTableId), used : SUBSET (1 .. MaxTableId)]]
        /\ \A u \in Table : tables'[u].ids = IF u = t THEN tables[t].ids \ {id} ELSE tables[u].ids
    BY Zenon, <2>1 DEF ExportInv
  <2>4. export' \in ExportRecord /\ export'.kept = kept /\ export'.at = export.at
        /\ export'.step = export.step /\ export'.rows = export.rows /\ export'.audit = export.audit
        /\ export'.truncated = export.truncated /\ export'.old = export.old
    BY Zenon, <2>2 DEF ExportInv, ExportRecord
  <2>5. \A u \in Table : export'.kept[u] \subseteq export.kept[u]
                         /\ export'.kept[u] \subseteq tables'[u].ids
    BY Zenon, <2>2, <2>3, <2>4 DEF ExportInv
  <2>6. audit_log' = audit_log
    BY Zenon, <1>3 DEF DeleteTableRow, log_vars
  <2> QED
    BY Zenon, <1>b, <2>3, <2>4, <2>5, <2>6 DEF ExportInv, HasListed
<1>4. CASE StartExport
  <2>1. export' = [at |-> "list", step |-> 1, rows |-> [t \in Table |-> {}], audit |-> {},
                   truncated |-> FALSE, kept |-> [t \in Table |-> tables[t].ids], old |-> audit_log]
    BY Zenon, <1>4 DEF StartExport, NoExport
  <2>2. export' \in ExportRecord
    BY Zenon, <1>a, <2>1 DEF ExportRecord, AuditLogInv
  <2>3. tables' = tables /\ audit_log' = audit_log
    BY Zenon, <1>4 DEF StartExport, log_vars
  <2> QED
    BY <1>b, <2>1, <2>2, <2>3 DEF ExportInv, HasListed
<1>5. CASE ListTable
  <2> DEFINE n == export.step
             t == Listed[n]
             list == Lowest(tables[t].ids, export_limit + 1)
             rows == [export.rows EXCEPT ![t] = Lowest(list, export_limit)]
  <2>1. export.at = "list" /\ n \in DOMAIN Listed /\ t \in Table
    BY Zenon, <1>5, <1>b DEF ListTable, ExportInv
  <2>2. Lowest(list, export_limit) \subseteq tables[t].ids
    BY Zenon DEF Lowest
  <2>3. ~Overflows(list) => Lowest(list, export_limit) = tables[t].ids
    BY Zenon, <1>a, <2>1, ListedWhole
  <2> DEFINE got == Lowest(list, export_limit)
             over == Overflows(list)
  <2>4. over \in BOOLEAN
    BY DEF Overflows
  <2>5. export' = [export EXCEPT !.rows[t] = got, !.truncated = @ \/ over,
                                 !.at = IF n = Len(Listed) THEN "audit" ELSE "list",
                                 !.step = IF n = Len(Listed) THEN 1 ELSE @ + 1]
    BY Zenon, <1>5 DEF ListTable
  <2> HIDE DEF got, over
  <2>6. export' = [at |-> IF n = Len(Listed) THEN "audit" ELSE "list",
                   step |-> IF n = Len(Listed) THEN 1 ELSE n + 1,
                   rows |-> [export.rows EXCEPT ![t] = got], audit |-> export.audit,
                   truncated |-> export.truncated \/ over, kept |-> export.kept, old |-> export.old]
    BY Zenon, <2>5 DEF ExportInv, ExportRecord
  <2>7. [export.rows EXCEPT ![t] = got] \in [Table -> SUBSET Nat]
        /\ \A u \in Table : [export.rows EXCEPT ![t] = got][u] = IF u = t THEN got ELSE export.rows[u]
    BY Zenon, <1>a, <2>1, <2>2 DEF ExportInv, ExportRecord, got
  <2>8. export' \in ExportRecord
    BY SMTT(30), <2>1, <2>4, <2>6, <2>7 DEF ExportInv, ExportRecord
  <2>9. tables' = tables /\ audit_log' = audit_log
    BY Zenon, <1>5 DEF ListTable, log_vars
  <2>10. export'.at = "list" => export'.step \in DOMAIN Listed
    BY SMTT(30), <1>b, <2>1, <2>6
  <2>11. ASSUME ~export'.truncated, NEW i \in DOMAIN Listed, HasListed(i)'
         PROVE  export'.kept[Listed[i]] \subseteq export'.rows[Listed[i]]
    <3>1. ~export.truncated /\ ~over
      BY Zenon, <2>4, <2>6, <2>11 DEF ExportInv, ExportRecord
    <3>2. i <= n
      BY SMTT(30), <1>b, <2>1, <2>6, <2>11 DEF HasListed
    <3>3. CASE Listed[i] = t
      BY ZenonT(60), <1>b, <2>3, <2>6, <2>7, <3>1, <3>3 DEF ExportInv, got, over
    <3>4. CASE Listed[i] # t
      <4>1. HasListed(i)
        BY <1>b, <2>1, <3>2, <3>4 DEF HasListed
      <4> QED
        BY Zenon, <1>b, <2>6, <2>7, <3>1, <3>4, <4>1 DEF ExportInv
    <3> QED
      BY Zenon, <3>3, <3>4
  <2> QED
    BY Zenon, <2>6, <2>8, <2>9, <2>10, <2>11 DEF ExportInv
<1>6. CASE ListAudit
  <2> DEFINE rows == list_audit(AskedWithSpare(list_cap), NoCursor)
             got == Newest(rows, export_limit)
             over == Overflows(rows)
  <2>1. export.at = "audit" /\ over \in BOOLEAN
        /\ export' = [export EXCEPT !.audit = got, !.truncated = @ \/ over, !.at = "count"]
    BY <1>6 DEF ListAudit, Overflows
  <2>2. got \subseteq audit_log /\ (export_limit < list_cap /\ ~over => got = audit_log)
    BY Zenon, AuditListedWhole DEF Newest, list_audit, After
  <2> HIDE DEF got, over
  <2>3. export' = [at |-> "count", step |-> export.step, rows |-> export.rows, audit |-> got,
                   truncated |-> export.truncated \/ over, kept |-> export.kept, old |-> export.old]
    BY Zenon, <2>1 DEF ExportInv, ExportRecord
  <2>4. export' \in ExportRecord
    BY SMTT(30), <2>1, <2>2, <2>3 DEF ExportInv, ExportRecord, AuditLogInv
  <2>5. tables' = tables /\ audit_log' = audit_log
    BY Zenon, <1>6 DEF ListAudit, log_vars
  <2> QED
    BY Zenon, <2>1, <2>2, <2>3, <2>4, <2>5 DEF ExportInv, HasListed
<1>7. CASE bounded_count
  <2> DEFINE over == Overflows(Lowest(tables[Tallied[export.step]].ids, export_limit + 1))
             last == export.step = Len(Tallied)
  <2>1. export.at = "count" /\ over \in BOOLEAN
        /\ export' = [export EXCEPT !.truncated = @ \/ over, !.at = IF last THEN "done" ELSE "count",
                                    !.step = IF last THEN 0 ELSE @ + 1]
    BY <1>7 DEF bounded_count, Overflows
  <2> HIDE DEF over
  <2>2. export' = [at |-> IF last THEN "done" ELSE "count", step |-> IF last THEN 0 ELSE export.step + 1,
                   rows |-> export.rows, audit |-> export.audit,
                   truncated |-> export.truncated \/ over, kept |-> export.kept, old |-> export.old]
    BY Zenon, <2>1 DEF ExportInv, ExportRecord
  <2>3. export' \in ExportRecord
    <3> DEFINE at == IF last THEN "done" ELSE "count"
               step == IF last THEN 0 ELSE export.step + 1
    <3>1. export \in ExportRecord /\ at \in {"done", "count"} /\ step \in Nat
          /\ (export.truncated \/ over) \in BOOLEAN
      BY SMTT(30) DEF ExportInv, ExportRecord
    <3> HIDE DEF at, step
    <3>2. export' = [at |-> at, step |-> step, rows |-> export.rows, audit |-> export.audit,
                     truncated |-> export.truncated \/ over, kept |-> export.kept,
                     old |-> export.old]
      BY Zenon, <2>2 DEF at, step
    <3> QED
      BY Zenon, <3>1, <3>2 DEF ExportRecord
  <2>4. tables' = tables /\ audit_log' = audit_log
    BY Zenon, <1>7 DEF bounded_count, log_vars
  <2>5. export'.at \in {"count", "done"} /\ (~export'.truncated => ~export.truncated)
        /\ export'.rows = export.rows /\ export'.kept = export.kept
        /\ export'.audit = export.audit /\ export'.old = export.old
    BY Zenon, <2>1, <2>2 DEF ExportInv, ExportRecord
  <2> QED
    BY Zenon, <2>1, <2>3, <2>4, <2>5 DEF ExportInv, HasListed
<1> QED
  BY ZenonT(60), <1>1, <1>2, <1>3, <1>4, <1>5, <1>6, <1>7 DEF WalkNext, ExportNext, WriterNext, AuditTick,
     BeginAudited, append_audit, CommitAudited, RollBackAudited, EndAudited, StartWalk, NextPage,
     audit_vars

\* An export that is not marked truncated holds every row that existed from
\* its first statement to its last, for every list of tables and every limit
\* that leaves list_audit one row to spare.
THEOREM AuditExport == AuditSpec => []ExportComplete
<1>1. AuditInit => ExportInv
  BY SMTT(30) DEF AuditInit, ExportInv, ExportRecord, NoExport, HasListed
<1>2. ExportInv => ExportComplete
  BY Zenon DEF ExportInv, ExportComplete, HasListed
<1> QED
  BY <1>1, <1>2, AuditLogInvariant, ExportStep, PTL DEF AuditSpec

-----------------------------------------------------------------------------
(* The transactional outbox, for any number of messages and relays, any batch
   size, lease, clock skew and number of crashes. *)

\* What is inductive: the types, the shape of the rows and relays, and that
\* tokens tell the claims apart.
OutboxInv == TypeOK /\ RowShape /\ RelayShape /\ TokensDistinct

\* The first state: no message, idle relays.
LEMMA InitOutbox == Init => OutboxInv
<1> SUFFICES ASSUME Init PROVE OutboxInv
    BY Zenon
<1>1. TypeOK
    <2>1. Idle \in Run
        BY Zenon DEF Idle, Run
    <2>2. row \in [Message -> Row]
        BY Zenon DEF Init, Row
    <2> QED
        BY Zenon, <2>1, <2>2 DEF Init, TypeOK
<1>2. RowShape /\ RelayShape /\ TokensDistinct
    BY Zenon, NullAssumption DEF Init, RowShape, RelayShape, TokensDistinct, Held, Idle, Outcome
<1> QED
    BY Zenon, <1>1, <1>2 DEF OutboxInv

\* utcnow() and the time a lease ends are numbers.
LEMMA UtcnowType ==
    ASSUME TypeOK, NEW r \in Relay
    PROVE  utcnow(r) \in Nat /\ utcnow(r) + LeaseSeconds \in Nat
BY OutboxAssumption DEF TypeOK, OutboxAssumption, utcnow

\* A message is enqueued.
LEMMA EnqueueInv ==
    ASSUME OutboxInv, NEW m \in Message, Enqueue(m)
    PROVE  OutboxInv'
<1> USE DEF OutboxInv, Enqueue
<1>1. \A n \in Message : n # m => row'[n] = row[n]
    BY Zenon DEF TypeOK
<1>2. /\ row'[m] \in Row
      /\ row'[m].status = "queued" /\ row'[m].lease_token = row[m].lease_token
      /\ row'[m].locked_until = row[m].locked_until
      /\ row'[m].next_attempt_at = clock
    BY Zenon DEF TypeOK, Row
<1>3. TypeOK'
    BY Zenon, <1>1, <1>2 DEF TypeOK
<1>4. RowShape'
    BY <1>1, <1>2, NullAssumption DEF RowShape, TypeOK, NullAssumption
<1>5. RelayShape'
    BY <1>1, <1>2 DEF RelayShape, Held, TypeOK, Run, Claimed
<1>6. TokensDistinct'
    BY ZenonT(60), <1>1, <1>2 DEF TokensDistinct, Held
<1> QED
    BY Zenon, <1>3, <1>4, <1>5, <1>6

\* The platform stores an event.
LEMMA AcceptInv ==
    ASSUME OutboxInv, NEW m \in Message, Accept(m)
    PROVE  OutboxInv'
BY ZenonT(60) DEF OutboxInv, Accept, TypeOK, RowShape, RelayShape, TokensDistinct, Held

\* A relay sends the next message of its batch.
LEMMA SendInv ==
    ASSUME OutboxInv, NEW r \in Relay, Send(r)
    PROVE  OutboxInv'
<1> USE DEF OutboxInv
<1>1. PICK c \in relay[r].todo :
         /\ relay' = [relay EXCEPT ![r].todo = @ \ {c}, ![r].current = c]
         /\ inflight' = inflight \union {c.id}
    BY Zenon DEF Send
<1>2. UNCHANGED <<clock, row, accepted, issued, crashes>> /\ relay[r].current = NULL
    BY Zenon DEF Send
<1>3. c \in Claimed /\ c # NULL /\ c \in Held(r)
    <2>1. relay[r] \in Run
        BY Zenon DEF TypeOK
    <2>2. c \in Claimed
        BY Zenon, <2>1 DEF Run
    <2> QED
        BY Zenon, <2>2, NullAssumption DEF NullAssumption, Held
<1>4. /\ \A s \in Relay : s # r => relay'[s] = relay[s]
      /\ relay'[r] = [relay[r] EXCEPT !.todo = @ \ {c}, !.current = c]
    BY Zenon, <1>1 DEF TypeOK
<1>5. /\ relay'[r] \in Run
      /\ relay'[r].todo = relay[r].todo \ {c} /\ relay'[r].current = c
      /\ relay'[r].outcome = relay[r].outcome
    BY Zenon, <1>3, <1>4 DEF TypeOK, Run
<1>6. ASSUME NEW s \in Relay PROVE Held(s)' = Held(s)
    <2>1. CASE s # r
        BY Zenon, <2>1, <1>4 DEF Held
    <2>2. CASE s = r
        <3>1. Held(r)' = ((relay[r].todo \ {c}) \union {c}) \ {NULL}
            BY Zenon, <1>5 DEF Held
        <3>2. Held(r) = (relay[r].todo \union {NULL}) \ {NULL}
            BY Zenon, <1>2 DEF Held
        <3> QED
            BY Zenon, <2>2, <3>1, <3>2, <1>1, <1>3
    <2> QED
        BY Zenon, <2>1, <2>2
<1>7. TypeOK'
    <2>1. relay' \in [Relay -> Run]
        BY Zenon, <1>1, <1>4, <1>5 DEF TypeOK
    <2> QED
        BY Zenon, <2>1, <1>1, <1>2, <1>3 DEF TypeOK, Claimed
<1>8. RowShape'
    BY Zenon, <1>2 DEF RowShape
<1>9. RelayShape'
    <2>1. relay[r].outcome = NULL
        BY Zenon, <1>2 DEF RelayShape
    <2>2. ASSUME NEW s \in Relay
          PROVE  /\ relay'[s].outcome # NULL => relay'[s].current # NULL
                 /\ relay'[s].outcome = "ok" => relay'[s].current.id \in accepted'
        BY Zenon, <2>1, <1>2, <1>4, <1>5, NullAssumption DEF RelayShape, NullAssumption, Outcome
    <2>3. \A s \in Relay : \A d \in Held(s)' : row'[d.id].status # "absent"
        BY Zenon, <1>2, <1>6 DEF RelayShape
    <2>4. \A m \in inflight' : row'[m].status # "absent"
        BY Zenon, <1>1, <1>2, <1>3 DEF RelayShape
    <2> QED
        BY Zenon, <2>2, <2>3, <2>4 DEF RelayShape
<1>10. TokensDistinct'
    BY <1>2, <1>6 DEF TokensDistinct
<1> QED
    BY Zenon, <1>7, <1>8, <1>9, <1>10

\* A relay learns an outcome.
LEMMA RespondInv ==
    ASSUME OutboxInv, NEW r \in Relay, NEW o \in Outcome, Respond(r, o)
    PROVE  OutboxInv'
<1> USE DEF OutboxInv
<1>1. /\ \A s \in Relay : s # r => relay'[s] = relay[s]
      /\ relay'[r] = [relay[r] EXCEPT !.outcome = o]
      /\ UNCHANGED <<clock, row, inflight, accepted, issued, crashes>>
      /\ relay[r].current # NULL
      /\ o = "ok" => relay[r].current.id \in accepted
    BY Zenon DEF TypeOK, Respond
<1>2. /\ relay'[r] \in Run
      /\ relay'[r].todo = relay[r].todo /\ relay'[r].current = relay[r].current
      /\ relay'[r].outcome = o
    BY ZenonT(60), <1>1 DEF TypeOK, Run
<1>3. \A s \in Relay : Held(s)' = Held(s)
    BY Zenon, <1>1, <1>2 DEF Held
<1>4. TypeOK'
    <2>1. relay' \in [Relay -> Run]
        BY Zenon, <1>1, <1>2 DEF TypeOK, Respond
    <2> QED
        BY Zenon, <2>1, <1>1 DEF TypeOK
<1>5. RowShape'
    BY Zenon, <1>1 DEF RowShape
<1>6. RelayShape'
    <2>1. ASSUME NEW s \in Relay
          PROVE  /\ relay'[s].outcome # NULL => relay'[s].current # NULL
                 /\ relay'[s].outcome = "ok" => relay'[s].current.id \in accepted'
        BY Zenon, <1>1, <1>2 DEF RelayShape
    <2>2. \A s \in Relay : \A d \in Held(s)' : row'[d.id].status # "absent"
        BY <1>1, <1>3 DEF RelayShape
    <2> QED
        BY Zenon, <2>1, <2>2, <1>1 DEF RelayShape
<1>7. TokensDistinct'
    BY <1>1, <1>3 DEF TokensDistinct
<1> QED
    BY Zenon, <1>4, <1>5, <1>6, <1>7

\* A relay dies with its batch leased.
LEMMA CrashInv ==
    ASSUME OutboxInv, NEW r \in Relay, Crash(r)
    PROVE  OutboxInv'
<1> USE DEF OutboxInv
<1>1. /\ \A s \in Relay : s # r => relay'[s] = relay[s]
      /\ relay'[r] = Idle
      /\ UNCHANGED <<clock, row, inflight, accepted, issued>>
    BY Zenon DEF TypeOK, Crash
<1>2. Idle \in Run
    BY Zenon DEF Idle, Run
<1>3. Held(r)' = {} /\ \A s \in Relay : s # r => Held(s)' = Held(s)
    BY <1>1 DEF Held, Idle
<1>4. TypeOK'
    <2>1. relay' \in [Relay -> Run]
        BY Zenon, <1>1, <1>2 DEF TypeOK, Crash
    <2> QED
        BY <2>1, <1>1 DEF TypeOK, Crash
<1>5. RowShape'
    BY Zenon, <1>1 DEF RowShape
<1>6. RelayShape'
    <2>1. ASSUME NEW s \in Relay
          PROVE  /\ relay'[s].outcome # NULL => relay'[s].current # NULL
                 /\ relay'[s].outcome = "ok" => relay'[s].current.id \in accepted'
        BY SMTT(30), <1>1, NullAssumption DEF RelayShape, Idle, NullAssumption, Outcome
    <2>2. \A s \in Relay : \A d \in Held(s)' : row'[d.id].status # "absent"
        BY Zenon, <1>1, <1>3 DEF RelayShape
    <2> QED
        BY Zenon, <2>1, <2>2, <1>1 DEF RelayShape
<1>7. TokensDistinct'
    BY SMTT(30), <1>1, <1>3 DEF TokensDistinct
<1> QED
    BY Zenon, <1>4, <1>5, <1>6, <1>7

\* Time passes.
LEMMA TickInv ==
    ASSUME OutboxInv, Tick \/ UNCHANGED vars
    PROVE  OutboxInv'
BY DEF OutboxInv, Tick, vars, TypeOK, RowShape, RelayShape, TokensDistinct, Held

\* A relay claims a batch under a fresh token.
LEMMA ClaimInv ==
    ASSUME OutboxInv, NEW r \in Relay, Claim(r)
    PROVE  OutboxInv'
<1> USE DEF OutboxInv
<1> DEFINE batch == DueBatch(utcnow(r))
           taken(m) == [id |-> m, lease_token |-> issued + 1,
                        attempt_number |-> row[m].attempt_count + 1]
           leased(m) == [row[m] EXCEPT !.lease_token = issued + 1,
                                       !.locked_until = utcnow(r) + LeaseSeconds,
                                       !.attempt_count = row[m].attempt_count + 1]
<1>1. /\ relay[r] = Idle /\ issued' = issued + 1
      /\ row' = [m \in Message |-> IF m \in batch THEN leased(m) ELSE row[m]]
      /\ relay' = [relay EXCEPT ![r].todo = {taken(m) : m \in batch}]
      /\ UNCHANGED <<clock, inflight, accepted, crashes>>
    BY Zenon DEF Claim, NewToken
<1>2. batch \subseteq Message /\ \A m \in batch : row[m].status = "queued"
    BY Zenon DEF DueBatch, Due
<1> HIDE DEF batch
<1>3. \A m \in Message : m \notin batch => row'[m] = row[m]
    BY Zenon, <1>1
<1>4. ASSUME NEW m \in batch
      PROVE  /\ row'[m] \in Row
             /\ row'[m].status = "queued" /\ row'[m].lease_token = issued + 1
             /\ row'[m].locked_until = utcnow(r) + LeaseSeconds
             /\ row'[m].next_attempt_at = row[m].next_attempt_at
    <2>1. m \in Message /\ row[m] \in Row /\ row[m].status = "queued"
        BY Zenon, <1>2 DEF TypeOK
    <2>2. row'[m] = leased(m)
        BY Zenon, <1>1, <2>1
    <2>3. issued + 1 \in Nat /\ row[m].attempt_count + 1 \in Nat
        BY <2>1 DEF Row, TypeOK
    <2>4. utcnow(r) + LeaseSeconds \in Nat
        BY Zenon, UtcnowType
    <2>5. leased(m) \in Row
        BY Zenon, <2>1, <2>3, <2>4 DEF Row
    <2>6. /\ leased(m).status = row[m].status /\ leased(m).lease_token = issued + 1
          /\ leased(m).locked_until = utcnow(r) + LeaseSeconds
          /\ leased(m).next_attempt_at = row[m].next_attempt_at
        BY Zenon, <2>1 DEF Row
    <2> HIDE DEF leased
    <2> QED
        BY Zenon, <2>1, <2>2, <2>5, <2>6
<1>5. /\ \A s \in Relay : s # r => relay'[s] = relay[s]
      /\ relay'[r].todo = {taken(m) : m \in batch}
      /\ relay'[r].current = NULL /\ relay'[r].outcome = NULL
      /\ relay'[r] \in Run
    <2>1. relay'[r] = [Idle EXCEPT !.todo = {taken(m) : m \in batch}]
        BY Zenon, <1>1 DEF TypeOK
    <2>2. ASSUME NEW m \in batch PROVE taken(m) \in Claimed
        <3>1. m \in Message /\ row[m] \in Row
            BY Zenon, <1>2 DEF TypeOK
        <3>2. issued + 1 \in Nat /\ row[m].attempt_count + 1 \in Nat
            BY SMTT(30), <3>1 DEF Row, TypeOK
        <3> QED BY Zenon, <3>1, <3>2 DEF Claimed
    <2>3. {taken(m) : m \in batch} \in SUBSET Claimed
        BY Zenon, <2>2
    <2> HIDE DEF taken
    <2>4. \A s \in Relay : s # r => relay'[s] = relay[s]
        BY Zenon, <1>1 DEF TypeOK
    <2> QED
        BY Zenon, <2>1, <2>3, <2>4 DEF Run, Idle
<1>6. /\ \A s \in Relay : s # r => Held(s)' = Held(s)
      /\ \A c \in Held(r)' : \E m \in batch : c = taken(m)
    BY Zenon, <1>5 DEF Held
<1>7. TypeOK'
    <2>1. row' \in [Message -> Row]
        <3>1. \A m \in Message : row'[m] \in Row
            BY Zenon, <1>3, <1>4 DEF TypeOK
        <3>2. row' = [m \in Message |-> row'[m]]
            BY Zenon, <1>1
        <3> QED
            BY Zenon, <3>1, <3>2
    <2>2. relay' \in [Relay -> Run]
        <3>1. \A s \in Relay : relay'[s] \in Run
            BY Zenon, <1>5 DEF TypeOK
        <3>2. relay' = [s \in Relay |-> relay'[s]]
            BY Zenon, <1>1 DEF TypeOK
        <3> QED
            BY Zenon, <3>1, <3>2
    <2>3. issued' = issued + 1 /\ UNCHANGED <<clock, inflight, accepted, crashes>>
        BY <1>1, Zenon
    <2>4. issued' \in Nat
        BY SMTT(30), <2>3 DEF TypeOK
    <2> QED
        BY Zenon, <2>1, <2>2, <2>3, <2>4 DEF TypeOK
<1>8. RowShape'
    <2> SUFFICES ASSUME NEW m \in Message
                 PROVE /\ (row'[m].lease_token = NULL) = (row'[m].locked_until = NULL)
                       /\ row'[m].lease_token # NULL => row'[m].status = "queued"
                       /\ row'[m].status = "queued" => row'[m].next_attempt_at # NULL
        BY Zenon DEF RowShape
    <2>1. CASE m \in batch
        <3>1. issued + 1 \in Nat
            BY SMTT(30) DEF TypeOK
        <3>2. row'[m].lease_token # NULL /\ row'[m].locked_until # NULL
            BY Zenon, <2>1, <1>4, <3>1, UtcnowType, NullAssumption DEF NullAssumption
        <3> QED
            BY Zenon, <2>1, <1>2, <1>4, <3>2 DEF RowShape
    <2>2. CASE m \notin batch
        BY Zenon, <2>2, <1>3 DEF RowShape
    <2> QED
        BY Zenon, <2>1, <2>2
<1>9. RelayShape'
    <2>0. \A m \in Message : row'[m].status = row[m].status
        BY Zenon, <1>2, <1>3, <1>4
    <2>1. ASSUME NEW s \in Relay
          PROVE  /\ relay'[s].outcome # NULL => relay'[s].current # NULL
                 /\ relay'[s].outcome = "ok" => relay'[s].current.id \in accepted'
        <3>1. CASE s = r
            BY Zenon, <3>1, <1>5, NullAssumption DEF NullAssumption, Outcome
        <3>2. CASE s # r
            <4>1. relay'[s] = relay[s] /\ accepted' = accepted
                BY Zenon, <3>2, <1>1, <1>5
            <4> QED
                BY Zenon, <4>1 DEF RelayShape
        <3> QED
            BY Zenon, <3>1, <3>2
    <2>2. ASSUME NEW s \in Relay, NEW d \in Held(s)' PROVE row'[d.id].status # "absent"
        <3>1. CASE s = r
            BY SMTT(30), <3>1, <1>2, <1>4, <1>6
        <3>2. CASE s # r
            <4>1. d \in Held(s) /\ relay[s] \in Run
                BY Zenon, <3>2, <1>6 DEF TypeOK
            <4>2. d.id \in Message
                BY Zenon, <4>1 DEF Held, Run, Claimed
            <4> QED
                BY ZenonT(60), <4>1, <4>2, <2>0 DEF RelayShape
        <3> QED
            BY Zenon, <3>1, <3>2
    <2>3. \A m \in inflight' : row'[m].status # "absent"
        BY Zenon, <1>1, <2>0 DEF RelayShape, TypeOK
    <2> QED
        BY ZenonT(60), <2>1, <2>2, <2>3 DEF RelayShape
<1>10. TokensDistinct'
    <2>1. issued \in Nat /\ issued' = issued + 1
        BY Zenon, <1>1 DEF TypeOK
    <2>2. ASSUME NEW m \in Message, row'[m].lease_token # NULL
          PROVE  row'[m].lease_token <= issued'
        <3>1. CASE m \in batch
            BY SMTT(30), <3>1, <2>1, <1>4
        <3>2. CASE m \notin batch
            <4>1. row'[m] = row[m] /\ row[m] \in Row
                BY Zenon, <3>2, <1>3 DEF TypeOK
            <4>2. row[m].lease_token \in Nat /\ row[m].lease_token <= issued
                BY Zenon, <4>1, <2>2 DEF TokensDistinct, Row
            <4> QED
                BY <4>1, <4>2, <2>1
        <3> QED
            BY Zenon, <3>1, <3>2
    <2>3. ASSUME NEW s \in Relay, s # r, NEW c \in Held(s)'
          PROVE  c.lease_token \in Nat /\ c.lease_token <= issued
        <3>1. c \in Held(s) /\ relay[s] \in Run
            BY Zenon, <2>3, <1>6 DEF TypeOK
        <3> QED
            BY Zenon, <3>1 DEF TokensDistinct, Held, Run, Claimed
    <2>4. \A c \in Held(r)' : c.lease_token = issued + 1
        BY <1>6
    <2>5. ASSUME NEW s \in Relay, NEW c \in Held(s)' PROVE c.lease_token <= issued'
        BY <2>1, <2>3, <2>4
    <2>6. ASSUME NEW s \in Relay, NEW t \in Relay, NEW c \in Held(s)', NEW d \in Held(t)',
                 c.id = d.id, c.lease_token = d.lease_token
          PROVE  s = t /\ c = d
        <3>1. CASE s = r /\ t = r
            BY SMTT(30), <3>1, <2>6, <1>6
        <3>2. CASE s # r /\ t # r
            BY <3>2, <2>6, <1>6 DEF TokensDistinct
        <3>3. CASE (s = r /\ t # r) \/ (s # r /\ t = r)
            BY SMTT(30), <3>3, <2>1, <2>3, <2>4, <2>6
        <3> QED
            BY Zenon, <3>1, <3>2, <3>3
    <2> QED
        BY Zenon, <2>2, <2>5, <2>6 DEF TokensDistinct
<1> QED
    BY Zenon, <1>7, <1>8, <1>9, <1>10

\* A recorded outcome, field by field: only the row of the current message may
\* change, and then its lease was the relay's.
LEMMA FinishEffect ==
    ASSUME OutboxInv, NEW r \in Relay, Finish(r)
    PROVE  /\ relay[r].current \in Claimed /\ relay[r].outcome \in Outcome
           /\ \A s \in Relay : s # r => relay'[s] = relay[s]
           /\ relay'[r] = [relay[r] EXCEPT !.current = NULL, !.outcome = NULL]
           /\ UNCHANGED <<clock, inflight, accepted, issued, crashes>>
           /\ \A m \in Message : m # relay[r].current.id => row'[m] = row[m]
           /\ row' \in [Message -> Row] /\ relay' \in [Relay -> Run]
           /\ LET m == relay[r].current.id
              IN  \/ row' = row
                  \/ /\ row[m].lease_token # NULL /\ row[m].status = "queued"
                     /\ row'[m].lease_token = NULL /\ row'[m].locked_until = NULL
                     /\ \/ row'[m].status = "sent" /\ relay[r].outcome = "ok"
                        \/ row'[m].status = "failed"
                        \/ row'[m].status = "queued" /\ row'[m].next_attempt_at \in Nat
<1> DEFINE c == relay[r].current
           m == c.id
<1>1. relay[r] \in Run /\ relay[r].outcome # NULL
    BY Zenon DEF Finish, OutboxInv, TypeOK
<1>2. c \in Claimed /\ relay[r].outcome \in Outcome
    BY Zenon, <1>1 DEF Run, OutboxInv, RelayShape
<1>3. /\ m \in Message /\ row[m] \in Row
      /\ c.lease_token \in Nat
    BY Zenon, <1>2 DEF Claimed, OutboxInv, TypeOK
<1>4. /\ relay' = [relay EXCEPT ![r].current = NULL, ![r].outcome = NULL]
      /\ UNCHANGED <<clock, inflight, accepted, issued, crashes>>
    BY Zenon DEF Finish
<1>5. /\ \A s \in Relay : s # r => relay'[s] = relay[s]
      /\ relay'[r] = [relay[r] EXCEPT !.current = NULL, !.outcome = NULL]
    BY Zenon, <1>4 DEF OutboxInv, TypeOK
<1>6. relay' \in [Relay -> Run]
    <2>1. relay'[r] \in Run
        BY Zenon, <1>1, <1>5 DEF Run
    <2> QED
        BY Zenon, <2>1, <1>4, <1>5 DEF OutboxInv, TypeOK
<1>7. Released(m) \in Row /\ Released(m).lease_token = NULL /\ Released(m).locked_until = NULL
      /\ Released(m).status = row[m].status
    BY Zenon, <1>3 DEF Row, Released
<1>8. HoldsToken(c) => row[m].lease_token # NULL /\ row[m].status = "queued"
    BY Zenon, <1>3, NullAssumption DEF HoldsToken, NullAssumption, OutboxInv, RowShape
<1>9. \/ row' = row
      \/ \E status \in {"sent", "failed"} :
            /\ HoldsToken(c)
            /\ status = "sent" => relay[r].outcome = "ok"
            /\ row' = [row EXCEPT ![m] =
                  [Released(m) EXCEPT !.status = status, !.next_attempt_at = NULL]]
      \/ \E delay \in 0..RetryCap :
            /\ HoldsToken(c)
            /\ row' = [row EXCEPT ![m] =
                  [Released(m) EXCEPT !.next_attempt_at = utcnow(r) + delay]]
    BY Zenon DEF Finish
<1> HIDE DEF c, m
<1>10. ASSUME NEW status \in {"sent", "failed"}
       PROVE  LET x == [Released(m) EXCEPT !.status = status, !.next_attempt_at = NULL]
              IN  /\ x \in Row /\ x.status = status
                  /\ x.lease_token = NULL /\ x.locked_until = NULL
    BY Zenon, <1>7 DEF Row
<1>11. ASSUME NEW delay \in 0..RetryCap
       PROVE  LET x == [Released(m) EXCEPT !.next_attempt_at = utcnow(r) + delay]
              IN  /\ x \in Row /\ x.status = row[m].status
                  /\ x.lease_token = NULL /\ x.locked_until = NULL
                  /\ x.next_attempt_at \in Nat
    <2>1. utcnow(r) \in Nat
        BY Zenon, UtcnowType DEF OutboxInv
    <2>2. utcnow(r) + delay \in Nat
        BY <2>1, OutboxAssumption DEF OutboxAssumption
    <2> QED
        BY Zenon, <1>7, <2>2 DEF Row
<1>12. row \in [Message -> Row]
    BY Zenon DEF OutboxInv, TypeOK
<1>13. /\ \A n \in Message : n # m => row'[n] = row[n]
       /\ row' \in [Message -> Row]
       /\ \/ row' = row
          \/ /\ row[m].lease_token # NULL /\ row[m].status = "queued"
             /\ row'[m].lease_token = NULL /\ row'[m].locked_until = NULL
             /\ \/ row'[m].status = "sent" /\ relay[r].outcome = "ok"
                \/ row'[m].status = "failed"
                \/ row'[m].status = "queued" /\ row'[m].next_attempt_at \in Nat
    <2>1. CASE row' = row
        BY Zenon, <2>1, <1>12
    <2>2. ASSUME NEW status \in {"sent", "failed"}, HoldsToken(c),
                 status = "sent" => relay[r].outcome = "ok",
                 row' = [row EXCEPT ![m] =
                    [Released(m) EXCEPT !.status = status, !.next_attempt_at = NULL]]
          PROVE  <1>13!:
        <3> DEFINE x == [Released(m) EXCEPT !.status = status, !.next_attempt_at = NULL]
        <3>1. /\ x \in Row /\ x.status = status
              /\ x.lease_token = NULL /\ x.locked_until = NULL
            BY Zenon, <1>10
        <3>2. row' = [row EXCEPT ![m] = x]
            BY Zenon, <2>2
        <3> HIDE DEF x
        <3> QED
            BY Zenon, <3>1, <3>2, <2>2, <1>3, <1>8, <1>12
    <2>3. ASSUME NEW delay \in 0..RetryCap, HoldsToken(c),
                 row' = [row EXCEPT ![m] =
                    [Released(m) EXCEPT !.next_attempt_at = utcnow(r) + delay]]
          PROVE  <1>13!:
        <3> DEFINE x == [Released(m) EXCEPT !.next_attempt_at = utcnow(r) + delay]
        <3>1. /\ x \in Row /\ x.status = row[m].status
              /\ x.lease_token = NULL /\ x.locked_until = NULL
              /\ x.next_attempt_at \in Nat
            BY Zenon, <1>11
        <3>2. row' = [row EXCEPT ![m] = x]
            BY Zenon, <2>3
        <3> HIDE DEF x
        <3> QED
            BY Zenon, <3>1, <3>2, <2>3, <1>3, <1>8, <1>12
    <2> QED
        BY Zenon, <1>9, <2>1, <2>2, <2>3
<1> QED
    BY Zenon, <1>2, <1>4, <1>5, <1>6, <1>13 DEF c, m

\* A relay records an outcome if its token is still the row's.
LEMMA FinishInv ==
    ASSUME OutboxInv, NEW r \in Relay, Finish(r)
    PROVE  OutboxInv'
<1> DEFINE m == relay[r].current.id
<1>1. relay[r].current \in Claimed /\ relay[r] \in Run
    BY Zenon, FinishEffect DEF OutboxInv, TypeOK
<1>2. m \in Message
    BY Zenon, <1>1 DEF Claimed
<1>3. /\ relay'[r].todo = relay[r].todo
      /\ relay'[r].current = NULL /\ relay'[r].outcome = NULL
      /\ \A s \in Relay : s # r => relay'[s] = relay[s]
    BY ZenonT(60), <1>1, FinishEffect DEF Run
<1>4. \A s \in Relay : Held(s)' \subseteq Held(s)
    BY Zenon, <1>3 DEF Held
<1>5. \A n \in Message : row'[n].status = "absent" => row[n].status = "absent"
    BY ZenonT(60), <1>2, FinishEffect
<1>6. TypeOK'
    BY Zenon, FinishEffect DEF OutboxInv, TypeOK
<1>7. RowShape'
    <2> SUFFICES ASSUME NEW n \in Message
                 PROVE /\ (row'[n].lease_token = NULL) = (row'[n].locked_until = NULL)
                       /\ row'[n].lease_token # NULL => row'[n].status = "queued"
                       /\ row'[n].status = "queued" => row'[n].next_attempt_at # NULL
        BY Zenon DEF RowShape
    <2>1. CASE row'[n] = row[n]
        BY Zenon, <2>1 DEF OutboxInv, RowShape
    <2>2. CASE row'[n] # row[n]
        <3>1. n = m /\ row' # row
            BY ZenonT(60), <2>2, FinishEffect
        <3>2. /\ row'[n].lease_token = NULL /\ row'[n].locked_until = NULL
              /\ \/ row'[n].status \in {"sent", "failed"}
                 \/ row'[n].next_attempt_at \in Nat
            BY Zenon, <3>1, FinishEffect
        <3> QED
            BY Zenon, <3>2, NullAssumption DEF NullAssumption
    <2> QED
        BY Zenon, <2>1, <2>2
<1>8. RelayShape'
    <2>1. ASSUME NEW s \in Relay
          PROVE  /\ relay'[s].outcome # NULL => relay'[s].current # NULL
                 /\ relay'[s].outcome = "ok" => relay'[s].current.id \in accepted'
        <3>1. CASE s = r
            BY Zenon, <3>1, <1>3, NullAssumption DEF NullAssumption, Outcome
        <3>2. CASE s # r
            BY ZenonT(60), <3>2, <1>3, FinishEffect DEF OutboxInv, RelayShape
        <3> QED
            BY Zenon, <3>1, <3>2
    <2>2. ASSUME NEW s \in Relay, NEW d \in Held(s)' PROVE row'[d.id].status # "absent"
        <3>1. d \in Held(s) /\ relay[s] \in Run
            BY Zenon, <1>4 DEF OutboxInv, TypeOK
        <3>2. d.id \in Message
            BY Zenon, <3>1 DEF Held, Run, Claimed
        <3> QED
            BY Zenon, <3>1, <3>2, <1>5 DEF OutboxInv, RelayShape
    <2>3. \A n \in inflight' : row'[n].status # "absent"
        BY ZenonT(60), <1>5, FinishEffect DEF OutboxInv, RelayShape, TypeOK
    <2> QED
        BY Zenon, <2>1, <2>2, <2>3 DEF RelayShape
<1>9. TokensDistinct'
    <2>1. issued' = issued
        BY ZenonT(60), FinishEffect
    <2>2. \A n \in Message : row'[n].lease_token # NULL => row'[n].lease_token = row[n].lease_token
        BY Zenon, <1>2, FinishEffect
    <2> QED
        BY <2>1, <2>2, <1>4 DEF OutboxInv, TokensDistinct
<1> QED
    BY Zenon, <1>6, <1>7, <1>8, <1>9 DEF OutboxInv

\* Every step preserves the invariant.
LEMMA NextOutbox == OutboxInv /\ [Next]_vars => OutboxInv'
<1> SUFFICES ASSUME OutboxInv, [Next]_vars PROVE OutboxInv'
    BY Zenon
<1>1. ASSUME NEW m \in Message, Enqueue(m) PROVE OutboxInv'
    BY Zenon, <1>1, EnqueueInv
<1>2. ASSUME NEW m \in Message, Accept(m) PROVE OutboxInv'
    BY Zenon, <1>2, AcceptInv
<1>3. ASSUME NEW r \in Relay, Claim(r) PROVE OutboxInv'
    BY Zenon, <1>3, ClaimInv
<1>4. ASSUME NEW r \in Relay, Send(r) PROVE OutboxInv'
    BY Zenon, <1>4, SendInv
<1>5. ASSUME NEW r \in Relay, Finish(r) PROVE OutboxInv'
    BY Zenon, <1>5, FinishInv
<1>6. ASSUME NEW r \in Relay, NEW o \in Outcome, Respond(r, o) PROVE OutboxInv'
    BY Zenon, <1>6, RespondInv
<1>7. ASSUME NEW r \in Relay, Crash(r) PROVE OutboxInv'
    BY Zenon, <1>7, CrashInv
<1>8. CASE Tick \/ UNCHANGED vars
    BY Zenon, <1>8, TickInv
<1> QED
    BY Zenon, <1>1, <1>2, <1>3, <1>4, <1>5, <1>6, <1>7, <1>8 DEF Next, RelayStep

\* The inductive invariant holds in every reachable state of the relays.
THEOREM OutboxInvariant == Spec => []OutboxInv
BY InitOutbox, NextOutbox, PTL DEF Spec

\* No call of _claim or _finish leaves a row that the claim query cannot find
\* again although its message was neither sent nor given up.
THEOREM RowShapeCorrect == Spec => []RowShape
<1>1. OutboxInv => RowShape
    BY Zenon DEF OutboxInv
<1> QED
    BY <1>1, OutboxInvariant, PTL

\* However leases expire and relays overlap, at most one claim of a row passes
\* the guard of _finish.
THEOREM OneValidClaimCorrect == Spec => []OneValidClaim
<1>1. OutboxInv => OneValidClaim
    <2> SUFFICES ASSUME OutboxInv, NEW r \in Relay, NEW s \in Relay,
                        NEW c \in Held(r), NEW d \in Held(s), c.id = d.id,
                        row[c.id].lease_token = c.lease_token,
                        row[d.id].lease_token = d.lease_token
                 PROVE  r = s /\ c = d
        BY Zenon DEF OneValidClaim
    <2> QED
        BY Zenon DEF OutboxInv, TokensDistinct
<1> QED
    BY <1>1, OutboxInvariant, PTL
-----------------------------------------------------------------------------
\* Steps of the relays are steps of the contract.
LEMMA InitContract == Init => Contract!Init
BY DEF Init, Contract!Init

\* Every step is a step of the contract, or changes nothing it speaks of.
LEMMA StepContract == OutboxInv /\ [Next]_vars => [Contract!Next]_(Contract!vars)
<1> SUFFICES ASSUME OutboxInv, [Next]_vars
             PROVE  Contract!Next \/ UNCHANGED Contract!vars
    BY Zenon
<1> DEFINE status == [m \in Message |-> row[m].status]
<1>1. ASSUME NEW m \in Message, Enqueue(m) PROVE Contract!Enqueue(m)
    <2>1. /\ row'[m].status = "queued" /\ row[m].status = "absent"
          /\ \A n \in Message : n # m => row'[n] = row[n]
          /\ accepted' = accepted
        BY Zenon, <1>1 DEF Enqueue, OutboxInv, TypeOK, Row
    <2> QED
        BY Zenon, <2>1 DEF Contract!Enqueue
<1>2. ASSUME NEW m \in Message, Accept(m) PROVE Contract!Publish(m)
    BY Zenon, <1>2 DEF Accept, Contract!Publish, OutboxInv, RelayShape
<1>3. ASSUME NEW r \in Relay, Claim(r) PROVE UNCHANGED Contract!vars
    <2>1. ASSUME NEW m \in Message PROVE row'[m].status = row[m].status
        <3>1. row[m] \in Row
            BY Zenon DEF OutboxInv, TypeOK
        <3> QED
            BY Zenon, <1>3, <3>1 DEF Claim, Row
    <2>2. accepted' = accepted
        BY Zenon, <1>3 DEF Claim
    <2> QED
        BY Zenon, <2>1, <2>2 DEF Contract!vars
<1>4. ASSUME NEW r \in Relay, Finish(r)
      PROVE  \/ UNCHANGED Contract!vars
             \/ \E m \in Message : Contract!Confirm(m) \/ Contract!GiveUp(m)
    <2> DEFINE m == relay[r].current.id
    <2>1. m \in Message /\ accepted' = accepted
        BY Zenon, <1>4, FinishEffect DEF Claimed
    <2>2. relay[r].outcome = "ok" => m \in accepted
        BY Zenon DEF OutboxInv, RelayShape
    <2>3. \A n \in Message : n # m => row'[n] = row[n]
        BY ZenonT(60), <1>4, FinishEffect
    <2>4. \/ row'[m].status = row[m].status
          \/ /\ row[m].status = "queued"
             /\ \/ row'[m].status = "sent" /\ relay[r].outcome = "ok"
                \/ row'[m].status = "failed"
        BY Zenon, <1>4, FinishEffect
    <2> HIDE DEF m
    <2>5. CASE row'[m].status = row[m].status
        BY Zenon, <2>5, <2>1, <2>3 DEF Contract!vars
    <2>6. CASE row[m].status = "queued" /\ row'[m].status = "sent" /\ relay[r].outcome = "ok"
        BY Zenon, <2>6, <2>1, <2>2, <2>3 DEF Contract!Confirm
    <2>7. CASE row[m].status = "queued" /\ row'[m].status = "failed"
        BY Zenon, <2>7, <2>1, <2>3 DEF Contract!GiveUp
    <2> QED
        BY Zenon, <2>4, <2>5, <2>6, <2>7
<1>5. ASSUME NEW r \in Relay, Send(r) \/ Crash(r) \/ \E o \in Outcome : Respond(r, o)
      PROVE  UNCHANGED Contract!vars
    BY Zenon, <1>5 DEF Send, Crash, Respond, Contract!vars
<1>6. CASE Tick \/ UNCHANGED vars
    BY Zenon, <1>6 DEF Tick, vars, Contract!vars
<1> QED
    BY Zenon, <1>1, <1>2, <1>3, <1>4, <1>5, <1>6 DEF Next, RelayStep, Contract!Next

\* The relays of outbox.py implement the contract of the outbox.
THEOREM OutboxImplementsContract == Spec => KeepsContract
BY OutboxInvariant, InitContract, StepContract, PTL
   DEF Spec, KeepsContract, Contract!Spec
=============================================================================
