------------------------- MODULE MultiTierCacheProofs -------------------------
(***************************************************************************)
(* What the memory copies and Redis promise together, for any number of    *)
(* instances, calls, writes and failures.                                  *)
(***************************************************************************)
EXTENDS MultiTierCache, FiniteSetTheorems, TLAPS

-----------------------------------------------------------------------------
(* The invariant *)

CopyPhases == {"fill", "publishSet", "setL1"}
WillCopy(r) == pc[r] \in CopyPhases

\* A call knows its instance, and the value it is going to copy
Placed == \A r \in Requests : /\ pc[r] # "idle" => at[r] \in Instances
                              /\ WillCopy(r) => val[r] \in Values

\* Every message on the bus or still to be sent belongs to a write of its own
Announcing == {r \in Requests : pc[r] \in {"publishSet", "take", "publish"}}
Counted == \A i \in Instances : bus[i] + Cardinality(Announcing) <= writes

\* A value comes back to nobody once it has been taken
Once ==
  /\ l2 <= writes
  /\ \A v \in Values : /\ taken[v] <= 1
                       /\ v > writes \/ v = l2 => taken[v] = 0

\* A call that is not overtaken copies what is in Redis, or has expired
Undisturbed == \A r \in Requests : WillCopy(r) /\ ~overtaken[r] =>
  /\ val[r] = l2 \/ val[r] \in expired
  /\ \A p \in Requests \ {r} : pc[p] \notin WritePhases

\* While a getAndDelete waits for Redis, its instance takes no clean copy
Dropped == \A r \in Requests :
  pc[r] = "take" /\ l1[at[r]].clean => l1[at[r]] = NoCopy

\* r is going to tell instance i of its write, or to replace the copy there
Repairs(r, i) ==
  \/ pc[r] \in {"publishSet", "publish"} /\ at[r] # i
  \/ pc[r] \in {"publishSet", "setL1"} /\ at[r] = i

\* A clean copy that is out of date is about to be dropped or replaced
Repaired == \A i \in Instances :
  l1[i].clean /\ Stale(i) => bus[i] > 0 \/ \E r \in Requests : Repairs(r, i)

CacheInv ==
  /\ TypeOK /\ Placed /\ Counted /\ Once /\ Undisturbed /\ Dropped
  /\ Repaired

-----------------------------------------------------------------------------
(* What every step does to the parts of the state that the invariant is about *)

LEMMA BoundsInNat == MaxWrites \in Nat /\ MaxFaults \in Nat /\ 0 \in 0..MaxWrites /\ NoCopy.val = 0
BY CacheAssumption DEF NoCopy

LEMMA PlacedNext == CacheInv /\ Next => Placed'
<1> SUFFICES ASSUME CacheInv, Next PROVE Placed'
  OBVIOUS
<1>1. ASSUME NEW r \in Requests, ReadL2(r) PROVE Placed'
  BY BoundsInNat, <1>1 DEF ReadL2, CacheInv, TypeOK, Placed, Goto, Done, WillCopy,
     CopyPhases, WritePhases, Values
<1>2. ASSUME NEW r \in Requests, Fill(r) PROVE Placed'
  BY BoundsInNat, <1>2 DEF Fill, CacheInv, TypeOK, Placed, Goto, Done, WillCopy,
     CopyPhases, WritePhases, Values
<1>3. ASSUME NEW r \in Requests, PublishSet(r) PROVE Placed'
  BY BoundsInNat, <1>3 DEF PublishSet, CacheInv, TypeOK, Placed, Goto, Done, WillCopy,
     CopyPhases, WritePhases, Values
<1>4. ASSUME NEW r \in Requests, SetL1(r) PROVE Placed'
  BY BoundsInNat, <1>4 DEF SetL1, CacheInv, TypeOK, Placed, Goto, Done, WillCopy,
     CopyPhases, WritePhases, Values
<1>5. ASSUME NEW r \in Requests, TakeL2(r) PROVE Placed'
  BY BoundsInNat, <1>5 DEF TakeL2, CacheInv, TypeOK, Placed, Goto, Done, WillCopy,
     CopyPhases, WritePhases, Values
<1>6. ASSUME NEW r \in Requests, TakeL2Fails(r) PROVE Placed'
  BY BoundsInNat, <1>6 DEF TakeL2Fails, CacheInv, TypeOK, Placed, Goto, Done, WillCopy,
     CopyPhases, WritePhases, Values
<1>7. ASSUME NEW r \in Requests, Publish(r) PROVE Placed'
  BY BoundsInNat, <1>7 DEF Publish, CacheInv, TypeOK, Placed, Goto, Done, WillCopy,
     CopyPhases, WritePhases, Values
<1>8. ASSUME NEW r \in Requests, NEW i \in Instances, Get(r, i) PROVE Placed'
  BY BoundsInNat, <1>8 DEF Get, CacheInv, TypeOK, Placed, Goto, Done, WillCopy,
     CopyPhases, WritePhases, Values
<1>9. ASSUME NEW r \in Requests, NEW i \in Instances, SetL2(r, i) PROVE Placed'
  BY BoundsInNat, <1>9 DEF SetL2, NewWrite, CacheInv, TypeOK, Placed, Goto, Done,
     WillCopy, CopyPhases, WritePhases, Values
<1>10. ASSUME NEW r \in Requests, NEW i \in Instances, SetL2Fails(r, i) PROVE Placed'
  <2>1. CASE UNCHANGED <<pc, at, val>>
    BY <1>10, <2>1, BoundsInNat DEF SetL2Fails, NewWrite, CacheInv, TypeOK, Placed, WillCopy,
       CopyPhases, WritePhases, Values
  <2>2. CASE /\ Goto(r, "setL1") /\ at' = [at EXCEPT ![r] = i]
             /\ val' = [val EXCEPT ![r] = writes'] /\ UNCHANGED big
    BY <1>10, <2>2, BoundsInNat DEF NewWrite, SetL2Fails, CacheInv, TypeOK, Placed, Goto,
       WillCopy, CopyPhases, WritePhases, Values
  <2> QED BY <1>10, <2>1, <2>2 DEF SetL2Fails
<1>11. ASSUME NEW r \in Requests, NEW i \in Instances, Delete(r, i) PROVE Placed'
  BY BoundsInNat, <1>11 DEF Delete, NewWrite, CacheInv, TypeOK, Placed, Goto, Done,
     WillCopy, CopyPhases, WritePhases, Values
<1>12. ASSUME NEW r \in Requests, NEW i \in Instances, DeleteFails(r, i) PROVE Placed'
  BY BoundsInNat, <1>12 DEF DeleteFails, NewWrite, CacheInv, TypeOK, Placed, Goto, Done,
     WillCopy, CopyPhases, WritePhases, Values
<1>13. ASSUME NEW r \in Requests, NEW i \in Instances, TakeL1(r, i) PROVE Placed'
  BY BoundsInNat, <1>13 DEF TakeL1, NewWrite, CacheInv, TypeOK, Placed, Goto, Done,
     WillCopy, CopyPhases, WritePhases, Values
<1>14. ASSUME NEW i \in Instances, Deliver(i) PROVE Placed'
  BY BoundsInNat, <1>14 DEF Deliver, CacheInv, TypeOK, Placed, Goto, Done, WillCopy,
     CopyPhases, WritePhases, Values
<1>15. ASSUME NEW i \in Instances, Lose(i) PROVE Placed'
  BY BoundsInNat, <1>15 DEF Lose, CacheInv, TypeOK, Placed, Goto, Done, WillCopy,
     CopyPhases, WritePhases, Values
<1>16. ASSUME NEW i \in Instances, Evict(i) PROVE Placed'
  BY BoundsInNat, <1>16 DEF Evict, CacheInv, TypeOK, Placed, Goto, Done, WillCopy,
     CopyPhases, WritePhases, Values
<1>17. ASSUME Expire PROVE Placed'
  BY BoundsInNat, <1>17 DEF Expire, CacheInv, TypeOK, Placed, Goto, Done, WillCopy,
     CopyPhases, WritePhases, Values
<1> QED
  BY <1>1, <1>2, <1>3, <1>4, <1>5, <1>6, <1>7, <1>8, <1>9, <1>10, <1>11, <1>12, <1>13,
     <1>14, <1>15, <1>16, <1>17 DEF Next, Continue

LEMMA OnceNext == CacheInv /\ Next => Once'
<1> SUFFICES ASSUME CacheInv, Next PROVE Once'
  OBVIOUS
<1>1. ASSUME NEW r \in Requests, ReadL2(r) PROVE Once'
  BY BoundsInNat, <1>1 DEF ReadL2, CacheInv, TypeOK, Once, Values
<1>2. ASSUME NEW r \in Requests, Fill(r) PROVE Once'
  BY BoundsInNat, <1>2 DEF Fill, CacheInv, TypeOK, Once, Values
<1>3. ASSUME NEW r \in Requests, PublishSet(r) PROVE Once'
  BY BoundsInNat, <1>3 DEF PublishSet, CacheInv, TypeOK, Once, Values
<1>4. ASSUME NEW r \in Requests, SetL1(r) PROVE Once'
  BY BoundsInNat, <1>4 DEF SetL1, CacheInv, TypeOK, Once, Values
<1>5. ASSUME NEW r \in Requests, TakeL2(r) PROVE Once'
  BY BoundsInNat, <1>5 DEF TakeL2, CacheInv, TypeOK, Once, Values
<1>6. ASSUME NEW r \in Requests, TakeL2Fails(r) PROVE Once'
  BY BoundsInNat, <1>6 DEF TakeL2Fails, CacheInv, TypeOK, Once, Values
<1>7. ASSUME NEW r \in Requests, Publish(r) PROVE Once'
  BY BoundsInNat, <1>7 DEF Publish, CacheInv, TypeOK, Once, Values
<1>8. ASSUME NEW r \in Requests, NEW i \in Instances, Get(r, i) PROVE Once'
  BY BoundsInNat, <1>8 DEF Get, CacheInv, TypeOK, Once, Values
<1>9. ASSUME NEW r \in Requests, NEW i \in Instances, SetL2(r, i) PROVE Once'
  BY BoundsInNat, <1>9 DEF SetL2, NewWrite, CacheInv, TypeOK, Once, Values
<1>10. ASSUME NEW r \in Requests, NEW i \in Instances, SetL2Fails(r, i) PROVE Once'
  BY BoundsInNat, <1>10 DEF SetL2Fails, NewWrite, CacheInv, TypeOK, Once, Values
<1>11. ASSUME NEW r \in Requests, NEW i \in Instances, Delete(r, i) PROVE Once'
  BY BoundsInNat, <1>11 DEF Delete, NewWrite, CacheInv, TypeOK, Once, Values
<1>12. ASSUME NEW r \in Requests, NEW i \in Instances, DeleteFails(r, i) PROVE Once'
  BY BoundsInNat, <1>12 DEF DeleteFails, NewWrite, CacheInv, TypeOK, Once, Values
<1>13. ASSUME NEW r \in Requests, NEW i \in Instances, TakeL1(r, i) PROVE Once'
  BY BoundsInNat, <1>13 DEF TakeL1, NewWrite, CacheInv, TypeOK, Once, Values
<1>14. ASSUME NEW i \in Instances, Deliver(i) PROVE Once'
  BY BoundsInNat, <1>14 DEF Deliver, CacheInv, TypeOK, Once, Values
<1>15. ASSUME NEW i \in Instances, Lose(i) PROVE Once'
  BY BoundsInNat, <1>15 DEF Lose, CacheInv, TypeOK, Once, Values
<1>16. ASSUME NEW i \in Instances, Evict(i) PROVE Once'
  BY BoundsInNat, <1>16 DEF Evict, CacheInv, TypeOK, Once, Values
<1>17. ASSUME Expire PROVE Once'
  BY BoundsInNat, <1>17 DEF Expire, CacheInv, TypeOK, Once, Values
<1> QED
  BY <1>1, <1>2, <1>3, <1>4, <1>5, <1>6, <1>7, <1>8, <1>9, <1>10, <1>11, <1>12, <1>13,
     <1>14, <1>15, <1>16, <1>17 DEF Next, Continue

LEMMA UndisturbedNext == CacheInv /\ Next => Undisturbed'
<1> SUFFICES ASSUME CacheInv, Next PROVE Undisturbed'
  OBVIOUS
<1>1. ASSUME NEW r \in Requests, ReadL2(r) PROVE Undisturbed'
  BY BoundsInNat, <1>1 DEF ReadL2, CacheInv, TypeOK, Placed, Goto, Done, WillCopy,
     CopyPhases, WritePhases, Undisturbed, Overtake, Writing
<1>2. ASSUME NEW r \in Requests, Fill(r) PROVE Undisturbed'
  BY BoundsInNat, <1>2 DEF Fill, CacheInv, TypeOK, Placed, Goto, Done, WillCopy,
     CopyPhases, WritePhases, Undisturbed, Overtake, Writing
<1>3. ASSUME NEW r \in Requests, PublishSet(r) PROVE Undisturbed'
  BY BoundsInNat, <1>3 DEF PublishSet, CacheInv, TypeOK, Placed, Goto, Done, WillCopy,
     CopyPhases, WritePhases, Undisturbed, Overtake, Writing
<1>4. ASSUME NEW r \in Requests, SetL1(r) PROVE Undisturbed'
  BY BoundsInNat, <1>4 DEF SetL1, CacheInv, TypeOK, Placed, Goto, Done, WillCopy,
     CopyPhases, WritePhases, Undisturbed, Overtake, Writing
<1>5. ASSUME NEW r \in Requests, TakeL2(r) PROVE Undisturbed'
  BY BoundsInNat, <1>5 DEF TakeL2, CacheInv, TypeOK, Placed, Goto, Done, WillCopy,
     CopyPhases, WritePhases, Undisturbed, Overtake, Writing
<1>6. ASSUME NEW r \in Requests, TakeL2Fails(r) PROVE Undisturbed'
  BY BoundsInNat, <1>6 DEF TakeL2Fails, CacheInv, TypeOK, Placed, Goto, Done, WillCopy,
     CopyPhases, WritePhases, Undisturbed, Overtake, Writing
<1>7. ASSUME NEW r \in Requests, Publish(r) PROVE Undisturbed'
  BY BoundsInNat, <1>7 DEF Publish, CacheInv, TypeOK, Placed, Goto, Done, WillCopy,
     CopyPhases, WritePhases, Undisturbed, Overtake, Writing
<1>8. ASSUME NEW r \in Requests, NEW i \in Instances, Get(r, i) PROVE Undisturbed'
  BY BoundsInNat, <1>8 DEF Get, CacheInv, TypeOK, Placed, Goto, Done, WillCopy,
     CopyPhases, WritePhases, Undisturbed, Overtake, Writing
<1>9. ASSUME NEW r \in Requests, NEW i \in Instances, SetL2(r, i) PROVE Undisturbed'
  BY BoundsInNat, <1>9 DEF SetL2, NewWrite, CacheInv, TypeOK, Placed, Goto, Done,
     WillCopy, CopyPhases, WritePhases, Undisturbed, Overtake, Writing
<1>10. ASSUME NEW r \in Requests, NEW i \in Instances, SetL2Fails(r, i) PROVE Undisturbed'
  BY BoundsInNat, <1>10 DEF SetL2Fails, NewWrite, CacheInv, TypeOK, Placed, Goto, Done,
     WillCopy, CopyPhases, WritePhases, Undisturbed, Overtake, Writing
<1>11. ASSUME NEW r \in Requests, NEW i \in Instances, Delete(r, i) PROVE Undisturbed'
  BY BoundsInNat, <1>11 DEF Delete, NewWrite, CacheInv, TypeOK, Placed, Goto, Done,
     WillCopy, CopyPhases, WritePhases, Undisturbed, Overtake, Writing
<1>12. ASSUME NEW r \in Requests, NEW i \in Instances, DeleteFails(r, i) PROVE Undisturbed'
  BY BoundsInNat, <1>12 DEF DeleteFails, NewWrite, CacheInv, TypeOK, Placed, Goto, Done,
     WillCopy, CopyPhases, WritePhases, Undisturbed, Overtake, Writing
<1>13. ASSUME NEW r \in Requests, NEW i \in Instances, TakeL1(r, i) PROVE Undisturbed'
  BY BoundsInNat, <1>13 DEF TakeL1, NewWrite, CacheInv, TypeOK, Placed, Goto, Done,
     WillCopy, CopyPhases, WritePhases, Undisturbed, Overtake, Writing
<1>14. ASSUME NEW i \in Instances, Deliver(i) PROVE Undisturbed'
  BY BoundsInNat, <1>14 DEF Deliver, CacheInv, TypeOK, Placed, Goto, Done, WillCopy,
     CopyPhases, WritePhases, Undisturbed, Overtake, Writing
<1>15. ASSUME NEW i \in Instances, Lose(i) PROVE Undisturbed'
  BY BoundsInNat, <1>15 DEF Lose, CacheInv, TypeOK, Placed, Goto, Done, WillCopy,
     CopyPhases, WritePhases, Undisturbed, Overtake, Writing
<1>16. ASSUME NEW i \in Instances, Evict(i) PROVE Undisturbed'
  BY BoundsInNat, <1>16 DEF Evict, CacheInv, TypeOK, Placed, Goto, Done, WillCopy,
     CopyPhases, WritePhases, Undisturbed, Overtake, Writing
<1>17. ASSUME Expire PROVE Undisturbed'
  BY BoundsInNat, <1>17 DEF Expire, CacheInv, TypeOK, Placed, Goto, Done, WillCopy,
     CopyPhases, WritePhases, Undisturbed, Overtake, Writing
<1> QED
  BY <1>1, <1>2, <1>3, <1>4, <1>5, <1>6, <1>7, <1>8, <1>9, <1>10, <1>11, <1>12, <1>13,
     <1>14, <1>15, <1>16, <1>17 DEF Next, Continue

\* A step that makes no copy may drop copies, and leaves the others as they were or
\* not clean
Marked ==
  /\ l1' \in [Instances -> Copies \cup {NoCopy}]
  /\ \A j \in Instances :
       \/ l1'[j] = NoCopy
       \/ /\ l1[j] # NoCopy /\ l1'[j].val = l1[j].val
          /\ l1'[j].clean => l1[j].clean

LEMMA TypedCopies == CacheInv => l1 \in [Instances -> Copies \cup {NoCopy}]
BY DEF CacheInv, TypeOK

LEMMA MissedFacts ==
  ASSUME NEW copies \in [Instances -> Copies \cup {NoCopy}], NEW S, NEW now
  PROVE  /\ Missed(copies, S, now) \in [Instances -> Copies \cup {NoCopy}]
         /\ \A j \in Instances :
              LET m == Missed(copies, S, now)[j] IN
              /\ m.val = copies[j].val
              /\ m.clean => copies[j].clean
              /\ m = NoCopy <=> copies[j] = NoCopy
              /\ j \in S => ~m.clean \/ m = NoCopy \/ m.val = now
              /\ j \notin S => m = copies[j]
<1> DEFINE m(j) == Missed(copies, S, now)[j]
<1>1. ASSUME NEW j \in Instances
      PROVE  /\ m(j) \in Copies \cup {NoCopy}
             /\ m(j).val = copies[j].val
             /\ m(j).clean => copies[j].clean
             /\ m(j) = NoCopy <=> copies[j] = NoCopy
             /\ j \in S => ~m(j).clean \/ m(j) = NoCopy \/ m(j).val = now
             /\ j \notin S => m(j) = copies[j]
  <2>1. copies[j] \in Copies \cup {NoCopy}
    OBVIOUS
  <2>2. CASE j \in S /\ copies[j] # NoCopy /\ copies[j].val # now
    <3>1. m(j) = [copies[j] EXCEPT !.clean = FALSE]
      BY <2>2 DEF Missed
    <3>2. copies[j] \in Copies
      BY <2>1, <2>2
    <3>3. m(j) \in Copies /\ m(j).val = copies[j].val /\ m(j).clean = FALSE
      BY <3>1, <3>2 DEF Copies
    <3>4. m(j) # NoCopy
      BY <3>3 DEF NoCopy
    <3> QED BY <2>2, <3>3, <3>4
  <2>3. CASE ~(j \in S /\ copies[j] # NoCopy /\ copies[j].val # now)
    <3>1. m(j) = copies[j]
      BY <2>3 DEF Missed
    <3> QED BY <2>1, <2>3, <3>1
  <2> QED BY <2>2, <2>3
<1>2. Missed(copies, S, now) = [j \in Instances |-> m(j)]
  BY DEF Missed
<1> QED BY <1>1, <1>2

LEMMA WithoutFacts ==
  ASSUME CacheInv, NEW i \in Instances
  PROVE  /\ Without(i) \in [Instances -> Copies \cup {NoCopy}]
         /\ Without(i)[i] = NoCopy
         /\ \A j \in Instances \ {i} : Without(i)[j] = l1[j]
BY TypedCopies DEF Without

LEMMA MarkedNext ==
  ASSUME CacheInv, Next
  PROVE  \/ Marked
         \/ \E r \in Requests : Fill(r) \/ SetL1(r)
<1> DEFINE Goal == Marked \/ \E r \in Requests : Fill(r) \/ SetL1(r)
<1>1. ASSUME NEW r \in Requests, ReadL2(r) PROVE Goal
  BY <1>1, TypedCopies DEF ReadL2, Marked
<1>2. ASSUME NEW r \in Requests, Fill(r) PROVE Goal
  BY <1>2
<1>3. ASSUME NEW r \in Requests, PublishSet(r) PROVE Goal
  <2>1. PICK S, now : l1' = Missed(l1, S, now)
    BY <1>3 DEF PublishSet, CacheInv, Placed
  <2>2. l1' \in [Instances -> Copies \cup {NoCopy}]
    BY <2>1, MissedFacts, TypedCopies
  <2>4. ASSUME NEW j \in Instances
        PROVE  /\ l1'[j].val = l1[j].val
               /\ l1'[j].clean => l1[j].clean
               /\ l1'[j] = NoCopy <=> l1[j] = NoCopy
    BY <2>1, MissedFacts, TypedCopies
  <2> QED BY <2>2, <2>4 DEF Marked
<1>4. ASSUME NEW r \in Requests, SetL1(r) PROVE Goal
  BY <1>4
<1>5. ASSUME NEW r \in Requests, TakeL2(r) PROVE Goal
  BY <1>5, TypedCopies DEF TakeL2, Marked
<1>6. ASSUME NEW r \in Requests, TakeL2Fails(r) PROVE Goal
  <2>1. PICK S, now : l1' = Missed(l1, S, now)
    BY <1>6 DEF TakeL2Fails
  <2>2. l1' \in [Instances -> Copies \cup {NoCopy}]
    BY <2>1, MissedFacts, TypedCopies
  <2>4. ASSUME NEW j \in Instances
        PROVE  /\ l1'[j].val = l1[j].val
               /\ l1'[j].clean => l1[j].clean
               /\ l1'[j] = NoCopy <=> l1[j] = NoCopy
    BY <2>1, MissedFacts, TypedCopies
  <2> QED BY <2>2, <2>4 DEF Marked
<1>7. ASSUME NEW r \in Requests, Publish(r) PROVE Goal
  <2>1. PICK S, now : l1' = Missed(l1, S, now)
    BY <1>7 DEF Publish
  <2>2. l1' \in [Instances -> Copies \cup {NoCopy}]
    BY <2>1, MissedFacts, TypedCopies
  <2>4. ASSUME NEW j \in Instances
        PROVE  /\ l1'[j].val = l1[j].val
               /\ l1'[j].clean => l1[j].clean
               /\ l1'[j] = NoCopy <=> l1[j] = NoCopy
    BY <2>1, MissedFacts, TypedCopies
  <2> QED BY <2>2, <2>4 DEF Marked
<1>8. ASSUME NEW r \in Requests, NEW i \in Instances, Get(r, i) PROVE Goal
  BY <1>8, TypedCopies DEF Get, Marked
<1>9. ASSUME NEW r \in Requests, NEW i \in Instances, SetL2(r, i) PROVE Goal
  BY <1>9, TypedCopies DEF SetL2, Marked
<1>10. ASSUME NEW r \in Requests, NEW i \in Instances, SetL2Fails(r, i) PROVE Goal
  <2>1. PICK S, now : l1' = Missed(l1, S, now)
    BY <1>10 DEF SetL2Fails
  <2>2. l1' \in [Instances -> Copies \cup {NoCopy}]
    BY <2>1, MissedFacts, TypedCopies
  <2>4. ASSUME NEW j \in Instances
        PROVE  /\ l1'[j].val = l1[j].val
               /\ l1'[j].clean => l1[j].clean
               /\ l1'[j] = NoCopy <=> l1[j] = NoCopy
    BY <2>1, MissedFacts, TypedCopies
  <2> QED BY <2>2, <2>4 DEF Marked
<1>11. ASSUME NEW r \in Requests, NEW i \in Instances, Delete(r, i) PROVE Goal
  BY <1>11, TypedCopies, WithoutFacts DEF Delete, Marked
<1>12. ASSUME NEW r \in Requests, NEW i \in Instances, DeleteFails(r, i) PROVE Goal
  <2>1. PICK S, now : l1' = Missed(Without(i), S, now)
    BY <1>12 DEF DeleteFails
  <2>2. l1' \in [Instances -> Copies \cup {NoCopy}]
    BY <2>1, MissedFacts, TypedCopies, WithoutFacts
  <2>4. ASSUME NEW j \in Instances
        PROVE  /\ l1'[j].val = Without(i)[j].val
               /\ l1'[j].clean => Without(i)[j].clean
               /\ l1'[j] = NoCopy <=> Without(i)[j] = NoCopy
    BY <2>1, MissedFacts, TypedCopies, WithoutFacts
  <2>3. \A j \in Instances : Without(i)[j] = NoCopy \/ Without(i)[j] = l1[j]
    BY WithoutFacts
  <2> QED BY <2>2, <2>3, <2>4 DEF Marked
<1>13. ASSUME NEW r \in Requests, NEW i \in Instances, TakeL1(r, i) PROVE Goal
  BY <1>13, TypedCopies, WithoutFacts DEF TakeL1, Marked
<1>14. ASSUME NEW i \in Instances, Deliver(i) PROVE Goal
  BY <1>14, TypedCopies, WithoutFacts DEF Deliver, Marked
<1>15. ASSUME NEW i \in Instances, Lose(i) PROVE Goal
  <2>1. PICK S, now : l1' = Missed(l1, S, now)
    BY <1>15 DEF Lose
  <2>2. l1' \in [Instances -> Copies \cup {NoCopy}]
    BY <2>1, MissedFacts, TypedCopies
  <2>4. ASSUME NEW j \in Instances
        PROVE  /\ l1'[j].val = l1[j].val
               /\ l1'[j].clean => l1[j].clean
               /\ l1'[j] = NoCopy <=> l1[j] = NoCopy
    BY <2>1, MissedFacts, TypedCopies
  <2> QED BY <2>2, <2>4 DEF Marked
<1>16. ASSUME NEW i \in Instances, Evict(i) PROVE Goal
  BY <1>16, TypedCopies, WithoutFacts DEF Evict, Marked
<1>17. ASSUME Expire PROVE Goal
  BY <1>17, TypedCopies DEF Expire, Marked
<1> QED
  BY <1>1, <1>2, <1>3, <1>4, <1>5, <1>6, <1>7, <1>8, <1>9, <1>10, <1>11, <1>12, <1>13,
     <1>14, <1>15, <1>16, <1>17 DEF Next, Continue

LEMMA DroppedNext == CacheInv /\ Next => Dropped'
<1> SUFFICES ASSUME CacheInv, Next PROVE Dropped'
  OBVIOUS
<1>1. ASSUME NEW r \in Requests, Fill(r) PROVE Dropped'
  <2>1. l1' = [l1 EXCEPT ![at[r]] = [val |-> val[r], clean |-> ~overtaken[r]]]
    BY <1>1 DEF Fill
  <2>2. ~overtaken[r] => \A q \in Requests \ {r} : pc[q] # "take"
    BY <1>1 DEF Fill, CacheInv, Undisturbed, WillCopy, CopyPhases, WritePhases
  <2> SUFFICES ASSUME NEW q \in Requests, pc'[q] = "take", l1'[at'[q]].clean
               PROVE  l1'[at'[q]] = NoCopy
    BY DEF Dropped
  <2>3. q # r /\ pc[q] = "take" /\ at'[q] = at[q] /\ at[q] \in Instances /\ at[r] \in Instances
    BY <1>1 DEF Fill, Goto, Done, CacheInv, TypeOK, Placed
  <2>4. at[q] # at[r]
    BY <2>1, <2>2, <2>3, TypedCopies
  <2> QED BY <2>1, <2>3, <2>4, TypedCopies DEF CacheInv, Dropped
<1>2. ASSUME NEW r \in Requests, SetL1(r) PROVE Dropped'
  <2>1. l1' = [l1 EXCEPT ![at[r]] = [val |-> val[r], clean |-> ~overtaken[r]]]
    BY <1>2 DEF SetL1
  <2>2. ~overtaken[r] => \A q \in Requests \ {r} : pc[q] # "take"
    BY <1>2 DEF SetL1, CacheInv, Undisturbed, WillCopy, CopyPhases, WritePhases
  <2> SUFFICES ASSUME NEW q \in Requests, pc'[q] = "take", l1'[at'[q]].clean
               PROVE  l1'[at'[q]] = NoCopy
    BY DEF Dropped
  <2>3. q # r /\ pc[q] = "take" /\ at'[q] = at[q] /\ at[q] \in Instances /\ at[r] \in Instances
    BY <1>2 DEF SetL1, Goto, Done, CacheInv, TypeOK, Placed
  <2>4. at[q] # at[r]
    BY <2>1, <2>2, <2>3, TypedCopies
  <2> QED BY <2>1, <2>3, <2>4, TypedCopies DEF CacheInv, Dropped
<1>3. ASSUME NEW r \in Requests, NEW i \in Instances, TakeL1(r, i) PROVE Dropped'
  BY <1>3, TypedCopies, WithoutFacts DEF TakeL1, Goto, CacheInv, TypeOK, Placed, Dropped,
     WritePhases
<1>4. ASSUME Marked, \A r \in Requests, i \in Instances : ~TakeL1(r, i) PROVE Dropped'
  <2>1. \A q \in Requests : pc'[q] = "take" => pc[q] = "take" /\ at'[q] = at[q]
    <3> DEFINE Kept == \A q \in Requests : pc'[q] = "take" => pc[q] = "take" /\ at'[q] = at[q]
    <3>1. ASSUME NEW r \in Requests, ReadL2(r) PROVE Kept
      BY <3>1 DEF ReadL2, Goto, Done, CacheInv, TypeOK
    <3>2. ASSUME NEW r \in Requests, Fill(r) PROVE Kept
      BY <3>2 DEF Fill, Goto, Done, CacheInv, TypeOK
    <3>3. ASSUME NEW r \in Requests, PublishSet(r) PROVE Kept
      BY <3>3 DEF PublishSet, Goto, Done, CacheInv, TypeOK
    <3>4. ASSUME NEW r \in Requests, SetL1(r) PROVE Kept
      BY <3>4 DEF SetL1, Goto, Done, CacheInv, TypeOK
    <3>5. ASSUME NEW r \in Requests, TakeL2(r) PROVE Kept
      BY <3>5 DEF TakeL2, Goto, Done, CacheInv, TypeOK
    <3>6. ASSUME NEW r \in Requests, TakeL2Fails(r) PROVE Kept
      BY <3>6 DEF TakeL2Fails, Goto, Done, CacheInv, TypeOK
    <3>7. ASSUME NEW r \in Requests, Publish(r) PROVE Kept
      BY <3>7 DEF Publish, Goto, Done, CacheInv, TypeOK
    <3>8. ASSUME NEW r \in Requests, NEW i \in Instances, Get(r, i) PROVE Kept
      BY <3>8 DEF Get, Goto, Done, CacheInv, TypeOK
    <3>9. ASSUME NEW r \in Requests, NEW i \in Instances, SetL2(r, i) PROVE Kept
      BY <3>9 DEF SetL2, Goto, Done, CacheInv, TypeOK
    <3>10. ASSUME NEW r \in Requests, NEW i \in Instances, SetL2Fails(r, i) PROVE Kept
      BY <3>10 DEF SetL2Fails, Goto, Done, CacheInv, TypeOK
    <3>11. ASSUME NEW r \in Requests, NEW i \in Instances, Delete(r, i) PROVE Kept
      BY <3>11 DEF Delete, Goto, Done, CacheInv, TypeOK
    <3>12. ASSUME NEW r \in Requests, NEW i \in Instances, DeleteFails(r, i) PROVE Kept
      BY <3>12 DEF DeleteFails, Goto, Done, CacheInv, TypeOK
    <3>13. ASSUME NEW i \in Instances, Deliver(i) PROVE Kept
      BY <3>13 DEF Deliver, Goto, Done, CacheInv, TypeOK
    <3>14. ASSUME NEW i \in Instances, Lose(i) PROVE Kept
      BY <3>14 DEF Lose, Goto, Done, CacheInv, TypeOK
    <3>15. ASSUME NEW i \in Instances, Evict(i) PROVE Kept
      BY <3>15 DEF Evict, Goto, Done, CacheInv, TypeOK
    <3>16. ASSUME Expire PROVE Kept
      BY <3>16 DEF Expire, Goto, Done, CacheInv, TypeOK
    <3> QED
      BY <1>4, <3>1, <3>2, <3>3, <3>4, <3>5, <3>6, <3>7, <3>8, <3>9, <3>10, <3>11,
         <3>12, <3>13, <3>14, <3>15, <3>16 DEF Next, Continue
  <2>2. \A q \in Requests : pc[q] = "take" => at[q] \in Instances
    BY DEF CacheInv, Placed
  <2> QED BY <1>4, <2>1, <2>2 DEF Marked, Dropped, CacheInv
<1> QED BY <1>1, <1>2, <1>3, <1>4, MarkedNext

LEMMA RepairedNext == CacheInv /\ Next => Repaired'
<1> SUFFICES ASSUME CacheInv, Next PROVE Repaired'
  OBVIOUS
<1>1. ASSUME NEW r \in Requests, ReadL2(r) PROVE Repaired'
  BY BoundsInNat, <1>1 DEF ReadL2, CacheInv, TypeOK, Placed, Goto, Done, WillCopy,
     CopyPhases, WritePhases, Undisturbed, Dropped, Without, Repaired, Repairs, Stale
<1>2. ASSUME NEW r \in Requests, Fill(r) PROVE Repaired'
  <2>1. l1' = [l1 EXCEPT ![at[r]] = [val |-> val[r], clean |-> ~overtaken[r]]]
    BY <1>2 DEF Fill
  <2>2. /\ at[r] \in Instances /\ l1 \in [Instances -> Copies \cup {NoCopy}]
        /\ ~overtaken[r] => val[r] = l2 \/ val[r] \in expired
    BY <1>2 DEF Fill, CacheInv, TypeOK, Placed, Undisturbed, WillCopy, CopyPhases
  <2>3. UNCHANGED <<l2, bus, expired>>
    BY <1>2 DEF Fill
  <2>4. ASSUME NEW q \in Requests, NEW i \in Instances, Repairs(q, i), q # r
        PROVE  Repairs(q, i)'
    BY <1>2, <2>4 DEF Fill, Done, Goto, Repairs, CacheInv, TypeOK
  <2>5. ASSUME NEW i \in Instances, l1'[i].clean, Stale(i)'
        PROVE  bus'[i] > 0 \/ \E q \in Requests : Repairs(q, i)'
    <3>1. i # at[r]
      BY <2>1, <2>2, <2>3, <2>5 DEF Stale
    <3>2. l1'[i] = l1[i]
      BY <2>1, <2>2, <3>1
    <3>3. bus[i] > 0 \/ \E q \in Requests : Repairs(q, i)
      BY <2>3, <2>5, <3>2 DEF CacheInv, Repaired, Stale
    <3>4. ~Repairs(r, i)
      BY <1>2, <3>1 DEF Fill, Repairs
    <3> QED BY <2>3, <2>4, <3>3, <3>4
  <2> QED BY <2>3, <2>5 DEF Repaired, CacheInv
<1>3. ASSUME NEW r \in Requests, PublishSet(r) PROVE Repaired'
  <2>1. PICK told \in BOOLEAN :
          /\ Broadcast(at[r], told)
          /\ l1' = Missed(l1, (IF told THEN {} ELSE Instances \ {at[r]})
                                \cup (IF ShouldUseL1(val[r]) THEN {} ELSE {at[r]}), l2)
    BY <1>3 DEF PublishSet
  <2>2. /\ at[r] \in Instances /\ UNCHANGED <<l2, expired>>
        /\ bus \in [Instances -> Nat]
    BY <1>3, BoundsInNat DEF PublishSet, CacheInv, TypeOK, Placed
  <2>3. ASSUME NEW q \in Requests, NEW j \in Instances, Repairs(q, j), q # r
        PROVE  Repairs(q, j)'
    BY <1>3, <2>3 DEF PublishSet, Done, Goto, Repairs, CacheInv, TypeOK
  <2>4. \A j \in Instances : bus'[j] \in Nat /\ (bus[j] > 0 => bus'[j] > 0)
    BY <2>1, <2>2 DEF Broadcast
  <2>5. ASSUME told PROVE \A j \in Instances \ {at[r]} : bus'[j] > 0
    BY <2>1, <2>2, <2>5 DEF Broadcast
  <2>6. ASSUME NEW j \in Instances, l1'[j].clean, Stale(j)'
        PROVE  bus'[j] > 0 \/ \E q \in Requests : Repairs(q, j)'
    <3>1. l1[j].clean /\ Stale(j)
      BY <2>1, <2>2, <2>6, MissedFacts, TypedCopies DEF Stale
    <3>2. bus[j] > 0 \/ \E q \in Requests : Repairs(q, j)
      BY <3>1 DEF CacheInv, Repaired
    <3>3. CASE j # at[r]
      <4>1. told
        BY <2>1, <2>2, <2>6, <3>3, MissedFacts, TypedCopies DEF Stale
      <4> QED BY <2>5, <3>3, <4>1
    <3>4. CASE j = at[r]
      <4>1. CASE ShouldUseL1(val[r])
        <5>1. Repairs(r, j)'
          BY <1>3, <3>4, <4>1 DEF PublishSet, Goto, Repairs, CacheInv, TypeOK
        <5> QED BY <5>1
      <4>2. CASE ~ShouldUseL1(val[r])
        BY <2>1, <2>2, <2>6, <3>4, <4>2, MissedFacts, TypedCopies DEF Stale
      <4> QED BY <4>1, <4>2
    <3> QED BY <3>3, <3>4
  <2> QED BY <2>6 DEF Repaired
<1>4. ASSUME NEW r \in Requests, SetL1(r) PROVE Repaired'
  <2>1. l1' = [l1 EXCEPT ![at[r]] = [val |-> val[r], clean |-> ~overtaken[r]]]
    BY <1>4 DEF SetL1
  <2>2. /\ at[r] \in Instances /\ l1 \in [Instances -> Copies \cup {NoCopy}]
        /\ ~overtaken[r] => val[r] = l2 \/ val[r] \in expired
    BY <1>4 DEF SetL1, CacheInv, TypeOK, Placed, Undisturbed, WillCopy, CopyPhases
  <2>3. UNCHANGED <<l2, bus, expired>>
    BY <1>4 DEF SetL1
  <2>4. ASSUME NEW q \in Requests, NEW i \in Instances, Repairs(q, i), q # r
        PROVE  Repairs(q, i)'
    BY <1>4, <2>4 DEF SetL1, Done, Goto, Repairs, CacheInv, TypeOK
  <2>5. ASSUME NEW i \in Instances, l1'[i].clean, Stale(i)'
        PROVE  bus'[i] > 0 \/ \E q \in Requests : Repairs(q, i)'
    <3>1. i # at[r]
      BY <2>1, <2>2, <2>3, <2>5 DEF Stale
    <3>2. l1'[i] = l1[i]
      BY <2>1, <2>2, <3>1
    <3>3. bus[i] > 0 \/ \E q \in Requests : Repairs(q, i)
      BY <2>3, <2>5, <3>2 DEF CacheInv, Repaired, Stale
    <3>4. ~Repairs(r, i)
      BY <1>4, <3>1 DEF SetL1, Repairs
    <3> QED BY <2>3, <2>4, <3>3, <3>4
  <2> QED BY <2>3, <2>5 DEF Repaired, CacheInv
<1>5. ASSUME NEW r \in Requests, TakeL2(r) PROVE Repaired'
  BY BoundsInNat, <1>5 DEF TakeL2, CacheInv, TypeOK, Placed, Goto, Done, WillCopy,
     CopyPhases, WritePhases, Undisturbed, Dropped, Without, Repaired, Repairs, Stale
<1>6. ASSUME NEW r \in Requests, TakeL2Fails(r) PROVE Repaired'
  <2>1. l1' = Missed(l1, Instances, l2')
    BY <1>6 DEF TakeL2Fails
  <2>2. \A j \in Instances : l1'[j].clean => l1'[j] = NoCopy \/ l1'[j].val = l2'
    BY <2>1, MissedFacts, WithoutFacts, TypedCopies
  <2> QED BY <2>2 DEF Repaired, Stale
<1>7. ASSUME NEW r \in Requests, Publish(r) PROVE Repaired'
  <2>1. PICK told \in BOOLEAN :
          /\ Broadcast(at[r], told)
          /\ l1' = Missed(l1, IF told THEN {} ELSE Instances \ {at[r]}, l2)
    BY <1>7 DEF Publish
  <2>2. /\ at[r] \in Instances /\ UNCHANGED <<l2, expired>>
        /\ bus \in [Instances -> Nat]
    BY <1>7, BoundsInNat DEF Publish, CacheInv, TypeOK, Placed
  <2>3. ASSUME NEW q \in Requests, NEW j \in Instances, Repairs(q, j), q # r
        PROVE  Repairs(q, j)'
    BY <1>7, <2>3 DEF Publish, Done, Goto, Repairs, CacheInv, TypeOK
  <2>4. \A j \in Instances : bus'[j] \in Nat /\ (bus[j] > 0 => bus'[j] > 0)
    BY <2>1, <2>2 DEF Broadcast
  <2>5. ASSUME told PROVE \A j \in Instances \ {at[r]} : bus'[j] > 0
    BY <2>1, <2>2, <2>5 DEF Broadcast
  <2>6. ASSUME NEW j \in Instances, l1'[j].clean, Stale(j)'
        PROVE  bus'[j] > 0 \/ \E q \in Requests : Repairs(q, j)'
    <3>1. l1[j].clean /\ Stale(j)
      BY <2>1, <2>2, <2>6, MissedFacts, TypedCopies DEF Stale
    <3>2. bus[j] > 0 \/ \E q \in Requests : Repairs(q, j)
      BY <3>1 DEF CacheInv, Repaired
    <3>3. CASE j # at[r]
      <4>1. told
        BY <2>1, <2>2, <2>6, <3>3, MissedFacts, TypedCopies DEF Stale
      <4> QED BY <2>5, <3>3, <4>1
    <3>4. CASE j = at[r]
      <4>1. ~Repairs(r, j)
        BY <1>7, <3>4 DEF Publish, Repairs
      <4> QED BY <2>3, <2>4, <3>2, <4>1
    <3> QED BY <3>3, <3>4
  <2> QED BY <2>6 DEF Repaired
<1>8. ASSUME NEW r \in Requests, NEW i \in Instances, Get(r, i) PROVE Repaired'
  BY BoundsInNat, <1>8 DEF Get, CacheInv, TypeOK, Placed, Goto, Done, WillCopy,
     CopyPhases, WritePhases, Undisturbed, Dropped, Without, Repaired, Repairs, Stale
<1>9. ASSUME NEW r \in Requests, NEW i \in Instances, SetL2(r, i) PROVE Repaired'
  BY BoundsInNat, <1>9 DEF SetL2, NewWrite, CacheInv, TypeOK, Placed, Goto, Done,
     WillCopy, CopyPhases, WritePhases, Undisturbed, Dropped, Without, Repaired,
     Repairs, Stale
<1>10. ASSUME NEW r \in Requests, NEW i \in Instances, SetL2Fails(r, i) PROVE Repaired'
  <2>1. l1' = Missed(l1, Instances, l2')
    BY <1>10 DEF SetL2Fails
  <2>2. \A j \in Instances : l1'[j].clean => l1'[j] = NoCopy \/ l1'[j].val = l2'
    BY <2>1, MissedFacts, WithoutFacts, TypedCopies
  <2> QED BY <2>2 DEF Repaired, Stale
<1>11. ASSUME NEW r \in Requests, NEW i \in Instances, Delete(r, i) PROVE Repaired'
  BY BoundsInNat, <1>11 DEF Delete, NewWrite, CacheInv, TypeOK, Placed, Goto, Done,
     WillCopy, CopyPhases, WritePhases, Undisturbed, Dropped, Without, Repaired,
     Repairs, Stale
<1>12. ASSUME NEW r \in Requests, NEW i \in Instances, DeleteFails(r, i) PROVE Repaired'
  <2>1. l1' = Missed(Without(i), Instances, l2')
    BY <1>12 DEF DeleteFails
  <2>2. \A j \in Instances : l1'[j].clean => l1'[j] = NoCopy \/ l1'[j].val = l2'
    BY <2>1, MissedFacts, WithoutFacts, TypedCopies
  <2> QED BY <2>2 DEF Repaired, Stale
<1>13. ASSUME NEW r \in Requests, NEW i \in Instances, TakeL1(r, i) PROVE Repaired'
  BY BoundsInNat, <1>13 DEF TakeL1, NewWrite, CacheInv, TypeOK, Placed, Goto, Done,
     WillCopy, CopyPhases, WritePhases, Undisturbed, Dropped, Without, Repaired,
     Repairs, Stale
<1>14. ASSUME NEW i \in Instances, Deliver(i) PROVE Repaired'
  BY BoundsInNat, <1>14 DEF Deliver, CacheInv, TypeOK, Placed, Goto, Done, WillCopy,
     CopyPhases, WritePhases, Undisturbed, Dropped, Without, Repaired, Repairs, Stale
<1>15. ASSUME NEW i \in Instances, Lose(i) PROVE Repaired'
  <2>1. l1' = Missed(l1, {i}, l2) /\ UNCHANGED <<l2, pc, at, expired>>
    BY <1>15 DEF Lose
  <2>2. \A j \in Instances \ {i} : l1'[j] = l1[j] /\ bus'[j] = bus[j]
    BY <1>15, <2>1, MissedFacts, TypedCopies DEF Lose, CacheInv, TypeOK
  <2>3. l1'[i].clean => l1'[i] = NoCopy \/ l1'[i].val = l2'
    BY <2>1, MissedFacts, TypedCopies
  <2>4. \A j \in Instances \ {i} : Stale(j)' => Stale(j)
    BY <2>1, <2>2 DEF Stale
  <2>5. \A q \in Requests, j \in Instances : Repairs(q, j) => Repairs(q, j)'
    BY <2>1 DEF Repairs
  <2>6. ~(l1'[i].clean /\ Stale(i)')
    BY <2>3 DEF Stale
  <2> QED BY <2>2, <2>4, <2>5, <2>6 DEF Repaired, CacheInv
<1>16. ASSUME NEW i \in Instances, Evict(i) PROVE Repaired'
  BY BoundsInNat, <1>16 DEF Evict, CacheInv, TypeOK, Placed, Goto, Done, WillCopy,
     CopyPhases, WritePhases, Undisturbed, Dropped, Without, Repaired, Repairs, Stale
<1>17. ASSUME Expire PROVE Repaired'
  BY BoundsInNat, <1>17 DEF Expire, CacheInv, TypeOK, Placed, Goto, Done, WillCopy,
     CopyPhases, WritePhases, Undisturbed, Dropped, Without, Repaired, Repairs, Stale
<1> QED
  BY <1>1, <1>2, <1>3, <1>4, <1>5, <1>6, <1>7, <1>8, <1>9, <1>10, <1>11, <1>12, <1>13,
     <1>14, <1>15, <1>16, <1>17 DEF Next, Continue

LEMMA AnnouncingFinite == IsFiniteSet(Announcing) /\ Cardinality(Announcing) \in Nat
<1>1. Announcing \in SUBSET Requests
  BY DEF Announcing
<1> QED BY <1>1, CacheAssumption, FS_Subset, FS_CardinalityType

LEMMA CountedNext == CacheInv /\ Next => Counted'
<1> SUFFICES ASSUME CacheInv, Next PROVE Counted'
  OBVIOUS
<1>a. IsFiniteSet(Announcing) /\ Cardinality(Announcing) \in Nat
  BY AnnouncingFinite
<1>b. writes \in Nat /\ \A i \in Instances : bus[i] \in Nat
  BY CacheAssumption DEF CacheInv, TypeOK
<1>1. ASSUME NEW r \in Requests, ReadL2(r) PROVE Counted'
  <2>1. Announcing' = Announcing /\ bus' = bus /\ writes' = writes
    BY <1>1 DEF ReadL2, Goto, Done, CacheInv, TypeOK, WritePhases, Announcing
  <2> QED BY <2>1 DEF CacheInv, Counted
<1>2. ASSUME NEW r \in Requests, Fill(r) PROVE Counted'
  <2>1. Announcing' = Announcing /\ bus' = bus /\ writes' = writes
    BY <1>2 DEF Fill, Goto, Done, CacheInv, TypeOK, WritePhases, Announcing
  <2> QED BY <2>1 DEF CacheInv, Counted
<1>3. ASSUME NEW r \in Requests, PublishSet(r) PROVE Counted'
  <2>1. Announcing' = Announcing \ {r} /\ r \in Announcing
    BY <1>3 DEF PublishSet, Goto, Done, CacheInv, TypeOK, WritePhases, Announcing, ShouldUseL1
  <2>2. Cardinality(Announcing') = Cardinality(Announcing) - 1
    BY <1>a, <2>1, FS_RemoveElement
  <2>3. writes' = writes /\ \A i \in Instances : bus'[i] <= bus[i] + 1 /\ bus'[i] \in Nat
    BY <1>b, <1>3 DEF PublishSet, Broadcast, CacheInv, TypeOK
  <2> QED BY <1>a, <1>b, <2>2, <2>3 DEF CacheInv, Counted
<1>4. ASSUME NEW r \in Requests, SetL1(r) PROVE Counted'
  <2>1. Announcing' = Announcing /\ bus' = bus /\ writes' = writes
    BY <1>4 DEF SetL1, Goto, Done, CacheInv, TypeOK, WritePhases, Announcing
  <2> QED BY <2>1 DEF CacheInv, Counted
<1>5. ASSUME NEW r \in Requests, TakeL2(r) PROVE Counted'
  <2>1. Announcing' \subseteq Announcing /\ bus' = bus /\ writes' = writes
    BY <1>5 DEF TakeL2, Goto, Done, CacheInv, TypeOK, WritePhases, Announcing
  <2>2. Cardinality(Announcing') <= Cardinality(Announcing) /\ Cardinality(Announcing') \in Nat
    BY <1>a, <2>1, FS_Subset, FS_CardinalityType
  <2> QED BY <1>a, <1>b, <2>1, <2>2 DEF CacheInv, Counted
<1>6. ASSUME NEW r \in Requests, TakeL2Fails(r) PROVE Counted'
  <2>1. Announcing' \subseteq Announcing /\ bus' = bus /\ writes' = writes
    BY <1>6 DEF TakeL2Fails, Goto, Done, CacheInv, TypeOK, WritePhases, Announcing
  <2>2. Cardinality(Announcing') <= Cardinality(Announcing) /\ Cardinality(Announcing') \in Nat
    BY <1>a, <2>1, FS_Subset, FS_CardinalityType
  <2> QED BY <1>a, <1>b, <2>1, <2>2 DEF CacheInv, Counted
<1>7. ASSUME NEW r \in Requests, Publish(r) PROVE Counted'
  <2>1. Announcing' = Announcing \ {r} /\ r \in Announcing
    BY <1>7 DEF Publish, Goto, Done, CacheInv, TypeOK, WritePhases, Announcing, ShouldUseL1
  <2>2. Cardinality(Announcing') = Cardinality(Announcing) - 1
    BY <1>a, <2>1, FS_RemoveElement
  <2>3. writes' = writes /\ \A i \in Instances : bus'[i] <= bus[i] + 1 /\ bus'[i] \in Nat
    BY <1>b, <1>7 DEF Publish, Broadcast, CacheInv, TypeOK
  <2> QED BY <1>a, <1>b, <2>2, <2>3 DEF CacheInv, Counted
<1>8. ASSUME NEW r \in Requests, NEW i \in Instances, Get(r, i) PROVE Counted'
  <2>1. Announcing' = Announcing /\ bus' = bus /\ writes' = writes
    BY <1>8 DEF Get, Goto, Done, CacheInv, TypeOK, WritePhases, Announcing
  <2> QED BY <2>1 DEF CacheInv, Counted
<1>9. ASSUME NEW r \in Requests, NEW i \in Instances, SetL2(r, i) PROVE Counted'
  <2>1. Announcing' = Announcing \cup {r} /\ r \notin Announcing
    BY <1>9 DEF SetL2, Goto, Done, CacheInv, TypeOK, WritePhases, Announcing
  <2>2. Cardinality(Announcing') = Cardinality(Announcing) + 1
    BY <1>a, <2>1, FS_AddElement
  <2>3. bus' = bus /\ writes' = writes + 1
    BY <1>9 DEF SetL2, NewWrite
  <2> QED BY <1>a, <1>b, <2>2, <2>3 DEF CacheInv, Counted
<1>10. ASSUME NEW r \in Requests, NEW i \in Instances, SetL2Fails(r, i) PROVE Counted'
  <2>1. Announcing' = Announcing /\ bus' = bus /\ writes' = writes + 1
    BY <1>10 DEF SetL2Fails, NewWrite, Goto, Done, CacheInv, TypeOK, WritePhases, Announcing
  <2> QED BY <1>a, <1>b, <2>1 DEF CacheInv, Counted
<1>11. ASSUME NEW r \in Requests, NEW i \in Instances, Delete(r, i) PROVE Counted'
  <2>1. Announcing' = Announcing \cup {r} /\ r \notin Announcing
    BY <1>11 DEF Delete, Goto, Done, CacheInv, TypeOK, WritePhases, Announcing
  <2>2. Cardinality(Announcing') = Cardinality(Announcing) + 1
    BY <1>a, <2>1, FS_AddElement
  <2>3. bus' = bus /\ writes' = writes + 1
    BY <1>11 DEF Delete, NewWrite
  <2> QED BY <1>a, <1>b, <2>2, <2>3 DEF CacheInv, Counted
<1>12. ASSUME NEW r \in Requests, NEW i \in Instances, DeleteFails(r, i) PROVE Counted'
  <2>1. Announcing' = Announcing /\ bus' = bus /\ writes' = writes + 1
    BY <1>12 DEF DeleteFails, NewWrite, Goto, Done, CacheInv, TypeOK, WritePhases, Announcing
  <2> QED BY <1>a, <1>b, <2>1 DEF CacheInv, Counted
<1>13. ASSUME NEW r \in Requests, NEW i \in Instances, TakeL1(r, i) PROVE Counted'
  <2>1. Announcing' = Announcing \cup {r} /\ r \notin Announcing
    BY <1>13 DEF TakeL1, Goto, Done, CacheInv, TypeOK, WritePhases, Announcing
  <2>2. Cardinality(Announcing') = Cardinality(Announcing) + 1
    BY <1>a, <2>1, FS_AddElement
  <2>3. bus' = bus /\ writes' = writes + 1
    BY <1>13 DEF TakeL1, NewWrite
  <2> QED BY <1>a, <1>b, <2>2, <2>3 DEF CacheInv, Counted
<1>14. ASSUME NEW i \in Instances, Deliver(i) PROVE Counted'
  <2>1. Announcing' = Announcing /\ writes' = writes
    BY <1>14 DEF Deliver, Announcing
  <2>2. \A j \in Instances : bus'[j] <= bus[j] /\ bus'[j] \in Int
    BY <1>b, <1>14 DEF Deliver, CacheInv, TypeOK
  <2> QED BY <1>a, <1>b, <2>1, <2>2 DEF CacheInv, Counted
<1>15. ASSUME NEW i \in Instances, Lose(i) PROVE Counted'
  <2>1. Announcing' = Announcing /\ writes' = writes
    BY <1>15 DEF Lose, Announcing
  <2>2. \A j \in Instances : bus'[j] <= bus[j] /\ bus'[j] \in Int
    BY <1>b, <1>15 DEF Lose, CacheInv, TypeOK
  <2> QED BY <1>a, <1>b, <2>1, <2>2 DEF CacheInv, Counted
<1>16. ASSUME NEW i \in Instances, Evict(i) PROVE Counted'
  <2>1. Announcing' = Announcing /\ bus' = bus /\ writes' = writes
    BY <1>16 DEF Evict, Goto, Done, CacheInv, TypeOK, WritePhases, Announcing
  <2> QED BY <2>1 DEF CacheInv, Counted
<1>17. ASSUME Expire PROVE Counted'
  <2>1. Announcing' = Announcing /\ bus' = bus /\ writes' = writes
    BY <1>17 DEF Expire, Goto, Done, CacheInv, TypeOK, WritePhases, Announcing
  <2> QED BY <2>1 DEF CacheInv, Counted
<1> QED
  BY <1>1, <1>2, <1>3, <1>4, <1>5, <1>6, <1>7, <1>8, <1>9, <1>10, <1>11, <1>12, <1>13,
     <1>14, <1>15, <1>16, <1>17 DEF Next, Continue

LEMMA TypingNext == CacheInv /\ Next => TypeOK'
<1> SUFFICES ASSUME CacheInv, Next PROVE TypeOK'
  OBVIOUS
<1> DEFINE Calls ==
      /\ pc' \in [Requests -> {"idle", "readL2", "fill"} \cup WritePhases]
      /\ at' \in [Requests -> Instances \cup {NoInstance}]
      /\ val' \in [Requests -> 0..MaxWrites]
      /\ overtaken' \in [Requests -> BOOLEAN]
<1> DEFINE Stored ==
      /\ l2' \in 0..MaxWrites
      /\ writes' \in 0..MaxWrites
      /\ big' \subseteq Values /\ expired' \subseteq Values
      /\ DOMAIN bus' = Instances /\ bus' = [j \in Instances |-> bus'[j]]
      /\ \A j \in Instances : bus'[j] \in Nat
      /\ DOMAIN taken' = Values /\ taken' = [v \in Values |-> taken'[v]]
      /\ \A v \in Values : taken'[v] \in Nat
      /\ faults' \in 0..MaxFaults
<1>a. Calls
  <2>1. ASSUME NEW r \in Requests, ReadL2(r) PROVE Calls
    <3>1. pc' \in [Requests -> {"idle", "readL2", "fill"} \cup WritePhases]
      BY BoundsInNat, <2>1 DEF ReadL2, CacheInv, TypeOK, Goto, Done, WritePhases
    <3>2. at' \in [Requests -> Instances \cup {NoInstance}]
      BY BoundsInNat, <2>1 DEF ReadL2, CacheInv, TypeOK, Done, Placed
    <3>3. val' \in [Requests -> 0..MaxWrites]
      BY BoundsInNat, <2>1 DEF ReadL2, CacheInv, TypeOK, Done, Values
    <3>4. overtaken' \in [Requests -> BOOLEAN]
      BY BoundsInNat, <2>1 DEF ReadL2, CacheInv, TypeOK, Overtake, Writing
    <3> QED BY <3>1, <3>2, <3>3, <3>4
  <2>2. ASSUME NEW r \in Requests, Fill(r) PROVE Calls
    <3>1. pc' \in [Requests -> {"idle", "readL2", "fill"} \cup WritePhases]
      BY BoundsInNat, <2>2 DEF Fill, CacheInv, TypeOK, Goto, Done, WritePhases
    <3>2. at' \in [Requests -> Instances \cup {NoInstance}]
      BY BoundsInNat, <2>2 DEF Fill, CacheInv, TypeOK, Done, Placed
    <3>3. val' \in [Requests -> 0..MaxWrites]
      BY BoundsInNat, <2>2 DEF Fill, CacheInv, TypeOK, Done, Values
    <3>4. overtaken' \in [Requests -> BOOLEAN]
      BY BoundsInNat, <2>2 DEF Fill, CacheInv, TypeOK, Overtake, Writing
    <3> QED BY <3>1, <3>2, <3>3, <3>4
  <2>3. ASSUME NEW r \in Requests, PublishSet(r) PROVE Calls
    <3>1. pc' \in [Requests -> {"idle", "readL2", "fill"} \cup WritePhases]
      BY BoundsInNat, <2>3 DEF PublishSet, CacheInv, TypeOK, Goto, Done, WritePhases
    <3>2. at' \in [Requests -> Instances \cup {NoInstance}]
      BY BoundsInNat, <2>3 DEF PublishSet, CacheInv, TypeOK, Done, Placed
    <3>3. val' \in [Requests -> 0..MaxWrites]
      BY BoundsInNat, <2>3 DEF PublishSet, CacheInv, TypeOK, Done, Values
    <3>4. overtaken' \in [Requests -> BOOLEAN]
      BY BoundsInNat, <2>3 DEF PublishSet, CacheInv, TypeOK, Overtake, Writing
    <3> QED BY <3>1, <3>2, <3>3, <3>4
  <2>4. ASSUME NEW r \in Requests, SetL1(r) PROVE Calls
    <3>1. pc' \in [Requests -> {"idle", "readL2", "fill"} \cup WritePhases]
      BY BoundsInNat, <2>4 DEF SetL1, CacheInv, TypeOK, Goto, Done, WritePhases
    <3>2. at' \in [Requests -> Instances \cup {NoInstance}]
      BY BoundsInNat, <2>4 DEF SetL1, CacheInv, TypeOK, Done, Placed
    <3>3. val' \in [Requests -> 0..MaxWrites]
      BY BoundsInNat, <2>4 DEF SetL1, CacheInv, TypeOK, Done, Values
    <3>4. overtaken' \in [Requests -> BOOLEAN]
      BY BoundsInNat, <2>4 DEF SetL1, CacheInv, TypeOK, Overtake, Writing
    <3> QED BY <3>1, <3>2, <3>3, <3>4
  <2>5. ASSUME NEW r \in Requests, TakeL2(r) PROVE Calls
    <3>1. pc' \in [Requests -> {"idle", "readL2", "fill"} \cup WritePhases]
      BY BoundsInNat, <2>5 DEF TakeL2, CacheInv, TypeOK, Goto, Done, WritePhases
    <3>2. at' \in [Requests -> Instances \cup {NoInstance}]
      BY BoundsInNat, <2>5 DEF TakeL2, CacheInv, TypeOK, Done, Placed
    <3>3. val' \in [Requests -> 0..MaxWrites]
      BY BoundsInNat, <2>5 DEF TakeL2, CacheInv, TypeOK, Done, Values
    <3>4. overtaken' \in [Requests -> BOOLEAN]
      BY BoundsInNat, <2>5 DEF TakeL2, CacheInv, TypeOK, Overtake, Writing
    <3> QED BY <3>1, <3>2, <3>3, <3>4
  <2>6. ASSUME NEW r \in Requests, TakeL2Fails(r) PROVE Calls
    <3>1. pc' \in [Requests -> {"idle", "readL2", "fill"} \cup WritePhases]
      BY BoundsInNat, <2>6 DEF TakeL2Fails, CacheInv, TypeOK, Goto, Done, WritePhases
    <3>2. at' \in [Requests -> Instances \cup {NoInstance}]
      BY BoundsInNat, <2>6 DEF TakeL2Fails, CacheInv, TypeOK, Done, Placed
    <3>3. val' \in [Requests -> 0..MaxWrites]
      BY BoundsInNat, <2>6 DEF TakeL2Fails, CacheInv, TypeOK, Done, Values
    <3>4. overtaken' \in [Requests -> BOOLEAN]
      BY BoundsInNat, <2>6 DEF TakeL2Fails, CacheInv, TypeOK, Overtake, Writing
    <3> QED BY <3>1, <3>2, <3>3, <3>4
  <2>7. ASSUME NEW r \in Requests, Publish(r) PROVE Calls
    <3>1. pc' \in [Requests -> {"idle", "readL2", "fill"} \cup WritePhases]
      BY BoundsInNat, <2>7 DEF Publish, CacheInv, TypeOK, Goto, Done, WritePhases
    <3>2. at' \in [Requests -> Instances \cup {NoInstance}]
      BY BoundsInNat, <2>7 DEF Publish, CacheInv, TypeOK, Done, Placed
    <3>3. val' \in [Requests -> 0..MaxWrites]
      BY BoundsInNat, <2>7 DEF Publish, CacheInv, TypeOK, Done, Values
    <3>4. overtaken' \in [Requests -> BOOLEAN]
      BY BoundsInNat, <2>7 DEF Publish, CacheInv, TypeOK, Overtake, Writing
    <3> QED BY <3>1, <3>2, <3>3, <3>4
  <2>8. ASSUME NEW r \in Requests, NEW i \in Instances, Get(r, i) PROVE Calls
    <3>1. pc' \in [Requests -> {"idle", "readL2", "fill"} \cup WritePhases]
      BY BoundsInNat, <2>8 DEF Get, CacheInv, TypeOK, Goto, Done, WritePhases
    <3>2. at' \in [Requests -> Instances \cup {NoInstance}]
      BY BoundsInNat, <2>8 DEF Get, CacheInv, TypeOK, Done, Placed
    <3>3. val' \in [Requests -> 0..MaxWrites]
      BY BoundsInNat, <2>8 DEF Get, CacheInv, TypeOK, Done, Values
    <3>4. overtaken' \in [Requests -> BOOLEAN]
      BY BoundsInNat, <2>8 DEF Get, CacheInv, TypeOK, Overtake, Writing
    <3> QED BY <3>1, <3>2, <3>3, <3>4
  <2>9. ASSUME NEW r \in Requests, NEW i \in Instances, SetL2(r, i) PROVE Calls
    <3>1. pc' \in [Requests -> {"idle", "readL2", "fill"} \cup WritePhases]
      BY BoundsInNat, <2>9 DEF SetL2, CacheInv, TypeOK, Goto, Done, WritePhases
    <3>2. at' \in [Requests -> Instances \cup {NoInstance}]
      BY BoundsInNat, <2>9 DEF SetL2, CacheInv, TypeOK, Done, Placed
    <3>3. val' \in [Requests -> 0..MaxWrites]
      BY BoundsInNat, <2>9 DEF SetL2, CacheInv, TypeOK, NewWrite, Done, Values
    <3>4. overtaken' \in [Requests -> BOOLEAN]
      BY BoundsInNat, <2>9 DEF SetL2, CacheInv, TypeOK, Overtake, Writing
    <3> QED BY <3>1, <3>2, <3>3, <3>4
  <2>10. ASSUME NEW r \in Requests, NEW i \in Instances, SetL2Fails(r, i) PROVE Calls
    <3>1. pc' \in [Requests -> {"idle", "readL2", "fill"} \cup WritePhases]
      BY BoundsInNat, <2>10 DEF SetL2Fails, CacheInv, TypeOK, Goto, Done, WritePhases
    <3>2. at' \in [Requests -> Instances \cup {NoInstance}]
      BY BoundsInNat, <2>10 DEF SetL2Fails, CacheInv, TypeOK, Done, Placed
    <3>3. val' \in [Requests -> 0..MaxWrites]
      <4>1. writes' \in 0..MaxWrites
        BY BoundsInNat, <2>10 DEF SetL2Fails, NewWrite, CacheInv, TypeOK
      <4>2. val' = val \/ val' = [val EXCEPT ![r] = writes']
        BY <2>10 DEF SetL2Fails
      <4> QED BY <4>1, <4>2 DEF CacheInv, TypeOK
    <3>4. overtaken' \in [Requests -> BOOLEAN]
      BY BoundsInNat, <2>10 DEF SetL2Fails, CacheInv, TypeOK, Overtake, Writing
    <3> QED BY <3>1, <3>2, <3>3, <3>4
  <2>11. ASSUME NEW r \in Requests, NEW i \in Instances, Delete(r, i) PROVE Calls
    <3>1. pc' \in [Requests -> {"idle", "readL2", "fill"} \cup WritePhases]
      BY BoundsInNat, <2>11 DEF Delete, CacheInv, TypeOK, Goto, Done, WritePhases
    <3>2. at' \in [Requests -> Instances \cup {NoInstance}]
      BY BoundsInNat, <2>11 DEF Delete, CacheInv, TypeOK, Done, Placed
    <3>3. val' \in [Requests -> 0..MaxWrites]
      BY BoundsInNat, <2>11 DEF Delete, CacheInv, TypeOK, NewWrite, Done, Values
    <3>4. overtaken' \in [Requests -> BOOLEAN]
      BY BoundsInNat, <2>11 DEF Delete, CacheInv, TypeOK, Overtake, Writing
    <3> QED BY <3>1, <3>2, <3>3, <3>4
  <2>12. ASSUME NEW r \in Requests, NEW i \in Instances, DeleteFails(r, i) PROVE Calls
    <3>1. pc' \in [Requests -> {"idle", "readL2", "fill"} \cup WritePhases]
      BY BoundsInNat, <2>12 DEF DeleteFails, CacheInv, TypeOK, Goto, Done, WritePhases
    <3>2. at' \in [Requests -> Instances \cup {NoInstance}]
      BY BoundsInNat, <2>12 DEF DeleteFails, CacheInv, TypeOK, Done, Placed
    <3>3. val' \in [Requests -> 0..MaxWrites]
      BY BoundsInNat, <2>12 DEF DeleteFails, CacheInv, TypeOK, NewWrite, Done, Values
    <3>4. overtaken' \in [Requests -> BOOLEAN]
      BY BoundsInNat, <2>12 DEF DeleteFails, CacheInv, TypeOK, Overtake, Writing
    <3> QED BY <3>1, <3>2, <3>3, <3>4
  <2>13. ASSUME NEW r \in Requests, NEW i \in Instances, TakeL1(r, i) PROVE Calls
    <3>1. pc' \in [Requests -> {"idle", "readL2", "fill"} \cup WritePhases]
      BY BoundsInNat, <2>13 DEF TakeL1, CacheInv, TypeOK, Goto, Done, WritePhases
    <3>2. at' \in [Requests -> Instances \cup {NoInstance}]
      BY BoundsInNat, <2>13 DEF TakeL1, CacheInv, TypeOK, Done, Placed
    <3>3. val' \in [Requests -> 0..MaxWrites]
      BY BoundsInNat, <2>13 DEF TakeL1, CacheInv, TypeOK, NewWrite, Done, Values
    <3>4. overtaken' \in [Requests -> BOOLEAN]
      BY BoundsInNat, <2>13 DEF TakeL1, CacheInv, TypeOK, Overtake, Writing
    <3> QED BY <3>1, <3>2, <3>3, <3>4
  <2>14. ASSUME NEW i \in Instances, Deliver(i) PROVE Calls
    <3>1. pc' \in [Requests -> {"idle", "readL2", "fill"} \cup WritePhases]
      BY BoundsInNat, <2>14 DEF Deliver, CacheInv, TypeOK, Goto, Done, WritePhases
    <3>2. at' \in [Requests -> Instances \cup {NoInstance}]
      BY BoundsInNat, <2>14 DEF Deliver, CacheInv, TypeOK, Done, Placed
    <3>3. val' \in [Requests -> 0..MaxWrites]
      BY BoundsInNat, <2>14 DEF Deliver, CacheInv, TypeOK, Done, Values
    <3>4. overtaken' \in [Requests -> BOOLEAN]
      BY BoundsInNat, <2>14 DEF Deliver, CacheInv, TypeOK, Overtake, Writing
    <3> QED BY <3>1, <3>2, <3>3, <3>4
  <2>15. ASSUME NEW i \in Instances, Lose(i) PROVE Calls
    <3>1. pc' \in [Requests -> {"idle", "readL2", "fill"} \cup WritePhases]
      BY BoundsInNat, <2>15 DEF Lose, CacheInv, TypeOK, Goto, Done, WritePhases
    <3>2. at' \in [Requests -> Instances \cup {NoInstance}]
      BY BoundsInNat, <2>15 DEF Lose, CacheInv, TypeOK, Done, Placed
    <3>3. val' \in [Requests -> 0..MaxWrites]
      BY BoundsInNat, <2>15 DEF Lose, CacheInv, TypeOK, Done, Values
    <3>4. overtaken' \in [Requests -> BOOLEAN]
      BY BoundsInNat, <2>15 DEF Lose, CacheInv, TypeOK, Overtake, Writing
    <3> QED BY <3>1, <3>2, <3>3, <3>4
  <2>16. ASSUME NEW i \in Instances, Evict(i) PROVE Calls
    <3>1. pc' \in [Requests -> {"idle", "readL2", "fill"} \cup WritePhases]
      BY BoundsInNat, <2>16 DEF Evict, CacheInv, TypeOK, Goto, Done, WritePhases
    <3>2. at' \in [Requests -> Instances \cup {NoInstance}]
      BY BoundsInNat, <2>16 DEF Evict, CacheInv, TypeOK, Done, Placed
    <3>3. val' \in [Requests -> 0..MaxWrites]
      BY BoundsInNat, <2>16 DEF Evict, CacheInv, TypeOK, Done, Values
    <3>4. overtaken' \in [Requests -> BOOLEAN]
      BY BoundsInNat, <2>16 DEF Evict, CacheInv, TypeOK, Overtake, Writing
    <3> QED BY <3>1, <3>2, <3>3, <3>4
  <2>17. ASSUME Expire PROVE Calls
    <3>1. pc' \in [Requests -> {"idle", "readL2", "fill"} \cup WritePhases]
      BY BoundsInNat, <2>17 DEF Expire, CacheInv, TypeOK, Goto, Done, WritePhases
    <3>2. at' \in [Requests -> Instances \cup {NoInstance}]
      BY BoundsInNat, <2>17 DEF Expire, CacheInv, TypeOK, Done, Placed
    <3>3. val' \in [Requests -> 0..MaxWrites]
      BY BoundsInNat, <2>17 DEF Expire, CacheInv, TypeOK, Done, Values
    <3>4. overtaken' \in [Requests -> BOOLEAN]
      BY BoundsInNat, <2>17 DEF Expire, CacheInv, TypeOK, Overtake, Writing
    <3> QED BY <3>1, <3>2, <3>3, <3>4
  <2> QED
    BY <2>1, <2>2, <2>3, <2>4, <2>5, <2>6, <2>7, <2>8, <2>9, <2>10, <2>11, <2>12, <2>13,
       <2>14, <2>15, <2>16, <2>17 DEF Next, Continue
<1>b. Stored
  <2>1. ASSUME NEW r \in Requests, ReadL2(r) PROVE Stored
    <3>1. writes' \in 0..MaxWrites /\ l2' \in 0..MaxWrites
      BY BoundsInNat, <2>1 DEF ReadL2, CacheInv, TypeOK, Values
    <3>2. big' \subseteq Values /\ expired' \subseteq Values
      BY BoundsInNat, <2>1 DEF ReadL2, CacheInv, TypeOK, Values
    <3>3. /\ DOMAIN bus' = Instances /\ bus' = [j \in Instances |-> bus'[j]]
          /\ \A j \in Instances : bus'[j] \in Nat
      BY BoundsInNat, <2>1 DEF ReadL2, CacheInv, TypeOK, Broadcast
    <3>4. /\ DOMAIN taken' = Values /\ taken' = [v \in Values |-> taken'[v]]
          /\ \A v \in Values : taken'[v] \in Nat
      BY BoundsInNat, <2>1 DEF ReadL2, CacheInv, TypeOK, Values
    <3>5. faults' \in 0..MaxFaults
      BY BoundsInNat, <2>1 DEF ReadL2, CacheInv, TypeOK, Fault, Broadcast
    <3> QED BY <3>1, <3>2, <3>3, <3>4, <3>5
  <2>2. ASSUME NEW r \in Requests, Fill(r) PROVE Stored
    <3>1. writes' \in 0..MaxWrites /\ l2' \in 0..MaxWrites
      BY BoundsInNat, <2>2 DEF Fill, CacheInv, TypeOK, Values
    <3>2. big' \subseteq Values /\ expired' \subseteq Values
      BY BoundsInNat, <2>2 DEF Fill, CacheInv, TypeOK, Values
    <3>3. /\ DOMAIN bus' = Instances /\ bus' = [j \in Instances |-> bus'[j]]
          /\ \A j \in Instances : bus'[j] \in Nat
      BY BoundsInNat, <2>2 DEF Fill, CacheInv, TypeOK, Broadcast
    <3>4. /\ DOMAIN taken' = Values /\ taken' = [v \in Values |-> taken'[v]]
          /\ \A v \in Values : taken'[v] \in Nat
      BY BoundsInNat, <2>2 DEF Fill, CacheInv, TypeOK, Values
    <3>5. faults' \in 0..MaxFaults
      BY BoundsInNat, <2>2 DEF Fill, CacheInv, TypeOK, Fault, Broadcast
    <3> QED BY <3>1, <3>2, <3>3, <3>4, <3>5
  <2>3. ASSUME NEW r \in Requests, PublishSet(r) PROVE Stored
    <3>1. writes' \in 0..MaxWrites /\ l2' \in 0..MaxWrites
      BY BoundsInNat, <2>3 DEF PublishSet, CacheInv, TypeOK, Values
    <3>2. big' \subseteq Values /\ expired' \subseteq Values
      BY BoundsInNat, <2>3 DEF PublishSet, CacheInv, TypeOK, Values
    <3>3. /\ DOMAIN bus' = Instances /\ bus' = [j \in Instances |-> bus'[j]]
          /\ \A j \in Instances : bus'[j] \in Nat
      BY BoundsInNat, <2>3 DEF PublishSet, CacheInv, TypeOK, Broadcast
    <3>4. /\ DOMAIN taken' = Values /\ taken' = [v \in Values |-> taken'[v]]
          /\ \A v \in Values : taken'[v] \in Nat
      BY BoundsInNat, <2>3 DEF PublishSet, CacheInv, TypeOK, Values
    <3>5. faults' \in 0..MaxFaults
      BY BoundsInNat, <2>3 DEF PublishSet, CacheInv, TypeOK, Fault, Broadcast
    <3> QED BY <3>1, <3>2, <3>3, <3>4, <3>5
  <2>4. ASSUME NEW r \in Requests, SetL1(r) PROVE Stored
    <3>1. writes' \in 0..MaxWrites /\ l2' \in 0..MaxWrites
      BY BoundsInNat, <2>4 DEF SetL1, CacheInv, TypeOK, Values
    <3>2. big' \subseteq Values /\ expired' \subseteq Values
      BY BoundsInNat, <2>4 DEF SetL1, CacheInv, TypeOK, Values
    <3>3. /\ DOMAIN bus' = Instances /\ bus' = [j \in Instances |-> bus'[j]]
          /\ \A j \in Instances : bus'[j] \in Nat
      BY BoundsInNat, <2>4 DEF SetL1, CacheInv, TypeOK, Broadcast
    <3>4. /\ DOMAIN taken' = Values /\ taken' = [v \in Values |-> taken'[v]]
          /\ \A v \in Values : taken'[v] \in Nat
      BY BoundsInNat, <2>4 DEF SetL1, CacheInv, TypeOK, Values
    <3>5. faults' \in 0..MaxFaults
      BY BoundsInNat, <2>4 DEF SetL1, CacheInv, TypeOK, Fault, Broadcast
    <3> QED BY <3>1, <3>2, <3>3, <3>4, <3>5
  <2>5. ASSUME NEW r \in Requests, TakeL2(r) PROVE Stored
    <3>1. writes' \in 0..MaxWrites /\ l2' \in 0..MaxWrites
      BY BoundsInNat, <2>5 DEF TakeL2, CacheInv, TypeOK, Values
    <3>2. big' \subseteq Values /\ expired' \subseteq Values
      BY BoundsInNat, <2>5 DEF TakeL2, CacheInv, TypeOK, Values
    <3>3. /\ DOMAIN bus' = Instances /\ bus' = [j \in Instances |-> bus'[j]]
          /\ \A j \in Instances : bus'[j] \in Nat
      BY BoundsInNat, <2>5 DEF TakeL2, CacheInv, TypeOK, Broadcast
    <3>4. /\ DOMAIN taken' = Values /\ taken' = [v \in Values |-> taken'[v]]
          /\ \A v \in Values : taken'[v] \in Nat
      <4>1. taken' = taken \/ (l2 \in Values /\ taken' = [taken EXCEPT ![l2] = taken[l2] + 1])
        BY BoundsInNat, <2>5 DEF TakeL2, CacheInv, TypeOK, Values
      <4>2. taken \in [Values -> Nat]
        BY CacheAssumption, FS_CardinalityType DEF CacheInv, TypeOK
      <4> QED BY <4>1, <4>2
    <3>5. faults' \in 0..MaxFaults
      BY BoundsInNat, <2>5 DEF TakeL2, CacheInv, TypeOK, Fault, Broadcast
    <3> QED BY <3>1, <3>2, <3>3, <3>4, <3>5
  <2>6. ASSUME NEW r \in Requests, TakeL2Fails(r) PROVE Stored
    <3>1. writes' \in 0..MaxWrites /\ l2' \in 0..MaxWrites
      BY BoundsInNat, <2>6 DEF TakeL2Fails, CacheInv, TypeOK, Values
    <3>2. big' \subseteq Values /\ expired' \subseteq Values
      BY BoundsInNat, <2>6 DEF TakeL2Fails, CacheInv, TypeOK, Values
    <3>3. /\ DOMAIN bus' = Instances /\ bus' = [j \in Instances |-> bus'[j]]
          /\ \A j \in Instances : bus'[j] \in Nat
      BY BoundsInNat, <2>6 DEF TakeL2Fails, CacheInv, TypeOK, Broadcast
    <3>4. /\ DOMAIN taken' = Values /\ taken' = [v \in Values |-> taken'[v]]
          /\ \A v \in Values : taken'[v] \in Nat
      BY BoundsInNat, <2>6 DEF TakeL2Fails, CacheInv, TypeOK, Values
    <3>5. faults' \in 0..MaxFaults
      BY BoundsInNat, <2>6 DEF TakeL2Fails, CacheInv, TypeOK, Fault, Broadcast
    <3> QED BY <3>1, <3>2, <3>3, <3>4, <3>5
  <2>7. ASSUME NEW r \in Requests, Publish(r) PROVE Stored
    <3>1. writes' \in 0..MaxWrites /\ l2' \in 0..MaxWrites
      BY BoundsInNat, <2>7 DEF Publish, CacheInv, TypeOK, Values
    <3>2. big' \subseteq Values /\ expired' \subseteq Values
      BY BoundsInNat, <2>7 DEF Publish, CacheInv, TypeOK, Values
    <3>3. /\ DOMAIN bus' = Instances /\ bus' = [j \in Instances |-> bus'[j]]
          /\ \A j \in Instances : bus'[j] \in Nat
      BY BoundsInNat, <2>7 DEF Publish, CacheInv, TypeOK, Broadcast
    <3>4. /\ DOMAIN taken' = Values /\ taken' = [v \in Values |-> taken'[v]]
          /\ \A v \in Values : taken'[v] \in Nat
      BY BoundsInNat, <2>7 DEF Publish, CacheInv, TypeOK, Values
    <3>5. faults' \in 0..MaxFaults
      BY BoundsInNat, <2>7 DEF Publish, CacheInv, TypeOK, Fault, Broadcast
    <3> QED BY <3>1, <3>2, <3>3, <3>4, <3>5
  <2>8. ASSUME NEW r \in Requests, NEW i \in Instances, Get(r, i) PROVE Stored
    <3>1. writes' \in 0..MaxWrites /\ l2' \in 0..MaxWrites
      BY BoundsInNat, <2>8 DEF Get, CacheInv, TypeOK, Values
    <3>2. big' \subseteq Values /\ expired' \subseteq Values
      BY BoundsInNat, <2>8 DEF Get, CacheInv, TypeOK, Values
    <3>3. /\ DOMAIN bus' = Instances /\ bus' = [j \in Instances |-> bus'[j]]
          /\ \A j \in Instances : bus'[j] \in Nat
      BY BoundsInNat, <2>8 DEF Get, CacheInv, TypeOK, Broadcast
    <3>4. /\ DOMAIN taken' = Values /\ taken' = [v \in Values |-> taken'[v]]
          /\ \A v \in Values : taken'[v] \in Nat
      BY BoundsInNat, <2>8 DEF Get, CacheInv, TypeOK, Values
    <3>5. faults' \in 0..MaxFaults
      BY BoundsInNat, <2>8 DEF Get, CacheInv, TypeOK, Fault, Broadcast
    <3> QED BY <3>1, <3>2, <3>3, <3>4, <3>5
  <2>9. ASSUME NEW r \in Requests, NEW i \in Instances, SetL2(r, i) PROVE Stored
    <3>1. writes' \in 0..MaxWrites /\ l2' \in 0..MaxWrites
      BY BoundsInNat, <2>9 DEF SetL2, CacheInv, TypeOK, Values, NewWrite
    <3>2. big' \subseteq Values /\ expired' \subseteq Values
      <4>1. writes' \in Values
        BY BoundsInNat, <2>9 DEF SetL2, NewWrite, CacheInv, TypeOK, Values
      <4>2. big' = big \/ big' = big \cup {writes'}
        BY <2>9 DEF SetL2
      <4> QED BY <4>1, <4>2, <2>9 DEF SetL2, CacheInv, TypeOK
    <3>3. /\ DOMAIN bus' = Instances /\ bus' = [j \in Instances |-> bus'[j]]
          /\ \A j \in Instances : bus'[j] \in Nat
      BY BoundsInNat, <2>9 DEF SetL2, CacheInv, TypeOK, Broadcast
    <3>4. /\ DOMAIN taken' = Values /\ taken' = [v \in Values |-> taken'[v]]
          /\ \A v \in Values : taken'[v] \in Nat
      BY BoundsInNat, <2>9 DEF SetL2, CacheInv, TypeOK, Values
    <3>5. faults' \in 0..MaxFaults
      BY BoundsInNat, <2>9 DEF SetL2, CacheInv, TypeOK, Fault, Broadcast
    <3> QED BY <3>1, <3>2, <3>3, <3>4, <3>5
  <2>10. ASSUME NEW r \in Requests, NEW i \in Instances, SetL2Fails(r, i) PROVE Stored
    <3>1. writes' \in 0..MaxWrites /\ l2' \in 0..MaxWrites
      BY BoundsInNat, <2>10 DEF SetL2Fails, CacheInv, TypeOK, Values, NewWrite
    <3>2. big' \subseteq Values /\ expired' \subseteq Values
      <4>1. writes' \in Values
        BY BoundsInNat, <2>10 DEF SetL2Fails, NewWrite, CacheInv, TypeOK, Values
      <4>2. big' = big \/ big' = big \cup {writes'}
        BY <2>10 DEF SetL2Fails
      <4> QED BY <4>1, <4>2, <2>10 DEF SetL2Fails, CacheInv, TypeOK
    <3>3. /\ DOMAIN bus' = Instances /\ bus' = [j \in Instances |-> bus'[j]]
          /\ \A j \in Instances : bus'[j] \in Nat
      BY BoundsInNat, <2>10 DEF SetL2Fails, CacheInv, TypeOK, Broadcast
    <3>4. /\ DOMAIN taken' = Values /\ taken' = [v \in Values |-> taken'[v]]
          /\ \A v \in Values : taken'[v] \in Nat
      BY BoundsInNat, <2>10 DEF SetL2Fails, CacheInv, TypeOK, Values
    <3>5. faults' \in 0..MaxFaults
      BY BoundsInNat, <2>10 DEF SetL2Fails, CacheInv, TypeOK, Fault, Broadcast
    <3> QED BY <3>1, <3>2, <3>3, <3>4, <3>5
  <2>11. ASSUME NEW r \in Requests, NEW i \in Instances, Delete(r, i) PROVE Stored
    <3>1. writes' \in 0..MaxWrites /\ l2' \in 0..MaxWrites
      BY BoundsInNat, <2>11 DEF Delete, CacheInv, TypeOK, Values, NewWrite
    <3>2. big' \subseteq Values /\ expired' \subseteq Values
      BY BoundsInNat, <2>11 DEF Delete, CacheInv, TypeOK, Values
    <3>3. /\ DOMAIN bus' = Instances /\ bus' = [j \in Instances |-> bus'[j]]
          /\ \A j \in Instances : bus'[j] \in Nat
      BY BoundsInNat, <2>11 DEF Delete, CacheInv, TypeOK, Broadcast
    <3>4. /\ DOMAIN taken' = Values /\ taken' = [v \in Values |-> taken'[v]]
          /\ \A v \in Values : taken'[v] \in Nat
      BY BoundsInNat, <2>11 DEF Delete, CacheInv, TypeOK, Values
    <3>5. faults' \in 0..MaxFaults
      BY BoundsInNat, <2>11 DEF Delete, CacheInv, TypeOK, Fault, Broadcast
    <3> QED BY <3>1, <3>2, <3>3, <3>4, <3>5
  <2>12. ASSUME NEW r \in Requests, NEW i \in Instances, DeleteFails(r, i) PROVE Stored
    <3>1. writes' \in 0..MaxWrites /\ l2' \in 0..MaxWrites
      BY BoundsInNat, <2>12 DEF DeleteFails, CacheInv, TypeOK, Values, NewWrite
    <3>2. big' \subseteq Values /\ expired' \subseteq Values
      BY BoundsInNat, <2>12 DEF DeleteFails, CacheInv, TypeOK, Values
    <3>3. /\ DOMAIN bus' = Instances /\ bus' = [j \in Instances |-> bus'[j]]
          /\ \A j \in Instances : bus'[j] \in Nat
      BY BoundsInNat, <2>12 DEF DeleteFails, CacheInv, TypeOK, Broadcast
    <3>4. /\ DOMAIN taken' = Values /\ taken' = [v \in Values |-> taken'[v]]
          /\ \A v \in Values : taken'[v] \in Nat
      BY BoundsInNat, <2>12 DEF DeleteFails, CacheInv, TypeOK, Values
    <3>5. faults' \in 0..MaxFaults
      BY BoundsInNat, <2>12 DEF DeleteFails, CacheInv, TypeOK, Fault, Broadcast
    <3> QED BY <3>1, <3>2, <3>3, <3>4, <3>5
  <2>13. ASSUME NEW r \in Requests, NEW i \in Instances, TakeL1(r, i) PROVE Stored
    <3>1. writes' \in 0..MaxWrites /\ l2' \in 0..MaxWrites
      BY BoundsInNat, <2>13 DEF TakeL1, CacheInv, TypeOK, Values, NewWrite
    <3>2. big' \subseteq Values /\ expired' \subseteq Values
      BY BoundsInNat, <2>13 DEF TakeL1, CacheInv, TypeOK, Values
    <3>3. /\ DOMAIN bus' = Instances /\ bus' = [j \in Instances |-> bus'[j]]
          /\ \A j \in Instances : bus'[j] \in Nat
      BY BoundsInNat, <2>13 DEF TakeL1, CacheInv, TypeOK, Broadcast
    <3>4. /\ DOMAIN taken' = Values /\ taken' = [v \in Values |-> taken'[v]]
          /\ \A v \in Values : taken'[v] \in Nat
      BY BoundsInNat, <2>13 DEF TakeL1, CacheInv, TypeOK, Values
    <3>5. faults' \in 0..MaxFaults
      BY BoundsInNat, <2>13 DEF TakeL1, CacheInv, TypeOK, Fault, Broadcast
    <3> QED BY <3>1, <3>2, <3>3, <3>4, <3>5
  <2>14. ASSUME NEW i \in Instances, Deliver(i) PROVE Stored
    <3>1. writes' \in 0..MaxWrites /\ l2' \in 0..MaxWrites
      BY BoundsInNat, <2>14 DEF Deliver, CacheInv, TypeOK, Values
    <3>2. big' \subseteq Values /\ expired' \subseteq Values
      BY BoundsInNat, <2>14 DEF Deliver, CacheInv, TypeOK, Values
    <3>3. /\ DOMAIN bus' = Instances /\ bus' = [j \in Instances |-> bus'[j]]
          /\ \A j \in Instances : bus'[j] \in Nat
      <4>1. bus' = [bus EXCEPT ![i] = bus[i] - 1] /\ bus[i] > 0
        BY <2>14 DEF Deliver
      <4>2. bus \in [Instances -> Nat]
        BY BoundsInNat DEF CacheInv, TypeOK
      <4>3. bus[i] - 1 \in Nat
        BY <4>1, <4>2
      <4>4. bus' \in [Instances -> Nat]
        BY <4>1, <4>2, <4>3
      <4> QED BY <4>4
    <3>4. /\ DOMAIN taken' = Values /\ taken' = [v \in Values |-> taken'[v]]
          /\ \A v \in Values : taken'[v] \in Nat
      BY BoundsInNat, <2>14 DEF Deliver, CacheInv, TypeOK, Values
    <3>5. faults' \in 0..MaxFaults
      BY BoundsInNat, <2>14 DEF Deliver, CacheInv, TypeOK, Fault, Broadcast
    <3> QED BY <3>1, <3>2, <3>3, <3>4, <3>5
  <2>15. ASSUME NEW i \in Instances, Lose(i) PROVE Stored
    <3>1. writes' \in 0..MaxWrites /\ l2' \in 0..MaxWrites
      BY BoundsInNat, <2>15 DEF Lose, CacheInv, TypeOK, Values
    <3>2. big' \subseteq Values /\ expired' \subseteq Values
      BY BoundsInNat, <2>15 DEF Lose, CacheInv, TypeOK, Values
    <3>3. /\ DOMAIN bus' = Instances /\ bus' = [j \in Instances |-> bus'[j]]
          /\ \A j \in Instances : bus'[j] \in Nat
      <4>1. bus' = [bus EXCEPT ![i] = bus[i] - 1] /\ bus[i] > 0
        BY <2>15 DEF Lose
      <4>2. bus \in [Instances -> Nat]
        BY BoundsInNat DEF CacheInv, TypeOK
      <4>3. bus[i] - 1 \in Nat
        BY <4>1, <4>2
      <4>4. bus' \in [Instances -> Nat]
        BY <4>1, <4>2, <4>3
      <4> QED BY <4>4
    <3>4. /\ DOMAIN taken' = Values /\ taken' = [v \in Values |-> taken'[v]]
          /\ \A v \in Values : taken'[v] \in Nat
      BY BoundsInNat, <2>15 DEF Lose, CacheInv, TypeOK, Values
    <3>5. faults' \in 0..MaxFaults
      BY BoundsInNat, <2>15 DEF Lose, CacheInv, TypeOK, Fault, Broadcast
    <3> QED BY <3>1, <3>2, <3>3, <3>4, <3>5
  <2>16. ASSUME NEW i \in Instances, Evict(i) PROVE Stored
    <3>1. writes' \in 0..MaxWrites /\ l2' \in 0..MaxWrites
      BY BoundsInNat, <2>16 DEF Evict, CacheInv, TypeOK, Values
    <3>2. big' \subseteq Values /\ expired' \subseteq Values
      BY BoundsInNat, <2>16 DEF Evict, CacheInv, TypeOK, Values
    <3>3. /\ DOMAIN bus' = Instances /\ bus' = [j \in Instances |-> bus'[j]]
          /\ \A j \in Instances : bus'[j] \in Nat
      BY BoundsInNat, <2>16 DEF Evict, CacheInv, TypeOK, Broadcast
    <3>4. /\ DOMAIN taken' = Values /\ taken' = [v \in Values |-> taken'[v]]
          /\ \A v \in Values : taken'[v] \in Nat
      BY BoundsInNat, <2>16 DEF Evict, CacheInv, TypeOK, Values
    <3>5. faults' \in 0..MaxFaults
      BY BoundsInNat, <2>16 DEF Evict, CacheInv, TypeOK, Fault, Broadcast
    <3> QED BY <3>1, <3>2, <3>3, <3>4, <3>5
  <2>17. ASSUME Expire PROVE Stored
    <3>1. writes' \in 0..MaxWrites /\ l2' \in 0..MaxWrites
      BY BoundsInNat, <2>17 DEF Expire, CacheInv, TypeOK, Values
    <3>2. big' \subseteq Values /\ expired' \subseteq Values
      BY BoundsInNat, <2>17 DEF Expire, CacheInv, TypeOK, Values
    <3>3. /\ DOMAIN bus' = Instances /\ bus' = [j \in Instances |-> bus'[j]]
          /\ \A j \in Instances : bus'[j] \in Nat
      BY BoundsInNat, <2>17 DEF Expire, CacheInv, TypeOK, Broadcast
    <3>4. /\ DOMAIN taken' = Values /\ taken' = [v \in Values |-> taken'[v]]
          /\ \A v \in Values : taken'[v] \in Nat
      BY BoundsInNat, <2>17 DEF Expire, CacheInv, TypeOK, Values
    <3>5. faults' \in 0..MaxFaults
      BY BoundsInNat, <2>17 DEF Expire, CacheInv, TypeOK, Fault, Broadcast
    <3> QED BY <3>1, <3>2, <3>3, <3>4, <3>5
  <2> QED
    BY <2>1, <2>2, <2>3, <2>4, <2>5, <2>6, <2>7, <2>8, <2>9, <2>10, <2>11, <2>12, <2>13,
       <2>14, <2>15, <2>16, <2>17 DEF Next, Continue
<1>c. l1' \in [Instances -> Copies \cup {NoCopy}]
  <2>1. ASSUME NEW r \in Requests, Fill(r) PROVE l1' \in [Instances -> Copies \cup {NoCopy}]
    BY <2>1 DEF Fill, CacheInv, TypeOK, Copies, Placed, WillCopy, CopyPhases
  <2>2. ASSUME NEW r \in Requests, SetL1(r) PROVE l1' \in [Instances -> Copies \cup {NoCopy}]
    BY <2>2 DEF SetL1, CacheInv, TypeOK, Copies, Placed, WillCopy, CopyPhases
  <2> QED BY <2>1, <2>2, MarkedNext DEF Marked
<1>d. \A i \in Instances : bus'[i] \in 0..MaxWrites
  <2>1. Cardinality(Announcing') \in Nat
    <3>1. Announcing' \in SUBSET Requests
      BY DEF Announcing
    <3> QED BY <3>1, CacheAssumption, FS_Subset, FS_CardinalityType
  <2> QED BY <1>b, <2>1, CountedNext, BoundsInNat DEF Counted
<1>e. \A v \in Values : taken'[v] \in 0..Cardinality(Requests)
  <2>1. CASE Requests = {}
    BY <2>1 DEF Next, Deliver, Lose, Evict, Expire, CacheInv, TypeOK
  <2>2. CASE Requests # {}
    <3>1. Cardinality(Requests) \in Nat /\ Cardinality(Requests) # 0
      BY <2>2, CacheAssumption, FS_EmptySet, FS_CardinalityType
    <3> QED BY <1>b, <3>1, OnceNext DEF Once
  <2> QED BY <2>1, <2>2
<1> QED BY <1>a, <1>b, <1>c, <1>d, <1>e DEF TypeOK

-----------------------------------------------------------------------------
(* The theorems *)

LEMMA CacheInvInit == Init => CacheInv
<1> SUFFICES ASSUME Init PROVE CacheInv
  OBVIOUS
<1>1. Cardinality(Requests) \in Nat
  BY CacheAssumption, FS_CardinalityType
<1>2. TypeOK
  BY <1>1, BoundsInNat DEF Init, TypeOK, NoCopy, Values
<1>3. Counted
  <2>1. Announcing = {}
    BY DEF Init, Announcing
  <2> QED BY <2>1, FS_EmptySet DEF Init, Counted
<1>4. Placed /\ Undisturbed /\ Dropped /\ Repaired
  BY DEF Init, Placed, Undisturbed, Dropped, Repaired, Stale, WillCopy, CopyPhases
<1>5. Once
  BY DEF Init, Once, Values
<1> QED BY <1>2, <1>3, <1>4, <1>5 DEF CacheInv

LEMMA CacheInvNext == CacheInv /\ [Next]_vars => CacheInv'
<1>1. CacheInv /\ Next => CacheInv'
  BY TypingNext, PlacedNext, CountedNext, OnceNext, UndisturbedNext, DroppedNext,
     RepairedNext
  DEF CacheInv
<1>2. CacheInv /\ UNCHANGED vars => CacheInv'
  BY DEF vars, CacheInv, TypeOK, Placed, Counted, Announcing, Once, Undisturbed, Dropped,
     Repaired, Repairs, Stale, WillCopy, Copies, Values, NoCopy
<1> QED BY <1>1, <1>2

LEMMA CacheInvHolds == Spec => []CacheInv
BY CacheInvInit, CacheInvNext, PTL DEF Spec

\* The copies, the value in Redis and the calls keep their types, and the bus
\* never holds more messages than there were writes (multi-tier-cache.provider.ts).
THEOREM Typing == Spec => []TypeOK
BY CacheInvHolds, PTL DEF CacheInv

\* However many instances ask for a value at once, getAndDelete gives it to one of
\* them (multi-tier-cache.provider.ts, Redis GETDEL).
THEOREM TakenByOne == Spec => []TakenOnce
<1>1. CacheInv => TakenOnce
  BY DEF CacheInv, Once, TakenOnce
<1> QED BY <1>1, CacheInvHolds, PTL

\* Once the writes are over and an instance has received its invalidations, its
\* copy is what Redis holds, but for the four ways named at CoherentAtRest in which
\* the code leaves it out of date; whatever commands and messages are lost, with
\* values of any size and the bus on or off (multi-tier-cache.provider.ts, get, set
\* and delete; redis-cache.provider.ts, broadcastKeyInvalidation).
THEOREM Coherent == Spec => []CoherentAtRest
<1>1. CacheInv => CoherentAtRest
  BY DEF CacheInv, Repaired, Repairs, CoherentAtRest, Writing, WritePhases
<1> QED BY <1>1, CacheInvHolds, PTL

=============================================================================
