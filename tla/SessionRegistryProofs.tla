----------------------- MODULE SessionRegistryProofs -----------------------
(***************************************************************************)
(* What the session registry promises for any number of logins, rotations, *)
(* logouts and wipes, any cap of the list and any number of faults.        *)
(***************************************************************************)
EXTENDS SessionRegistry, SequenceTheorems, WellFoundedInduction, TLAPS


-----------------------------------------------------------------------------
\* A set of naturals that is not empty has a least element.
LEMMA LeastNat ==
  ASSUME NEW S \in SUBSET Nat, S # {}
  PROVE  \E n \in S : \A m \in S : n <= m
<1> DEFINE R == {ss \in Nat \X Nat : ss[1] < ss[2]}
<1>0. IsWellFoundedOn(R, Nat)
  BY NatLessThanWellFounded DEF OpToRel
<1> HIDE DEF R
<1>1. PICK n \in S : \A m \in S : ~ (<<m, n>> \in R)
  BY <1>0, WFMin
<1>2. ASSUME NEW m \in S PROVE n <= m
  <2>1. m \in Nat /\ n \in Nat  OBVIOUS
  <2>2. m < n => <<m, n>> \in R  BY <2>1 DEF R
  <2> QED BY <1>1, <2>1, <2>2
<1> QED BY <1>2

\* What trimAndAppendSession returns: the entries of s from some place on, all
\* of them while the cap is not reached, and then e.
LEMMA Trimmed ==
  ASSUME NEW s \in Seq(Entry), NEW e \in Entry
  PROVE  /\ TrimAndAppend(s, e) \in Seq(Entry)
         /\ \E k \in Nat :
              /\ k <= Len(s) /\ (Len(s) < MaxActive => k = 0)
              /\ DOMAIN TrimAndAppend(s, e) = 1 .. Len(s) - k + 1
              /\ TrimAndAppend(s, e)[Len(s) - k + 1] = e
              /\ \A i \in 1 .. Len(s) - k :
                   i + k \in DOMAIN s /\ TrimAndAppend(s, e)[i] = s[i + k]
<1>1. MaxActive \in Nat \ {0} /\ Len(s) \in Nat  BY SessionAssumption
<1> DEFINE keep == Max({1, MaxActive - 1})
           m == Max({1, Len(s) - keep + 1})
           t == SubSeq(s, m, Len(s))
<1>2. \A x \in Int : Max({1, x}) = IF x > 1 THEN x ELSE 1
  BY DEF Max
<1>3. keep \in Nat /\ keep >= 1 /\ keep >= MaxActive - 1
  BY <1>1, <1>2
<1> HIDE DEF keep
<1>4. m \in 1 .. Len(s) + 1 /\ (Len(s) < MaxActive => m = 1)
  BY <1>1, <1>2, <1>3
<1> HIDE DEF m
<1>5. /\ t \in Seq(Entry) /\ Len(t) = Len(s) - (m - 1)
      /\ \A i \in 1 .. Len(t) : t[i] = s[i + (m - 1)]
  BY <1>1, <1>4, SubSeqProperties
<1> HIDE DEF t
<1>6. TrimAndAppend(s, e) = Append(t, e)
  BY DEF TrimAndAppend, t, m, keep
<1>7. /\ Append(t, e) \in Seq(Entry) /\ Len(Append(t, e)) = Len(t) + 1
      /\ Append(t, e)[Len(t) + 1] = e
      /\ \A i \in 1 .. Len(t) : Append(t, e)[i] = t[i]
  BY <1>5, AppendProperties
<1>8. DOMAIN Append(t, e) = 1 .. Len(t) + 1
  BY <1>5, <1>7
<1>9. /\ m - 1 \in Nat /\ m - 1 <= Len(s) /\ (Len(s) < MaxActive => m - 1 = 0)
      /\ \A i \in 1 .. Len(s) - (m - 1) : i + (m - 1) \in DOMAIN s
  BY <1>1, <1>4
<1> QED BY <1>5, <1>6, <1>7, <1>8, <1>9

\* What removeSessionFromUserSessions returns: the entries of s that do not
\* match t, in their order; one entry per session if s has.
LEMMA Filtered ==
  ASSUME NEW s \in Seq(Entry), NEW t
  PROVE  LET w == Without(s, t) IN
         /\ w \in Seq(Entry)
         /\ \A i \in DOMAIN w : \E j \in DOMAIN s : w[i] = s[j]
         /\ \A j \in DOMAIN s : ~Matches(s[j], t) => \E i \in DOMAIN w : w[i] = s[j]
         /\ (\A i, j \in DOMAIN s : s[i].sid = s[j].sid => i = j)
              => \A i, j \in DOMAIN w : w[i].sid = w[j].sid => i = j
<1> DEFINE N == Len(s)
           Step(f, i) == IF i = 0 THEN <<>>
                         ELSE IF Matches(s[i], t) THEN f[i - 1] ELSE Append(f[i - 1], s[i])
           Rec(f, n) == f = [i \in 0 .. n |-> Step(f, i)]
           kept == CHOOSE f : Rec(f, N)
<1>1. N \in Nat /\ DOMAIN s = 1 .. N /\ \A i \in 1 .. N : s[i] \in Entry
  BY ElementOfSeq
<1> HIDE DEF N
<1>2. \E f : Rec(f, N)
  <2> DEFINE Bad == {n \in 0 .. N : ~ \E f : Rec(f, n)}
  <2> HIDE DEF Rec
  <2>0. Bad \in SUBSET Nat /\ (N \notin Bad => \E f : Rec(f, N))
    BY <1>1
  <2>1. SUFFICES ASSUME Bad # {} PROVE FALSE
    BY <2>0
  <2>2. PICK n \in Bad : \A k \in Bad : n <= k
    BY <2>0, <2>1, LeastNat
  <2>3. n \in 0 .. N /\ ~ \E f : Rec(f, n)
    OBVIOUS
  <2> HIDE DEF Bad
  <2>4. CASE n = 0
    <3>1. Rec([i \in 0 .. 0 |-> <<>>], 0)
      BY DEF Rec
    <3> QED BY <2>3, <2>4, <3>1
  <2>5. CASE n # 0
    <3>1. n - 1 \in 0 .. N /\ ~ (n <= n - 1)
      BY <1>1, <2>3, <2>5
    <3>2. PICK f : Rec(f, n - 1)
      BY <2>2, <3>1 DEF Bad
    <3> DEFINE g == [i \in 0 .. n |-> IF i = n THEN Step(f, n) ELSE f[i]]
    <3>3. \A i \in 0 .. n - 1 : f[i] = Step(f, i)
      BY <3>1, <3>2 DEF Rec
    <3>4. \A i \in 0 .. n : g[i] = Step(g, i)
      <4> TAKE i \in 0 .. n
      <4>1. CASE i = n
        BY <1>1, <2>3, <2>5, <4>1
      <4>2. CASE i # n
        <5>1. i \in 0 .. n - 1 /\ (i # 0 => i - 1 \in 0 .. n /\ i - 1 # n)
          BY <1>1, <2>3, <4>2
        <5>2. g[i] = f[i] /\ (i # 0 => g[i - 1] = f[i - 1])
          BY <5>1, <4>2
        <5> QED BY <3>3, <5>1, <5>2
      <4> QED BY <4>1, <4>2
    <3>5. Rec(g, n)
      <4>1. g = [i \in 0 .. n |-> g[i]]  OBVIOUS
      <4> HIDE DEF g
      <4> QED BY <3>4, <4>1 DEF Rec
    <3> QED BY <2>3, <3>5
  <2> QED BY <2>4, <2>5
<1>3. Rec(kept, N)
  BY <1>2
<1>4. Without(s, t) = kept[N]
  BY DEF Without, N
<1> HIDE DEF kept
<1>a. kept = [i \in 0 .. N |-> Step(kept, i)]
  BY <1>3
<1>b. \A i \in 0 .. N : kept[i] = Step(kept, i)
  <2> DEFINE St(i) == Step(kept, i)
  <2>1. kept = [i \in 0 .. N |-> St(i)]  BY <1>a
  <2> HIDE DEF St
  <2>2. \A i \in 0 .. N : kept[i] = St(i)  BY <2>1
  <2> QED BY <2>2 DEF St
<1>5. kept[0] = <<>> /\ \A i \in 1 .. N : kept[i] = Step(kept, i)
  BY <1>1, <1>b
<1> HIDE DEF Rec
<1> DEFINE Sound(n) ==
             /\ kept[n] \in Seq(Entry)
             /\ \A i \in DOMAIN kept[n] : \E j \in 1 .. n : kept[n][i] = s[j]
             /\ \A j \in 1 .. n : ~Matches(s[j], t) => \E i \in DOMAIN kept[n] : kept[n][i] = s[j]
             /\ (\A i, j \in DOMAIN s : s[i].sid = s[j].sid => i = j)
                  => \A i, j \in DOMAIN kept[n] : kept[n][i].sid = kept[n][j].sid => i = j
           Bad == {n \in 0 .. N : ~Sound(n)}
<1> HIDE DEF Sound
<1>d. Bad \in SUBSET Nat /\ (Bad = {} => Sound(N))
  BY <1>1
<1>6. SUFFICES ASSUME Bad # {} PROVE FALSE
  <2>1. Sound(N)  BY <1>d, <1>6
  <2> DEFINE w == Without(s, t)
  <2>2. w = kept[N]  BY <1>4
  <2> HIDE DEF w
  <2>3. /\ w \in Seq(Entry)
        /\ \A i \in DOMAIN w : \E j \in DOMAIN s : w[i] = s[j]
        /\ \A j \in DOMAIN s : ~Matches(s[j], t) => \E i \in DOMAIN w : w[i] = s[j]
    BY <1>1, <2>1, <2>2 DEF Sound
  <2>4. (\A i, j \in DOMAIN s : s[i].sid = s[j].sid => i = j)
              => \A i, j \in DOMAIN w : w[i].sid = w[j].sid => i = j
    BY <2>1, <2>2 DEF Sound
  <2> QED BY <2>3, <2>4 DEF w
<1>7. PICK n \in Bad : \A k \in Bad : n <= k
  BY <1>6, <1>d, LeastNat
<1>8. n \in 0 .. N /\ ~Sound(n)
  OBVIOUS
<1> USE DEF Sound
<1>9. CASE n = 0
  <2>1. Sound(0)
    BY <1>5
  <2> QED BY <1>8, <1>9, <2>1
<1>10. CASE n # 0
  <2>1. n \in 1 .. N /\ n - 1 \in 0 .. N /\ ~ (n <= n - 1)
    BY <1>1, <1>8, <1>10
  <2>2. Sound(n - 1)
    <3> HIDE DEF Sound
    <3> QED BY <1>7, <2>1
  <2>3. kept[n] = Step(kept, n)
    BY <1>5, <2>1
  <2>4. \A j : j \in 1 .. n <=> j \in 1 .. n - 1 \/ j = n
    BY <1>1, <2>1
  <2>5. CASE Matches(s[n], t)
    <3>1. kept[n] = kept[n - 1]
      BY <2>1, <2>3, <2>5
    <3>2. Sound(n)
      BY <2>2, <2>4, <2>5, <3>1
    <3> QED BY <1>8, <3>2
  <2>6. CASE ~Matches(s[n], t)
    <3> DEFINE a == kept[n - 1]  b == kept[n]
    <3>1. b = Append(a, s[n]) /\ a \in Seq(Entry) /\ s[n] \in Entry
      BY <1>1, <2>1, <2>2, <2>3, <2>6
    <3>2. /\ b \in Seq(Entry) /\ Len(b) = Len(a) + 1 /\ b[Len(a) + 1] = s[n]
          /\ \A i \in 1 .. Len(a) : b[i] = a[i]
      BY <3>1, AppendProperties
    <3>3. DOMAIN a = 1 .. Len(a) /\ DOMAIN b = 1 .. Len(b) /\ Len(a) \in Nat
      BY <3>1, <3>2
    <3>4. \A i \in DOMAIN b : (i \in DOMAIN a /\ b[i] = a[i]) \/ (i = Len(a) + 1 /\ b[i] = s[n])
      BY <3>2, <3>3
    <3>5. \A i \in DOMAIN a : i \in DOMAIN b /\ b[i] = a[i]
      BY <3>2, <3>3
    <3>6. Len(a) + 1 \in DOMAIN b /\ b[Len(a) + 1] = s[n]
      BY <3>2, <3>3
    <3>7. \A i \in DOMAIN a : \E j \in 1 .. n - 1 : a[i] = s[j]
      BY <2>2
    <3>8. \A j \in 1 .. n - 1 : ~Matches(s[j], t) => \E i \in DOMAIN a : a[i] = s[j]
      BY <2>2
    <3>9. \A i \in DOMAIN b : \E j \in 1 .. n : b[i] = s[j]
      BY <2>4, <3>4, <3>7
    <3>10. \A j \in 1 .. n : ~Matches(s[j], t) => \E i \in DOMAIN b : b[i] = s[j]
      BY <2>4, <3>5, <3>6, <3>8
    <3>11. ASSUME \A i, j \in DOMAIN s : s[i].sid = s[j].sid => i = j,
                  NEW i \in DOMAIN b, NEW j \in DOMAIN b, b[i].sid = b[j].sid
           PROVE  i = j
      <4>1. \A k, l \in DOMAIN a : a[k].sid = a[l].sid => k = l
        BY <2>2, <3>11
      <4>2. \A k \in DOMAIN a : a[k].sid # s[n].sid
        <5> TAKE k \in DOMAIN a
        <5>1. PICK l \in 1 .. n - 1 : a[k] = s[l]
          BY <3>7
        <5>2. l # n /\ l \in DOMAIN s /\ n \in DOMAIN s
          BY <1>1, <2>1
        <5> QED BY <3>11, <5>1, <5>2
      <4> QED BY <3>4, <3>11, <4>1, <4>2
    <3> HIDE DEF a
    <3>12. Sound(n)
      BY <3>2, <3>9, <3>10, <3>11
    <3> QED BY <1>8, <3>12
  <2> QED BY <2>5, <2>6
<1> QED BY <1>9, <1>10

-----------------------------------------------------------------------------
\* Requests
\* A request and its list section go through their stages together.
LoginStage(p) ==
  /\ pc[p] \in {"idle", "persist"} => lk[p] = "none"
  /\ pc[p] = "list" => lk[p] \in {"want", "read"}
  /\ pc[p] = "done" => lk[p] = "done"
  /\ pc[p] = "failed" => lk[p] = "failed"
  /\ pc[p] = "cut" => lk[p] \in {"none", "failed"}
  /\ pc[p] \in {"idle", "persist", "list", "done", "failed", "cut"}
  /\ arg[p] = NoOp
  /\ pc[p] # "idle" => sid[p] = p

RotationStage(p) ==
  /\ pc[p] \in {"idle", "find", "warm", "store", "persist"} => lk[p] = "none"
  /\ pc[p] = "drop" => lk[p] \in {"want", "read", "done"}
  /\ pc[p] \in {"forget", "done"} => lk[p] = "done"
  /\ pc[p] = "failed" => lk[p] \in {"none", "failed"}
  /\ pc[p] = "cut" => lk[p] \in {"none", "failed", "done"}
  /\ pc[p] \in {"idle", "find", "warm", "store", "persist", "drop", "forget",
                "done", "failed", "cut"}

LogoutStage(p) ==
  /\ pc[p] = "idle" => lk[p] = "none"
  /\ pc[p] # "idle" => lk[p] # "none"
  /\ pc[p] \in {"idle", "drop", "forget", "done", "cut"}

WipeStage(p) ==
  /\ pc[p] = "idle" => lk[p] = "none"
  /\ pc[p] = "list" => lk[p] \in {"want", "read"}
  /\ pc[p] = "wipe" => lk[p] = "done"
  /\ pc[p] \in {"done", "cut"} => lk[p] \in {"done", "failed"}
  /\ pc[p] \in {"idle", "list", "wipe", "done", "cut"}
  /\ arg[p] = NoOp
  /\ pc[p] # "wipe" => doomed[p] = {}

Stages ==
  /\ \A p \in Logins : LoginStage(p)
  /\ \A p \in Rotations : RotationStage(p)
  /\ \A p \in Logouts : LogoutStage(p)
  /\ \A p \in Wipes : WipeStage(p)

\* A request carries a token that was issued, in the session of that token,
\* whose login was issued before.
Carried ==
  /\ \A p \in Rotations \cup Logouts :
       /\ pc[p] = "idle" => arg[p] = NoOp
       /\ pc[p] # "idle" => arg[p] \in issued
  /\ \A p \in Rotations : pc[p] # "idle" => sid[p] = sid[arg[p]] /\ sid[p] \in issued \cap Logins
  /\ \A t \in Tokens : t \in issued <=> pc[t] = "done"
  /\ \A p \in Wipes : before[p] \subseteq issued

\* The list is written under the lock, by the request that has read it; what it
\* has read is the list, unless the read failed or the list was evicted.
Locked == \A p \in Ops :
  /\ lk[p] = "read" <=> holder = p
  /\ lk[p] = "read" => \/ seen[p] = list \/ list = <<>>
                       \/ seen[p] = <<>> /\ (p \in Wipes => p \in lost)

Progress == TypeOK /\ Stages /\ Carried /\ Locked

\* An entry belongs to a token whose section has run, and names its session; a
\* session has one entry.
Orderly(s) ==
  /\ \A i \in DOMAIN s : lk[s[i].tok] = "done" /\ s[i].sid = sid[s[i].tok]
  /\ \A i, j \in DOMAIN s : s[i].sid = s[j].sid => i = j

Lists == Orderly(list) /\ \A p \in Ops : Orderly(seen[p])

\* A wipe deletes what it has read.
Held == \A w \in Wipes : doomed[w] \subseteq TokensOf(seen[w])

StructInv == Progress /\ Lists /\ Held

NoSharer(p) == \A q \in Ops : arg[q] = arg[p] => q = p
Uncarried(t) == \A q \in Ops : arg[q] # t
RetiredInv == \A p \in Rotations \cup Logouts : NoSharer(p) /\ p \notin lost =>
  /\ pc[p] \in {"forget", "done"} => arg[p] \notin cached
  /\ pc[p] = "done" => arg[p] \notin rows

Tip(t) == \A q \in issued : arg[q] # t
OneTip == \A t, u \in issued :
  sid[t] = sid[u] /\ Unshared(sid[t]) /\ Tip(t) /\ Tip(u) => t = u

\* A usable token is in the list, or in the hands of a wipe that still has it in
\* the cache to delete, or a row to delete.
Listable(t) ==
  lk[t] = "done" /\ pc[t] \in {"drop", "forget", "done"} /\ Uncarried(t) /\ Unshared(sid[t])
InHand(t) == \E w \in Wipes : pc[w] = "wipe" /\ t \in TokensOf(seen[w])
ListedInv == \A t \in Tokens \ adrift :
  Listable(t) => t \in TokensOf(list) \/ InHand(t) \/ ~Accepted(t)
HeldInv == \A w \in Wipes : pc[w] = "wipe" =>
  \A t \in TokensOf(seen[w]) \ adrift : Uncarried(t) => t \in doomed[w] \/ t \notin cached

Dooming(t) == \E w \in Wipes : t \in doomed[w]
WipedInv == \A p \in Wipes : lk[p] = "done" /\ p \notin lost =>
  /\ \A t \in before[p] \ adrift :
       Uncarried(t) /\ Unshared(sid[t]) => t \notin cached \/ Dooming(t)
  /\ pc[p] = "done" => before[p] \cap rows = {}

SessionInv == StructInv /\ RetiredInv /\ OneTip /\ ListedInv /\ HeldInv /\ WipedInv

-----------------------------------------------------------------------------
LEMMA Typed ==
  ASSUME Progress
  PROVE  /\ \A p \in Ops : pc[p] \in {"idle", "persist"} => lk[p] = "none"
         /\ \A p \in Ops : pc[p] # "idle" => arg[p] \in Tokens \/ p \in Logins \cup Wipes
         /\ \A p \in Ops : pc[p] \in {"find", "warm", "store"} => p \in Rotations
         /\ \A p \in Ops : pc[p] \in {"drop", "forget"} => p \in Rotations \cup Logouts
         /\ \A p \in Ops : pc[p] = "persist" => p \in Tokens
         /\ \A t \in Tokens : t \in issued => pc[t] = "done" /\ lk[t] = "done"
         /\ \A t \in Tokens : pc[t] # "idle" => sid[t] \in Logins
         /\ \A t \in Tokens : lk[t] # "none" => pc[t] # "idle"
         /\ \A t \in issued : t \in Tokens /\ sid[t] \in issued \cap Logins
<1>0. TypeOK /\ Stages /\ Carried
  BY DEF Progress
<1>1. \A p \in Ops : pc[p] \in {"idle", "persist"} => lk[p] = "none"
  BY <1>0 DEF Stages, LoginStage, RotationStage, LogoutStage, WipeStage, Ops
<1>2. \A p \in Ops : pc[p] # "idle" => arg[p] \in Tokens \/ p \in Logins \cup Wipes
  BY <1>0 DEF Carried, TypeOK, Ops, Tokens
<1>3. \A p \in Ops : pc[p] \in {"find", "warm", "store"} => p \in Rotations
  BY <1>0 DEF Stages, LoginStage, LogoutStage, WipeStage, Ops
<1>4. \A p \in Ops : pc[p] \in {"drop", "forget"} => p \in Rotations \cup Logouts
  BY <1>0 DEF Stages, LoginStage, WipeStage, Ops
<1>5. \A p \in Ops : pc[p] = "persist" => p \in Tokens
  BY <1>0 DEF Stages, LogoutStage, WipeStage, Ops, Tokens
<1>6. \A t \in Tokens : t \in issued => pc[t] = "done" /\ lk[t] = "done"
  BY <1>0 DEF Carried, Stages, LoginStage, RotationStage, Tokens
<1>7. \A t \in Tokens : pc[t] # "idle" => sid[t] \in Logins
  BY <1>0 DEF Carried, Stages, LoginStage, Tokens
<1>8. \A t \in Tokens : lk[t] # "none" => pc[t] # "idle"
  BY <1>0, <1>1 DEF Ops, Tokens
<1>9. \A t \in issued : t \in Tokens /\ sid[t] \in issued \cap Logins
  <2> TAKE t \in issued
  <2>1. t \in Tokens /\ pc[t] = "done"
    BY <1>0 DEF TypeOK, Carried
  <2>2. t \in Logins => sid[t] = t
    BY <1>0, <2>1 DEF Stages, LoginStage
  <2>3. t \in Rotations => sid[t] \in issued \cap Logins
    BY <1>0, <2>1 DEF Carried
  <2> QED BY <2>1, <2>2, <2>3 DEF Tokens
<1> QED BY <1>1, <1>2, <1>3, <1>4, <1>5, <1>6, <1>7, <1>8, <1>9

-----------------------------------------------------------------------------
(* Each action keeps the stages, the lock and the carried tokens *)

LEMMA TokensAre ==
  ASSUME NEW s \in Seq(Entry)
  PROVE  TokensOf(s) \subseteq Tokens
<1>1. \A i \in DOMAIN s : s[i] \in Entry
  BY ElementOfSeq
<1> QED BY <1>1 DEF TokensOf, Entry

LEMMA LoginStep ==
  ASSUME Progress, NEW p \in Ops, Login(p)
  PROVE  Progress'
<1>0. TypeOK /\ Stages /\ Carried /\ Locked
  BY DEF Progress
<1>1. TypeOK'
  BY <1>0, Typed, EmptySeq, SessionAssumption DEF Login, Goto, CacheSet, Fault, TypeOK, Ops, Tokens
<1>2. Stages'
  BY <1>0, SessionAssumption DEF Login, Goto, CacheSet, Fault, TypeOK, Stages, LoginStage,
     RotationStage, LogoutStage, WipeStage, Ops, Tokens
<1>3. Carried'
  BY <1>0, Typed, SessionAssumption DEF Login, Goto, CacheSet, Fault, TypeOK, Carried, Ops, Tokens
<1>4. Locked'
  BY <1>0, Typed, SessionAssumption DEF Login, Goto, CacheSet, Fault, TypeOK, Locked, Ops
<1> QED BY <1>1, <1>2, <1>3, <1>4 DEF Progress

LEMMA FindStep ==
  ASSUME Progress, NEW p \in Ops, Find(p)
  PROVE  Progress'
<1>0. TypeOK /\ Stages /\ Carried /\ Locked
  BY DEF Progress
<1>5. \E l \in {"warm", "failed"} :
        /\ pc[p] = "find" /\ pc' = [pc EXCEPT ![p] = l]
        /\ UNCHANGED <<lk, arg, sid, cached, rows, list, holder, seen, doomed, issued, before, lost, adrift>>
  BY DEF Find, Goto
<1>6. faults' \in 0 .. MaxFaults
  BY <1>0, SessionAssumption DEF Find, Fault, TypeOK
<1>7. list \in Seq(Entry) /\ <<>> \in Seq(Entry) /\ {p} \cap Wipes \subseteq Ops
  BY <1>0, EmptySeq DEF TypeOK
<1>1. TypeOK'
  BY <1>0, <1>5, <1>6, <1>7, Typed, SessionAssumption DEF TypeOK, Ops, Tokens
<1>2. Stages'
  BY <1>0, <1>5, SessionAssumption DEF TypeOK, Stages, LoginStage,
     RotationStage, LogoutStage, WipeStage, Ops, Tokens
<1>3. Carried'
  BY <1>0, <1>5, Typed, SessionAssumption DEF TypeOK, Carried, Ops, Tokens
<1>4. Locked'
  BY <1>0, <1>5, Typed, SessionAssumption DEF TypeOK, Locked, Ops
<1> QED BY <1>1, <1>2, <1>3, <1>4 DEF Progress

LEMMA WarmStep ==
  ASSUME Progress, NEW p \in Ops, Warm(p)
  PROVE  Progress'
<1>0. TypeOK /\ Stages /\ Carried /\ Locked
  BY DEF Progress
<1>1. TypeOK'
  BY <1>0, Typed, EmptySeq, SessionAssumption DEF Warm, Goto, CacheSet, Fault, TypeOK, Ops, Tokens
<1>2. Stages'
  BY <1>0, SessionAssumption DEF Warm, Goto, CacheSet, Fault, TypeOK, Stages, LoginStage,
     RotationStage, LogoutStage, WipeStage, Ops, Tokens
<1>3. Carried'
  BY <1>0, Typed, SessionAssumption DEF Warm, Goto, CacheSet, Fault, TypeOK, Carried, Ops, Tokens
<1>4. Locked'
  BY <1>0, Typed, SessionAssumption DEF Warm, Goto, CacheSet, Fault, TypeOK, Locked, Ops
<1> QED BY <1>1, <1>2, <1>3, <1>4 DEF Progress

LEMMA StoreStep ==
  ASSUME Progress, NEW p \in Ops, Store(p)
  PROVE  Progress'
<1>0. TypeOK /\ Stages /\ Carried /\ Locked
  BY DEF Progress
<1>1. TypeOK'
  BY <1>0, Typed, EmptySeq, SessionAssumption DEF Store, Goto, CacheSet, Fault, TypeOK, Ops, Tokens
<1>2. Stages'
  BY <1>0, SessionAssumption DEF Store, Goto, CacheSet, Fault, TypeOK, Stages, LoginStage,
     RotationStage, LogoutStage, WipeStage, Ops, Tokens
<1>3. Carried'
  BY <1>0, Typed, SessionAssumption DEF Store, Goto, CacheSet, Fault, TypeOK, Carried, Ops, Tokens
<1>4. Locked'
  BY <1>0, Typed, SessionAssumption DEF Store, Goto, CacheSet, Fault, TypeOK, Locked, Ops
<1> QED BY <1>1, <1>2, <1>3, <1>4 DEF Progress

LEMMA PersistStep ==
  ASSUME Progress, NEW p \in Ops, Persist(p)
  PROVE  Progress'
<1>0. TypeOK /\ Stages /\ Carried /\ Locked
  BY DEF Progress
<1>1. TypeOK'
  BY <1>0, Typed, EmptySeq, SessionAssumption DEF Persist, Goto, Listing, RowWritten, RowFault, Fault, TypeOK, Ops, Tokens
<1>2. Stages'
  BY <1>0, SessionAssumption DEF Persist, Goto, Listing, RowWritten, RowFault, Fault, TypeOK, Stages, LoginStage,
     RotationStage, LogoutStage, WipeStage, Ops, Tokens
<1>3. Carried'
  BY <1>0, Typed, SessionAssumption DEF Persist, Goto, Listing, RowWritten, RowFault, Fault, TypeOK, Carried, Ops, Tokens
<1>4. Locked'
  BY <1>0, Typed, SessionAssumption DEF Persist, Goto, Listing, RowWritten, RowFault, Fault, TypeOK, Locked, Ops
<1> QED BY <1>1, <1>2, <1>3, <1>4 DEF Progress

LEMMA DropStep ==
  ASSUME Progress, NEW p \in Ops, Drop(p)
  PROVE  Progress'
<1>0. TypeOK /\ Stages /\ Carried /\ Locked
  BY DEF Progress
<1>1. TypeOK'
  BY <1>0, Typed, EmptySeq, SessionAssumption DEF Drop, Goto, CacheDelete, Fault, TypeOK, Ops, Tokens
<1>2. Stages'
  BY <1>0, SessionAssumption DEF Drop, Goto, CacheDelete, Fault, TypeOK, Stages, LoginStage,
     RotationStage, LogoutStage, WipeStage, Ops, Tokens
<1>3. Carried'
  BY <1>0, Typed, SessionAssumption DEF Drop, Goto, CacheDelete, Fault, TypeOK, Carried, Ops, Tokens
<1>4. Locked'
  BY <1>0, Typed, SessionAssumption DEF Drop, Goto, CacheDelete, Fault, TypeOK, Locked, Ops
<1> QED BY <1>1, <1>2, <1>3, <1>4 DEF Progress

LEMMA ForgetStep ==
  ASSUME Progress, NEW p \in Ops, Forget(p)
  PROVE  Progress'
<1>0. TypeOK /\ Stages /\ Carried /\ Locked
  BY DEF Progress
<1>1. TypeOK'
  BY <1>0, Typed, EmptySeq, SessionAssumption DEF Forget, Goto, RowWritten, RowFault, Fault, TypeOK, Ops, Tokens
<1>2. Stages'
  BY <1>0, SessionAssumption DEF Forget, Goto, RowWritten, RowFault, Fault, TypeOK, Stages, LoginStage,
     RotationStage, LogoutStage, WipeStage, Ops, Tokens
<1>3. Carried'
  BY <1>0, Typed, SessionAssumption DEF Forget, Goto, RowWritten, RowFault, Fault, TypeOK, Carried, Ops, Tokens
<1>4. Locked'
  BY <1>0, Typed, SessionAssumption DEF Forget, Goto, RowWritten, RowFault, Fault, TypeOK, Locked, Ops
<1> QED BY <1>1, <1>2, <1>3, <1>4 DEF Progress

LEMMA EnterStep ==
  ASSUME Progress, NEW p \in Ops, Enter(p)
  PROVE  Progress'
<1>0. TypeOK /\ Stages /\ Carried /\ Locked
  BY DEF Progress
<1>5. \E s \in {list, <<>>} :
        /\ lk[p] = "want" /\ holder = NoOp /\ holder' = p
        /\ seen' = [seen EXCEPT ![p] = s] /\ lk' = [lk EXCEPT ![p] = "read"]
        /\ lost' = lost \/ lost' = lost \cup ({p} \cap Wipes)
        /\ s = list \/ lost' = lost \cup ({p} \cap Wipes)
        /\ UNCHANGED <<pc, arg, sid, cached, rows, list, doomed, issued, before, adrift>>
  BY DEF Enter
<1>6. faults' \in 0 .. MaxFaults
  BY <1>0, SessionAssumption DEF Enter, Fault, TypeOK
<1>7. list \in Seq(Entry) /\ <<>> \in Seq(Entry) /\ {p} \cap Wipes \subseteq Ops
  BY <1>0, EmptySeq DEF TypeOK
<1>1. TypeOK'
  <2>1. \E s \in Seq(Entry) : seen' = [seen EXCEPT ![p] = s]
    BY <1>5, <1>7
  <2>2. seen' \in [Ops -> Seq(Entry)]
    BY <1>0, <2>1 DEF TypeOK
  <2>3. lost' \subseteq Ops
    BY <1>0, <1>5, <1>7 DEF TypeOK
  <2> QED BY <1>0, <1>5, <1>6, <2>2, <2>3 DEF TypeOK
<1>2. Stages'
  BY <1>0, <1>5, SessionAssumption DEF TypeOK, Stages, LoginStage,
     RotationStage, LogoutStage, WipeStage, Ops, Tokens
<1>3. Carried'
  BY <1>0, <1>5, Typed, SessionAssumption DEF TypeOK, Carried, Ops, Tokens
<1>4. Locked'
  BY <1>0, <1>5, Typed, SessionAssumption DEF TypeOK, Locked, Ops
<1> QED BY <1>1, <1>2, <1>3, <1>4 DEF Progress

LEMMA LockTimesOutStep ==
  ASSUME Progress, NEW p \in Ops, LockTimesOut(p)
  PROVE  Progress'
<1>0. TypeOK /\ Stages /\ Carried /\ Locked
  BY DEF Progress
<1>1. TypeOK'
  BY <1>0, Typed, EmptySeq, SessionAssumption DEF LockTimesOut, Fault, TypeOK, Ops, Tokens
<1>2. Stages'
  BY <1>0, SessionAssumption DEF LockTimesOut, Fault, TypeOK, Stages, LoginStage,
     RotationStage, LogoutStage, WipeStage, Ops, Tokens
<1>3. Carried'
  BY <1>0, Typed, SessionAssumption DEF LockTimesOut, Fault, TypeOK, Carried, Ops, Tokens
<1>4. Locked'
  BY <1>0, Typed, SessionAssumption DEF LockTimesOut, Fault, TypeOK, Locked, Ops
<1> QED BY <1>1, <1>2, <1>3, <1>4 DEF Progress

LEMMA WipeStartStep ==
  ASSUME Progress, NEW p \in Ops, WipeStart(p)
  PROVE  Progress'
<1>0. TypeOK /\ Stages /\ Carried /\ Locked
  BY DEF Progress
<1>1. TypeOK'
  BY <1>0, Typed, EmptySeq, SessionAssumption DEF WipeStart, Goto, Listing, TypeOK, Ops, Tokens
<1>2. Stages'
  BY <1>0, SessionAssumption DEF WipeStart, Goto, Listing, TypeOK, Stages, LoginStage,
     RotationStage, LogoutStage, WipeStage, Ops, Tokens
<1>3. Carried'
  BY <1>0, Typed, SessionAssumption DEF WipeStart, Goto, Listing, TypeOK, Carried, Ops, Tokens
<1>4. Locked'
  BY <1>0, Typed, SessionAssumption DEF WipeStart, Goto, Listing, TypeOK, Locked, Ops
<1> QED BY <1>1, <1>2, <1>3, <1>4 DEF Progress

LEMMA WipeRowsStep ==
  ASSUME Progress, NEW p \in Ops, WipeRows(p)
  PROVE  Progress'
<1>0. TypeOK /\ Stages /\ Carried /\ Locked
  BY DEF Progress
<1>5. TokensOf(seen[p]) \subseteq Tokens
  BY <1>0, TokensAre DEF TypeOK
<1>1. TypeOK'
  BY <1>0, <1>5, Typed, EmptySeq, SessionAssumption DEF WipeRows, Goto, RowWritten, RowFault, Fault, TypeOK, Ops, Tokens
<1>2. Stages'
  BY <1>0, SessionAssumption DEF WipeRows, Goto, RowWritten, RowFault, Fault, TypeOK, Stages, LoginStage,
     RotationStage, LogoutStage, WipeStage, Ops, Tokens
<1>3. Carried'
  BY <1>0, Typed, SessionAssumption DEF WipeRows, Goto, RowWritten, RowFault, Fault, TypeOK, Carried, Ops, Tokens
<1>4. Locked'
  BY <1>0, Typed, SessionAssumption DEF WipeRows, Goto, RowWritten, RowFault, Fault, TypeOK, Locked, Ops, Stages, WipeStage
<1> QED BY <1>1, <1>2, <1>3, <1>4 DEF Progress

LEMMA CutOffStep ==
  ASSUME Progress, NEW p \in Ops, CutOff(p)
  PROVE  Progress'
<1>0. TypeOK /\ Stages /\ Carried /\ Locked
  BY DEF Progress
<1>5. TokensOf(seen[p]) \subseteq Tokens
  BY <1>0, TokensAre DEF TypeOK
<1>1. TypeOK'
  BY <1>0, <1>5, Typed, EmptySeq, SessionAssumption DEF CutOff, Finished, Fault, TypeOK, Ops, Tokens
<1>2. Stages'
  BY <1>0, SessionAssumption DEF CutOff, Finished, Fault, TypeOK, Stages, LoginStage,
     RotationStage, LogoutStage, WipeStage, Ops, Tokens
<1>3. Carried'
  BY <1>0, Typed, SessionAssumption DEF CutOff, Finished, Fault, TypeOK, Carried, Ops, Tokens
<1>4. Locked'
  BY <1>0, Typed, SessionAssumption DEF CutOff, Finished, Fault, TypeOK, Locked, Ops
<1> QED BY <1>1, <1>2, <1>3, <1>4 DEF Progress

LEMMA RotateStep ==
  ASSUME Progress, NEW p \in Ops, NEW t \in Tokens, Rotate(p, t)
  PROVE  Progress'
<1>0. TypeOK /\ Stages /\ Carried /\ Locked
  BY DEF Progress
<1>5. \E l \in {"store", "find"} :
        /\ p \in Rotations /\ pc[p] = "idle" /\ t \in issued
        /\ arg' = [arg EXCEPT ![p] = t] /\ sid' = [sid EXCEPT ![p] = sid[t]] /\ pc' = [pc EXCEPT ![p] = l]
        /\ UNCHANGED <<lk, cached, rows, list, holder, seen, doomed, issued, before, lost, adrift>>
  BY DEF Rotate, Goto, MayPresent
<1>6. faults' \in 0 .. MaxFaults
  BY <1>0, SessionAssumption DEF Rotate, Fault, TypeOK
<1>7. list \in Seq(Entry) /\ <<>> \in Seq(Entry) /\ {p} \cap Wipes \subseteq Ops
  BY <1>0, EmptySeq DEF TypeOK
<1>1. TypeOK'
  BY <1>0, <1>5, <1>6, <1>7, Typed, SessionAssumption DEF TypeOK, Ops, Tokens
<1>2. Stages'
  BY <1>0, <1>5, SessionAssumption DEF TypeOK, Stages, LoginStage,
     RotationStage, LogoutStage, WipeStage, Ops, Tokens
<1>3. Carried'
  BY <1>0, <1>5, Typed, SessionAssumption DEF TypeOK, Carried, Ops, Tokens
<1>4. Locked'
  BY <1>0, <1>5, Typed, SessionAssumption DEF TypeOK, Locked, Ops
<1> QED BY <1>1, <1>2, <1>3, <1>4 DEF Progress

LEMMA LogoutStep ==
  ASSUME Progress, NEW p \in Ops, NEW t \in Tokens, Logout(p, t)
  PROVE  Progress'
<1>0. TypeOK /\ Stages /\ Carried /\ Locked
  BY DEF Progress
<1>5. \E l \in {"want", "done"} :
        /\ p \in Logouts /\ pc[p] = "idle" /\ t \in issued
        /\ arg' = [arg EXCEPT ![p] = t] /\ lk' = [lk EXCEPT ![p] = l] /\ pc' = [pc EXCEPT ![p] = "drop"]
        /\ UNCHANGED <<sid, cached, rows, list, holder, seen, doomed, issued, before, lost, adrift>>
  BY DEF Logout, Goto, MayPresent
<1>6. faults' \in 0 .. MaxFaults
  BY <1>0, SessionAssumption DEF Logout, Fault, TypeOK
<1>7. list \in Seq(Entry) /\ <<>> \in Seq(Entry) /\ {p} \cap Wipes \subseteq Ops
  BY <1>0, EmptySeq DEF TypeOK
<1>1. TypeOK'
  BY <1>0, <1>5, <1>6, <1>7, Typed, SessionAssumption DEF TypeOK, Ops, Tokens
<1>2. Stages'
  BY <1>0, <1>5, SessionAssumption DEF TypeOK, Stages, LoginStage,
     RotationStage, LogoutStage, WipeStage, Ops, Tokens
<1>3. Carried'
  BY <1>0, <1>5, Typed, SessionAssumption DEF TypeOK, Carried, Ops, Tokens
<1>4. Locked'
  BY <1>0, <1>5, Typed, SessionAssumption DEF TypeOK, Locked, Ops
<1> QED BY <1>1, <1>2, <1>3, <1>4 DEF Progress

LEMMA WipeEntryStep ==
  ASSUME Progress, NEW p \in Ops, NEW t \in Tokens, WipeEntry(p, t)
  PROVE  Progress'
<1>0. TypeOK /\ Stages /\ Carried /\ Locked
  BY DEF Progress
<1>1. TypeOK'
  BY <1>0, Typed, EmptySeq, SessionAssumption DEF WipeEntry, CacheDelete, Fault, TypeOK, Ops, Tokens
<1>2. Stages'
  BY <1>0, SessionAssumption DEF WipeEntry, CacheDelete, Fault, TypeOK, Stages, LoginStage,
     RotationStage, LogoutStage, WipeStage, Ops, Tokens
<1>3. Carried'
  BY <1>0, Typed, SessionAssumption DEF WipeEntry, CacheDelete, Fault, TypeOK, Carried, Ops, Tokens
<1>4. Locked'
  BY <1>0, Typed, SessionAssumption DEF WipeEntry, CacheDelete, Fault, TypeOK, Locked, Ops
<1> QED BY <1>1, <1>2, <1>3, <1>4 DEF Progress

LEMMA EvictStep ==
  ASSUME Progress, NEW t \in Tokens, Evict(t)
  PROVE  Progress'
<1>0. TypeOK /\ Stages /\ Carried /\ Locked
  BY DEF Progress
<1>1. TypeOK'
  BY <1>0, Typed, EmptySeq, SessionAssumption DEF Evict, Fault, TypeOK, Ops, Tokens
<1>2. Stages'
  BY <1>0, SessionAssumption DEF Evict, Fault, TypeOK, Stages, LoginStage,
     RotationStage, LogoutStage, WipeStage, Ops, Tokens
<1>3. Carried'
  BY <1>0, Typed, SessionAssumption DEF Evict, Fault, TypeOK, Carried, Ops, Tokens
<1>4. Locked'
  BY <1>0, Typed, SessionAssumption DEF Evict, Fault, TypeOK, Locked, Ops
<1> QED BY <1>1, <1>2, <1>3, <1>4 DEF Progress

LEMMA EvictListStep ==
  ASSUME Progress, EvictList
  PROVE  Progress'
<1>0. TypeOK /\ Stages /\ Carried /\ Locked
  BY DEF Progress
<1>5. TokensOf(list) \subseteq Tokens
  BY <1>0, TokensAre DEF TypeOK
<1>1. TypeOK'
  BY <1>0, <1>5, Typed, EmptySeq, SessionAssumption DEF EvictList, Fault, TypeOK, Ops, Tokens
<1>2. Stages'
  BY <1>0, SessionAssumption DEF EvictList, Fault, TypeOK, Stages, LoginStage,
     RotationStage, LogoutStage, WipeStage, Ops, Tokens
<1>3. Carried'
  BY <1>0, Typed, SessionAssumption DEF EvictList, Fault, TypeOK, Carried, Ops, Tokens
<1>4. Locked'
  BY <1>0, Typed, SessionAssumption DEF EvictList, Fault, TypeOK, Locked, Ops
<1> QED BY <1>1, <1>2, <1>3, <1>4 DEF Progress

-----------------------------------------------------------------------------
\* The list

\* An entry names a token that was minted, in a session whose login started.
LEMMA EntryOf ==
  ASSUME Progress, NEW s \in Seq(Entry), Orderly(s), NEW j \in DOMAIN s
  PROVE  /\ s[j] \in Entry /\ s[j].tok \in Tokens
         /\ pc[s[j].tok] # "idle" /\ lk[s[j].tok] = "done"
         /\ s[j].sid = sid[s[j].tok]
         /\ s[j].sid \in Logins /\ pc[s[j].sid] # "idle"
         /\ s[j].sid \in issued \/ s[j].sid = s[j].tok
<1> DEFINE e == s[j]
<1>1. TypeOK /\ Stages /\ Carried  BY DEF Progress
<1>2. e \in Entry  BY ElementOfSeq
<1>3. e.tok \in Tokens /\ e.sid \in Logins  BY <1>2 DEF Entry
<1>4. lk[e.tok] = "done" /\ e.sid = sid[e.tok]  BY DEF Orderly
<1>5. pc[e.tok] # "idle"  BY <1>3, <1>4, Typed
<1>6. e.tok \in Logins => e.sid = e.tok
  BY <1>1, <1>4, <1>5 DEF Stages, LoginStage
<1>7. e.tok \in Rotations => e.sid \in issued
  BY <1>1, <1>4, <1>5 DEF Carried
<1>8. e.sid \in issued => pc[e.sid] # "idle"
  BY <1>1, <1>3 DEF Carried, Tokens
<1> QED BY <1>2, <1>3, <1>4, <1>5, <1>6, <1>7, <1>8 DEF Tokens

\* A login that is about to append has no entry yet, nor has its session.
LEMMA NewSession ==
  ASSUME Progress, NEW s \in Seq(Entry), Orderly(s), NEW p \in Logins, lk[p] = "read"
  PROVE  \A j \in DOMAIN s : s[j].sid # p
<1>1. TypeOK /\ Stages /\ Carried  BY DEF Progress
<1>2. p \in Tokens /\ p \notin issued
  BY <1>1, Typed DEF Tokens
<1> QED BY <1>2, EntryOf

\* An entry matches a token that was issued when it is of its session.
LEMMA MatchSession ==
  ASSUME Progress, NEW s \in Seq(Entry), Orderly(s), NEW t \in issued, NEW j \in DOMAIN s
  PROVE  Matches(s[j], t) <=> s[j].sid = sid[t]
BY EntryOf DEF Matches

NewEntry(p) == [sid |-> sid[p], tok |-> p]

\* What a list section that has read s writes back
WrittenBack(p, s, w) ==
  /\ w \in Seq(Entry)
  /\ \A i \in DOMAIN w : (\E j \in DOMAIN s : w[i] = s[j]) \/ (p \in Tokens /\ w[i] = NewEntry(p))
  /\ p \in Tokens => \E i \in DOMAIN w : w[i] = NewEntry(p)
  /\ \A i, j \in DOMAIN w : w[i].sid = w[j].sid => i = j
  /\ p \in Logouts =>
       \A j \in DOMAIN s : s[j].sid # sid[arg[p]] => \E i \in DOMAIN w : w[i] = s[j]

LEMMA Appended ==
  ASSUME Progress, NEW s \in Seq(Entry), Orderly(s), NEW p \in Tokens, pc[p] # "idle",
         \A j \in DOMAIN s : s[j].sid # sid[p]
  PROVE  WrittenBack(p, s, TrimAndAppend(s, NewEntry(p)))
<1> DEFINE e == NewEntry(p)  w == TrimAndAppend(s, e)
<1>1. \A i, j \in DOMAIN s : s[i].sid = s[j].sid => i = j  BY DEF Orderly
<1>2. sid[p] \in Logins /\ e \in Entry /\ e.sid = sid[p]
  BY Typed DEF NewEntry, Entry
<1>4. Len(s) \in Nat /\ DOMAIN s = 1 .. Len(s)
  OBVIOUS
<1> HIDE DEF e
<1>6. w \in Seq(Entry)
  BY <1>2, <1>4, Trimmed
<1>7. PICK k \in Nat :
        /\ k <= Len(s) /\ (Len(s) < MaxActive => k = 0)
        /\ DOMAIN w = 1 .. Len(s) - k + 1
        /\ w[Len(s) - k + 1] = e
        /\ \A i \in 1 .. Len(s) - k : i + k \in DOMAIN s /\ w[i] = s[i + k]
  BY <1>2, <1>4, Trimmed
<1> HIDE DEF w
<1>8. \A i \in DOMAIN w : (i = Len(s) - k + 1 /\ w[i] = e)
                       \/ (i \in 1 .. Len(s) - k /\ i + k \in DOMAIN s /\ w[i] = s[i + k])
  BY <1>4, <1>7
<1>9. \A i, j \in DOMAIN w : w[i].sid = w[j].sid => i = j
  <2> SUFFICES ASSUME NEW i \in DOMAIN w, NEW j \in DOMAIN w, w[i].sid = w[j].sid
               PROVE  i = j
    OBVIOUS
  <2>1. \A a \in DOMAIN s : s[a].sid # e.sid
    BY <1>2
  <2>2. CASE w[i] = e /\ w[j] = e
    BY <1>8, <2>1, <2>2
  <2>3. CASE w[i] # e \/ w[j] # e
    <3>1. /\ i \in 1 .. Len(s) - k /\ i + k \in DOMAIN s /\ w[i] = s[i + k]
          /\ j \in 1 .. Len(s) - k /\ j + k \in DOMAIN s /\ w[j] = s[j + k]
      BY <1>8, <2>1, <2>3
    <3>2. i + k = j + k
      BY <1>1, <3>1
    <3> QED BY <3>1, <3>2
  <2> QED BY <2>2, <2>3
<1>10. Len(s) - k + 1 \in DOMAIN w
  BY <1>4, <1>7
<1>12. \A i \in DOMAIN w : (\E j \in DOMAIN s : w[i] = s[j]) \/ w[i] = e
  BY <1>8
<1>13. p \notin Logouts
  BY SessionAssumption DEF Tokens
<1> QED BY <1>6, <1>7, <1>9, <1>10, <1>12, <1>13 DEF WrittenBack, e, w

LEMMA Replaced ==
  ASSUME Progress, NEW s \in Seq(Entry), Orderly(s), NEW p \in Rotations, lk[p] = "read"
  PROVE  WrittenBack(p, s, ReplaceOrAppend(s, p))
<1> DEFINE new == NewEntry(p)
           hits == {i \in DOMAIN s : Matches(s[i], arg[p])}
<1>0. \A i, j \in DOMAIN s : s[i].sid = s[j].sid => i = j  BY DEF Orderly
<1>1. TypeOK /\ Carried  BY DEF Progress
<1>2. p \in Tokens /\ p \notin Logouts /\ pc[p] # "idle" /\ arg[p] \in issued /\ sid[p] = sid[arg[p]]
  BY <1>1, Typed, SessionAssumption DEF Carried, Tokens
<1>3. sid[p] \in Logins /\ new \in Entry /\ new.sid = sid[p]
  BY <1>2, Typed DEF NewEntry, Entry
<1>4. Len(s) \in Nat /\ DOMAIN s = 1 .. Len(s)
  OBVIOUS
<1>5. hits = {i \in DOMAIN s : s[i].sid = sid[p]}
  BY <1>2, MatchSession
<1>6. ReplaceOrAppend(s, p) = IF hits = {} THEN TrimAndAppend(s, new)
                              ELSE [s EXCEPT ![Min(hits)] = new]
  BY DEF ReplaceOrAppend, NewEntry
<1> HIDE DEF new, hits
<1>7. CASE hits = {}
  <2>1. \A j \in DOMAIN s : s[j].sid # sid[p]
    BY <1>5, <1>7
  <2> QED BY <1>2, <1>6, <1>7, <2>1, Appended DEF new
<1>8. CASE hits # {}
  <2>1. PICK h \in hits : TRUE
    BY <1>8
  <2>2. h \in DOMAIN s /\ s[h].sid = sid[p] /\ hits = {h} /\ h \in Nat
    BY <1>0, <1>4, <1>5, <2>1
  <2>3. Min(hits) = h
    BY <2>2 DEF Min
  <2> DEFINE w == [s EXCEPT ![h] = new]
  <2>4. ReplaceOrAppend(s, p) = w
    BY <1>6, <1>8, <2>3
  <2>5. w \in Seq(Entry) /\ DOMAIN w = DOMAIN s /\ w[h] = new
        /\ \A i \in DOMAIN s : i # h => w[i] = s[i]
    BY <1>3, <1>4, <2>2, ExceptSeq
  <2> HIDE DEF w
  <2>6. \A i \in DOMAIN w : w[i].sid = s[i].sid
    BY <1>3, <2>2, <2>5
  <2>7. \A i, j \in DOMAIN w : w[i].sid = w[j].sid => i = j
    BY <1>0, <2>5, <2>6
  <2>9. \A i \in DOMAIN w : (\E j \in DOMAIN s : w[i] = s[j]) \/ w[i] = new
    BY <2>5
  <2> QED BY <1>2, <2>2, <2>4, <2>5, <2>7, <2>9 DEF WrittenBack, new
<1> QED BY <1>7, <1>8

\* Every list section writes such a list back; a logout that has read nothing
\* leaves the list.
LEMMA Updates ==
  ASSUME StructInv, NEW p \in Ops, lk[p] = "read"
  PROVE  \/ WrittenBack(p, seen[p], Updated(p))
         \/ p \in Logouts /\ seen[p] = <<>> /\ Updated(p) = list
<1> DEFINE s == seen[p]
<1>1. TypeOK /\ Carried /\ Stages /\ Progress /\ pc[p] # "idle"
  BY Typed DEF StructInv, Progress
<1>2. s \in Seq(Entry) /\ Orderly(s)
  BY <1>1 DEF TypeOK, StructInv, Lists
<1>3. CASE p \in Logins
  <2>1. sid[p] = p /\ p \in Tokens
    BY <1>1, <1>3 DEF Stages, LoginStage, Tokens
  <2>2. Updated(p) = TrimAndAppend(s, NewEntry(p))
    BY <1>3, <2>1, SessionAssumption DEF Updated, NewEntry
  <2> HIDE DEF s
  <2>3. \A j \in DOMAIN s : s[j].sid # sid[p]
    BY <1>1, <1>2, <1>3, <2>1, NewSession
  <2> QED BY <1>1, <1>2, <2>1, <2>2, <2>3, Appended DEF s
<1>4. CASE p \in Rotations
  <2>1. Updated(p) = ReplaceOrAppend(s, p)
    BY <1>4, SessionAssumption DEF Updated
  <2> HIDE DEF s
  <2> QED BY <1>1, <1>2, <1>4, <2>1, Replaced DEF s
<1>5. CASE p \in Logouts
  <2>1. arg[p] \in issued /\ p \notin Tokens /\ p \notin Wipes /\ p \notin Logins
    BY <1>1, <1>5, SessionAssumption DEF Carried, Tokens
  <2>a. CASE s = <<>>
    BY <1>5, <2>1, <2>a, SessionAssumption DEF Updated
  <2>b. CASE s # <<>>
    <3> DEFINE w == Without(s, arg[p])
    <3>2. Updated(p) = w
      BY <1>5, <2>b, SessionAssumption DEF Updated
    <3> HIDE DEF s
    <3>3. \A j \in DOMAIN s : Matches(s[j], arg[p]) <=> s[j].sid = sid[arg[p]]
      BY <1>1, <1>2, <2>1, MatchSession
    <3>4. /\ w \in Seq(Entry)
          /\ \A i \in DOMAIN w : \E j \in DOMAIN s : w[i] = s[j]
          /\ \A j \in DOMAIN s : ~Matches(s[j], arg[p]) => \E i \in DOMAIN w : w[i] = s[j]
          /\ \A i, j \in DOMAIN w : w[i].sid = w[j].sid => i = j
      BY <1>2, Filtered DEF Orderly
    <3> HIDE DEF w
    <3>5. WrittenBack(p, s, Updated(p))
      BY <2>1, <3>2, <3>3, <3>4 DEF WrittenBack
    <3> QED BY <3>5 DEF s
  <2> QED BY <2>a, <2>b
<1>6. CASE p \in Wipes
  <2>1. Updated(p) = <<>> /\ p \notin Tokens /\ p \notin Logouts
    BY <1>6, SessionAssumption DEF Updated, Tokens
  <2>2. <<>> \in Seq(Entry) /\ DOMAIN <<>> = {}
    BY EmptySeq
  <2> QED BY <1>6, <2>1, <2>2 DEF WrittenBack
<1> QED BY <1>3, <1>4, <1>5, <1>6 DEF Ops

\* What a section leaves, its write landed or not
LEMMA ListTyped ==
  ASSUME StructInv, NEW p \in Ops, WriteList(p)
  PROVE  /\ list' \in Seq(Entry) /\ TokensOf(list) \subseteq Tokens
         /\ TokensOf(seen[p]) \subseteq Tokens /\ lk[p] = "read"
         /\ list' = list \/ WrittenBack(p, seen[p], list')
<1>1. TypeOK  BY DEF StructInv, Progress
<1>2. lk[p] = "read" /\ (list' = list \/ list' = Updated(p))
  BY DEF WriteList
<1>3. list' = list \/ WrittenBack(p, seen[p], list')
  BY <1>2, Updates
<1> QED BY <1>1, <1>2, <1>3, TokensAre DEF WrittenBack, TypeOK

LEMMA WriteListStep ==
  ASSUME StructInv, NEW p \in Ops, WriteList(p)
  PROVE  Progress'
<1>0. TypeOK /\ Stages /\ Carried /\ Locked /\ Progress
  BY DEF StructInv, Progress
<1>1. lk[p] = "read" /\ holder = p /\ pc[p] # "idle"
  BY <1>0, Typed DEF WriteList, Locked
<1>2. list' \in Seq(Entry) /\ TokensOf(list) \subseteq Tokens /\ TokensOf(seen[p]) \subseteq Tokens
  BY ListTyped
<1>a. adrift' \subseteq Tokens
  BY <1>0, <1>2 DEF WriteList, Dropped, TypeOK
<1>4. TypeOK'
  BY <1>0, <1>1, <1>2, <1>a, Typed, EmptySeq, SessionAssumption DEF WriteList, Fault, TypeOK, Ops, Tokens
<1>5. Stages'
  BY <1>0, <1>1, SessionAssumption DEF WriteList, TypeOK, Stages, LoginStage,
     RotationStage, LogoutStage, WipeStage, Ops, Tokens
<1>6. Carried'
  BY <1>0, <1>1, Typed, SessionAssumption DEF WriteList, TypeOK, Carried, Stages, RotationStage, LogoutStage, Ops, Tokens
<1>7. Locked'
  BY <1>0, <1>1, Typed, SessionAssumption DEF WriteList, TypeOK, Locked, Ops
<1> QED BY <1>4, <1>5, <1>6, <1>7 DEF Progress

-----------------------------------------------------------------------------
\* What any step does, as far as the properties of tokens can tell

\* What is known of a request that was received, of an issued token and of a
\* section that has run stays so.
Keeping ==
  /\ \A p \in Ops : pc[p] # "idle" => pc'[p] # "idle" /\ arg'[p] = arg[p]
  /\ \A t \in Tokens : pc[t] # "idle" => sid'[t] = sid[t]
  /\ \A p \in Ops : lk[p] = "done" => lk'[p] = "done"
  /\ issued \subseteq issued' /\ lost \subseteq lost' /\ adrift \subseteq adrift'

\* A token gets into the cache or the table by being minted, or warmed by the
\* request that carries it.
Storing ==
  /\ \A t \in cached' : t \in cached \/ pc[t] \in {"idle", "store"}
                          \/ \E q \in Ops : pc[q] = "warm" /\ arg[q] = t
  /\ \A t \in rows' : t \in rows \/ pc[t] = "persist"

\* A request takes the token it carries from the cache, then from the table.
Retiring == \A p \in Rotations \cup Logouts :
  /\ pc'[p] = "forget" => pc[p] = "forget" \/ (pc[p] = "drop" /\ (p \in lost' \/ arg[p] \notin cached'))
  /\ pc'[p] = "done" => pc[p] = "done"
                          \/ (pc[p] = "forget" /\ (p \in lost' \/ arg[p] \notin rows'))

\* One token is issued at a time.
Issuing == issued' = issued \/ \E x \in Tokens :
  issued' = issued \cup {x} /\ x \notin issued /\ pc[x] # "idle"

\* A wipe keeps to what it has read, and empties the table.
Wiping ==
  /\ \A t \in Tokens, w \in Wipes : t \in doomed[w] =>
       t \in doomed'[w] \/ t \in adrift' \/ t \notin cached'
  /\ \A w \in Wipes : pc[w] # "idle" => before'[w] = before[w]
  /\ \A w \in Wipes : pc'[w] = "done" /\ lk'[w] = "done" =>
       pc[w] = "done" \/ w \in lost' \/ rows' = {}
  /\ \A w \in Wipes : pc[w] = "wipe" =>
       \/ pc'[w] = "wipe" /\ seen'[w] = seen[w]
       \/ TokensOf(seen[w]) \subseteq adrift'
       \/ doomed[w] = {} /\ rows' = {} /\ cached' = cached
  /\ \A w \in Wipes : pc'[w] = "wipe" =>
       (pc[w] = "wipe" /\ seen'[w] = seen[w]) \/ doomed'[w] = TokensOf(seen'[w])
  /\ \A w \in Wipes : doomed'[w] \subseteq TokensOf(seen'[w])

\* A rotation reaches the end of its section only in it.
Reaching == \A t \in Tokens :
  lk'[t] = "done" /\ pc'[t] \in {"drop", "forget", "done"} =>
    pc[t] \in {"drop", "forget", "done"} \/ lk[t] = "read"

\* What a section reads is the list, or nothing.
Reading == \A p \in Ops : seen'[p] = seen[p] \/ seen'[p] = list \/ seen'[p] = <<>>

\* A step outside the sections
Quiet ==
  /\ list' = list \/ (list' = <<>> /\ TokensOf(list) \subseteq adrift')
  /\ \A p \in Tokens \cup Wipes : lk'[p] = "done" => lk[p] = "done"


LEMMA KeepingStep ==
  ASSUME StructInv, Next
  PROVE  Keeping
<1>0. TypeOK /\ Stages /\ Carried /\ Held /\ Progress
  BY DEF StructInv, Progress
<1>1. ASSUME NEW p \in Ops, Login(p) PROVE Keeping
  BY <1>0, <1>1, Typed, SessionAssumption DEF Login, Goto, CacheSet, Fault, Keeping, TypeOK, Ops, Tokens
<1>2. ASSUME NEW p \in Ops, WipeStart(p) PROVE Keeping
  BY <1>0, <1>2, Typed, SessionAssumption DEF WipeStart, Goto, Listing, Keeping, TypeOK, Ops, Tokens
<1>3. ASSUME NEW p \in Ops, NEW t \in Tokens, Rotate(p, t) PROVE Keeping
  BY <1>0, <1>3, Typed, SessionAssumption DEF Rotate, Goto, MayPresent, Fault, Keeping, TypeOK, Ops, Tokens
<1>4. ASSUME NEW p \in Ops, NEW t \in Tokens, Logout(p, t) PROVE Keeping
  BY <1>0, <1>4, Typed, SessionAssumption DEF Logout, Goto, MayPresent, Fault, Keeping, TypeOK, Ops, Tokens
<1>5. ASSUME NEW p \in Ops, Find(p) PROVE Keeping
  BY <1>0, <1>5, Typed, SessionAssumption DEF Find, Goto, Fault, Keeping, TypeOK, Ops, Tokens
<1>6. ASSUME NEW p \in Ops, Warm(p) PROVE Keeping
  BY <1>0, <1>6, Typed, SessionAssumption DEF Warm, Goto, CacheSet, Fault, Keeping, TypeOK, Ops, Tokens
<1>7. ASSUME NEW p \in Ops, Store(p) PROVE Keeping
  BY <1>0, <1>7, Typed, SessionAssumption DEF Store, Goto, CacheSet, Fault, Keeping, TypeOK, Ops, Tokens
<1>8. ASSUME NEW p \in Ops, Persist(p) PROVE Keeping
  BY <1>0, <1>8, Typed, SessionAssumption DEF Persist, Goto, Listing, RowWritten, RowFault, Fault, Keeping, TypeOK, Ops, Tokens
<1>9. ASSUME NEW p \in Ops, Drop(p) PROVE Keeping
  BY <1>0, <1>9, Typed, SessionAssumption DEF Drop, Goto, CacheDelete, Fault, Keeping, TypeOK, Ops, Tokens
<1>10. ASSUME NEW p \in Ops, Forget(p) PROVE Keeping
  BY <1>0, <1>10, Typed, SessionAssumption DEF Forget, Goto, RowWritten, RowFault, Fault, Keeping, TypeOK, Ops, Tokens
<1>11. ASSUME NEW p \in Ops, Enter(p) PROVE Keeping
  BY <1>0, <1>11, Typed, SessionAssumption DEF Enter, Fault, Keeping, TypeOK, Ops, Tokens
<1>12. ASSUME NEW p \in Ops, WipeRows(p) PROVE Keeping
  BY <1>0, <1>12, Typed, SessionAssumption DEF WipeRows, Goto, RowWritten, RowFault, Fault, Keeping, TypeOK, Ops, Tokens
<1>13. ASSUME NEW p \in Ops, NEW t \in Tokens, WipeEntry(p, t) PROVE Keeping
  BY <1>0, <1>13, Typed, SessionAssumption DEF WipeEntry, CacheDelete, Fault, Keeping, TypeOK, Ops, Tokens
<1>14. ASSUME NEW p \in Ops, LockTimesOut(p) PROVE Keeping
  BY <1>0, <1>14, Typed, SessionAssumption DEF LockTimesOut, Fault, Keeping, TypeOK, Ops, Tokens
<1>15. ASSUME NEW p \in Ops, CutOff(p) PROVE Keeping
  BY <1>0, <1>15, Typed, SessionAssumption DEF CutOff, Finished, Fault, Keeping, TypeOK, Ops, Tokens
<1>16. ASSUME NEW t \in Tokens, Evict(t) PROVE Keeping
  BY <1>0, <1>16, Typed, SessionAssumption DEF Evict, Fault, Keeping, TypeOK, Ops, Tokens
<1>17. ASSUME EvictList PROVE Keeping
  BY <1>0, <1>17, Typed, SessionAssumption DEF EvictList, Fault, Keeping, TypeOK, Ops, Tokens
<1>18. ASSUME NEW p \in Ops, WriteList(p) PROVE Keeping
  BY <1>0, <1>18, Typed, SessionAssumption DEF WriteList, Fault, Keeping, TypeOK, Ops, Tokens
<1> QED BY <1>1, <1>2, <1>3, <1>4, <1>5, <1>6, <1>7, <1>8, <1>9, <1>10, <1>11, <1>12, <1>13, <1>14, <1>15, <1>16, <1>17, <1>18 DEF Next, Receive, Advance

LEMMA StoringStep ==
  ASSUME StructInv, Next
  PROVE  Storing
<1>0. TypeOK /\ Stages /\ Carried /\ Held /\ Progress
  BY DEF StructInv, Progress
<1>1. ASSUME NEW p \in Ops, Login(p) PROVE Storing
  BY <1>0, <1>1, Typed, SessionAssumption DEF Login, Goto, CacheSet, Fault, Storing, TypeOK, Ops, Tokens
<1>2. ASSUME NEW p \in Ops, WipeStart(p) PROVE Storing
  BY <1>0, <1>2, Typed, SessionAssumption DEF WipeStart, Goto, Listing, Storing, TypeOK, Ops, Tokens
<1>3. ASSUME NEW p \in Ops, NEW t \in Tokens, Rotate(p, t) PROVE Storing
  BY <1>0, <1>3, Typed, SessionAssumption DEF Rotate, Goto, MayPresent, Fault, Storing, TypeOK, Ops, Tokens
<1>4. ASSUME NEW p \in Ops, NEW t \in Tokens, Logout(p, t) PROVE Storing
  BY <1>0, <1>4, Typed, SessionAssumption DEF Logout, Goto, MayPresent, Fault, Storing, TypeOK, Ops, Tokens
<1>5. ASSUME NEW p \in Ops, Find(p) PROVE Storing
  BY <1>0, <1>5, Typed, SessionAssumption DEF Find, Goto, Fault, Storing, TypeOK, Ops, Tokens
<1>6. ASSUME NEW p \in Ops, Warm(p) PROVE Storing
  BY <1>0, <1>6, Typed, SessionAssumption DEF Warm, Goto, CacheSet, Fault, Storing, TypeOK, Ops, Tokens
<1>7. ASSUME NEW p \in Ops, Store(p) PROVE Storing
  BY <1>0, <1>7, Typed, SessionAssumption DEF Store, Goto, CacheSet, Fault, Storing, TypeOK, Ops, Tokens
<1>8. ASSUME NEW p \in Ops, Persist(p) PROVE Storing
  BY <1>0, <1>8, Typed, SessionAssumption DEF Persist, Goto, Listing, RowWritten, RowFault, Fault, Storing, TypeOK, Ops, Tokens
<1>9. ASSUME NEW p \in Ops, Drop(p) PROVE Storing
  BY <1>0, <1>9, Typed, SessionAssumption DEF Drop, Goto, CacheDelete, Fault, Storing, TypeOK, Ops, Tokens
<1>10. ASSUME NEW p \in Ops, Forget(p) PROVE Storing
  BY <1>0, <1>10, Typed, SessionAssumption DEF Forget, Goto, RowWritten, RowFault, Fault, Storing, TypeOK, Ops, Tokens
<1>11. ASSUME NEW p \in Ops, Enter(p) PROVE Storing
  BY <1>0, <1>11, Typed, SessionAssumption DEF Enter, Fault, Storing, TypeOK, Ops, Tokens
<1>12. ASSUME NEW p \in Ops, WipeRows(p) PROVE Storing
  BY <1>0, <1>12, Typed, SessionAssumption DEF WipeRows, Goto, RowWritten, RowFault, Fault, Storing, TypeOK, Ops, Tokens
<1>13. ASSUME NEW p \in Ops, NEW t \in Tokens, WipeEntry(p, t) PROVE Storing
  BY <1>0, <1>13, Typed, SessionAssumption DEF WipeEntry, CacheDelete, Fault, Storing, TypeOK, Ops, Tokens
<1>14. ASSUME NEW p \in Ops, LockTimesOut(p) PROVE Storing
  BY <1>0, <1>14, Typed, SessionAssumption DEF LockTimesOut, Fault, Storing, TypeOK, Ops, Tokens
<1>15. ASSUME NEW p \in Ops, CutOff(p) PROVE Storing
  BY <1>0, <1>15, Typed, SessionAssumption DEF CutOff, Finished, Fault, Storing, TypeOK, Ops, Tokens
<1>16. ASSUME NEW t \in Tokens, Evict(t) PROVE Storing
  BY <1>0, <1>16, Typed, SessionAssumption DEF Evict, Fault, Storing, TypeOK, Ops, Tokens
<1>17. ASSUME EvictList PROVE Storing
  BY <1>0, <1>17, Typed, SessionAssumption DEF EvictList, Fault, Storing, TypeOK, Ops, Tokens
<1>18. ASSUME NEW p \in Ops, WriteList(p) PROVE Storing
  BY <1>0, <1>18, Typed, SessionAssumption DEF WriteList, Fault, Storing, TypeOK, Ops, Tokens
<1> QED BY <1>1, <1>2, <1>3, <1>4, <1>5, <1>6, <1>7, <1>8, <1>9, <1>10, <1>11, <1>12, <1>13, <1>14, <1>15, <1>16, <1>17, <1>18 DEF Next, Receive, Advance

LEMMA RetiringStep ==
  ASSUME StructInv, Next
  PROVE  Retiring
<1>0. TypeOK /\ Stages /\ Carried /\ Held /\ Progress
  BY DEF StructInv, Progress
<1>1. ASSUME NEW p \in Ops, Login(p) PROVE Retiring
  BY <1>0, <1>1, Typed, SessionAssumption DEF Login, Goto, CacheSet, Fault, Retiring, TypeOK, Carried, Stages, RotationStage, LogoutStage, Ops, Tokens
<1>2. ASSUME NEW p \in Ops, WipeStart(p) PROVE Retiring
  BY <1>0, <1>2, Typed, SessionAssumption DEF WipeStart, Goto, Listing, Retiring, TypeOK, Carried, Stages, RotationStage, LogoutStage, Ops, Tokens
<1>3. ASSUME NEW p \in Ops, NEW t \in Tokens, Rotate(p, t) PROVE Retiring
  BY <1>0, <1>3, Typed, SessionAssumption DEF Rotate, Goto, MayPresent, Fault, Retiring, TypeOK, Carried, Stages, RotationStage, LogoutStage, Ops, Tokens
<1>4. ASSUME NEW p \in Ops, NEW t \in Tokens, Logout(p, t) PROVE Retiring
  BY <1>0, <1>4, Typed, SessionAssumption DEF Logout, Goto, MayPresent, Fault, Retiring, TypeOK, Carried, Stages, RotationStage, LogoutStage, Ops, Tokens
<1>5. ASSUME NEW p \in Ops, Find(p) PROVE Retiring
  BY <1>0, <1>5, Typed, SessionAssumption DEF Find, Goto, Fault, Retiring, TypeOK, Carried, Stages, RotationStage, LogoutStage, Ops, Tokens
<1>6. ASSUME NEW p \in Ops, Warm(p) PROVE Retiring
  BY <1>0, <1>6, Typed, SessionAssumption DEF Warm, Goto, CacheSet, Fault, Retiring, TypeOK, Carried, Stages, RotationStage, LogoutStage, Ops, Tokens
<1>7. ASSUME NEW p \in Ops, Store(p) PROVE Retiring
  BY <1>0, <1>7, Typed, SessionAssumption DEF Store, Goto, CacheSet, Fault, Retiring, TypeOK, Carried, Stages, RotationStage, LogoutStage, Ops, Tokens
<1>8. ASSUME NEW p \in Ops, Persist(p) PROVE Retiring
  BY <1>0, <1>8, Typed, SessionAssumption DEF Persist, Goto, Listing, RowWritten, RowFault, Fault, Retiring, TypeOK, Carried, Stages, RotationStage, LogoutStage, Ops, Tokens
<1>9. ASSUME NEW p \in Ops, Drop(p) PROVE Retiring
  BY <1>0, <1>9, Typed, SessionAssumption DEF Drop, Goto, CacheDelete, Fault, Retiring, TypeOK, Carried, Stages, RotationStage, LogoutStage, Ops, Tokens
<1>10. ASSUME NEW p \in Ops, Forget(p) PROVE Retiring
  BY <1>0, <1>10, Typed, SessionAssumption DEF Forget, Goto, RowWritten, RowFault, Fault, Retiring, TypeOK, Carried, Stages, RotationStage, LogoutStage, Ops, Tokens
<1>11. ASSUME NEW p \in Ops, Enter(p) PROVE Retiring
  BY <1>0, <1>11, Typed, SessionAssumption DEF Enter, Fault, Retiring, TypeOK, Carried, Stages, RotationStage, LogoutStage, Ops, Tokens
<1>12. ASSUME NEW p \in Ops, WipeRows(p) PROVE Retiring
  BY <1>0, <1>12, Typed, SessionAssumption DEF WipeRows, Goto, RowWritten, RowFault, Fault, Retiring, TypeOK, Carried, Stages, RotationStage, LogoutStage, Ops, Tokens
<1>13. ASSUME NEW p \in Ops, NEW t \in Tokens, WipeEntry(p, t) PROVE Retiring
  BY <1>0, <1>13, Typed, SessionAssumption DEF WipeEntry, CacheDelete, Fault, Retiring, TypeOK, Carried, Stages, RotationStage, LogoutStage, Ops, Tokens
<1>14. ASSUME NEW p \in Ops, LockTimesOut(p) PROVE Retiring
  BY <1>0, <1>14, Typed, SessionAssumption DEF LockTimesOut, Fault, Retiring, TypeOK, Carried, Stages, RotationStage, LogoutStage, Ops, Tokens
<1>15. ASSUME NEW p \in Ops, CutOff(p) PROVE Retiring
  BY <1>0, <1>15, Typed, SessionAssumption DEF CutOff, Finished, Fault, Retiring, TypeOK, Carried, Stages, RotationStage, LogoutStage, Ops, Tokens
<1>16. ASSUME NEW t \in Tokens, Evict(t) PROVE Retiring
  BY <1>0, <1>16, Typed, SessionAssumption DEF Evict, Fault, Retiring, TypeOK, Carried, Stages, RotationStage, LogoutStage, Ops, Tokens
<1>17. ASSUME EvictList PROVE Retiring
  BY <1>0, <1>17, Typed, SessionAssumption DEF EvictList, Fault, Retiring, TypeOK, Carried, Stages, RotationStage, LogoutStage, Ops, Tokens
<1>18. ASSUME NEW p \in Ops, WriteList(p) PROVE Retiring
  BY <1>0, <1>18, Typed, SessionAssumption DEF WriteList, Fault, Retiring, TypeOK, Carried, Stages, RotationStage, LogoutStage, Ops, Tokens
<1> QED BY <1>1, <1>2, <1>3, <1>4, <1>5, <1>6, <1>7, <1>8, <1>9, <1>10, <1>11, <1>12, <1>13, <1>14, <1>15, <1>16, <1>17, <1>18 DEF Next, Receive, Advance

LEMMA IssuingStep ==
  ASSUME StructInv, Next
  PROVE  Issuing
<1>0. TypeOK /\ Stages /\ Carried /\ Held /\ Progress
  BY DEF StructInv, Progress
<1>1. ASSUME NEW p \in Ops, Login(p) PROVE Issuing
  BY <1>0, <1>1, Typed, SessionAssumption DEF Login, Goto, CacheSet, Fault, Issuing, TypeOK, Carried, Stages, RotationStage, LoginStage, Ops, Tokens
<1>2. ASSUME NEW p \in Ops, WipeStart(p) PROVE Issuing
  BY <1>0, <1>2, Typed, SessionAssumption DEF WipeStart, Goto, Listing, Issuing, TypeOK, Carried, Stages, RotationStage, LoginStage, Ops, Tokens
<1>3. ASSUME NEW p \in Ops, NEW t \in Tokens, Rotate(p, t) PROVE Issuing
  BY <1>0, <1>3, Typed, SessionAssumption DEF Rotate, Goto, MayPresent, Fault, Issuing, TypeOK, Carried, Stages, RotationStage, LoginStage, Ops, Tokens
<1>4. ASSUME NEW p \in Ops, NEW t \in Tokens, Logout(p, t) PROVE Issuing
  BY <1>0, <1>4, Typed, SessionAssumption DEF Logout, Goto, MayPresent, Fault, Issuing, TypeOK, Carried, Stages, RotationStage, LoginStage, Ops, Tokens
<1>5. ASSUME NEW p \in Ops, Find(p) PROVE Issuing
  BY <1>0, <1>5, Typed, SessionAssumption DEF Find, Goto, Fault, Issuing, TypeOK, Carried, Stages, RotationStage, LoginStage, Ops, Tokens
<1>6. ASSUME NEW p \in Ops, Warm(p) PROVE Issuing
  BY <1>0, <1>6, Typed, SessionAssumption DEF Warm, Goto, CacheSet, Fault, Issuing, TypeOK, Carried, Stages, RotationStage, LoginStage, Ops, Tokens
<1>7. ASSUME NEW p \in Ops, Store(p) PROVE Issuing
  BY <1>0, <1>7, Typed, SessionAssumption DEF Store, Goto, CacheSet, Fault, Issuing, TypeOK, Carried, Stages, RotationStage, LoginStage, Ops, Tokens
<1>8. ASSUME NEW p \in Ops, Persist(p) PROVE Issuing
  BY <1>0, <1>8, Typed, SessionAssumption DEF Persist, Goto, Listing, RowWritten, RowFault, Fault, Issuing, TypeOK, Carried, Stages, RotationStage, LoginStage, Ops, Tokens
<1>9. ASSUME NEW p \in Ops, Drop(p) PROVE Issuing
  BY <1>0, <1>9, Typed, SessionAssumption DEF Drop, Goto, CacheDelete, Fault, Issuing, TypeOK, Carried, Stages, RotationStage, LoginStage, Ops, Tokens
<1>10. ASSUME NEW p \in Ops, Forget(p) PROVE Issuing
  BY <1>0, <1>10, Typed, SessionAssumption DEF Forget, Goto, RowWritten, RowFault, Fault, Issuing, TypeOK, Carried, Stages, RotationStage, LoginStage, Ops, Tokens
<1>11. ASSUME NEW p \in Ops, Enter(p) PROVE Issuing
  BY <1>0, <1>11, Typed, SessionAssumption DEF Enter, Fault, Issuing, TypeOK, Carried, Stages, RotationStage, LoginStage, Ops, Tokens
<1>12. ASSUME NEW p \in Ops, WipeRows(p) PROVE Issuing
  BY <1>0, <1>12, Typed, SessionAssumption DEF WipeRows, Goto, RowWritten, RowFault, Fault, Issuing, TypeOK, Carried, Stages, RotationStage, LoginStage, Ops, Tokens
<1>13. ASSUME NEW p \in Ops, NEW t \in Tokens, WipeEntry(p, t) PROVE Issuing
  BY <1>0, <1>13, Typed, SessionAssumption DEF WipeEntry, CacheDelete, Fault, Issuing, TypeOK, Carried, Stages, RotationStage, LoginStage, Ops, Tokens
<1>14. ASSUME NEW p \in Ops, LockTimesOut(p) PROVE Issuing
  BY <1>0, <1>14, Typed, SessionAssumption DEF LockTimesOut, Fault, Issuing, TypeOK, Carried, Stages, RotationStage, LoginStage, Ops, Tokens
<1>15. ASSUME NEW p \in Ops, CutOff(p) PROVE Issuing
  BY <1>0, <1>15, Typed, SessionAssumption DEF CutOff, Finished, Fault, Issuing, TypeOK, Carried, Stages, RotationStage, LoginStage, Ops, Tokens
<1>16. ASSUME NEW t \in Tokens, Evict(t) PROVE Issuing
  BY <1>0, <1>16, Typed, SessionAssumption DEF Evict, Fault, Issuing, TypeOK, Carried, Stages, RotationStage, LoginStage, Ops, Tokens
<1>17. ASSUME EvictList PROVE Issuing
  BY <1>0, <1>17, Typed, SessionAssumption DEF EvictList, Fault, Issuing, TypeOK, Carried, Stages, RotationStage, LoginStage, Ops, Tokens
<1>18. ASSUME NEW p \in Ops, WriteList(p) PROVE Issuing
  BY <1>0, <1>18, Typed, SessionAssumption DEF WriteList, Fault, Issuing, TypeOK, Carried, Stages, RotationStage, LoginStage, Ops, Tokens
<1> QED BY <1>1, <1>2, <1>3, <1>4, <1>5, <1>6, <1>7, <1>8, <1>9, <1>10, <1>11, <1>12, <1>13, <1>14, <1>15, <1>16, <1>17, <1>18 DEF Next, Receive, Advance

LEMMA WipingStep ==
  ASSUME StructInv, Next
  PROVE  Wiping
<1>0. TypeOK /\ Stages /\ Carried /\ Held /\ Progress
  BY DEF StructInv, Progress
<1>1. ASSUME NEW p \in Ops, Login(p) PROVE Wiping
  BY <1>0, <1>1, Typed, SessionAssumption DEF Login, Goto, CacheSet, Fault, Wiping, TypeOK, Stages, WipeStage, Held, Ops, Tokens
<1>2. ASSUME NEW p \in Ops, WipeStart(p) PROVE Wiping
  BY <1>0, <1>2, Typed, SessionAssumption DEF WipeStart, Goto, Listing, Wiping, TypeOK, Stages, WipeStage, Held, Ops, Tokens
<1>3. ASSUME NEW p \in Ops, NEW t \in Tokens, Rotate(p, t) PROVE Wiping
  BY <1>0, <1>3, Typed, SessionAssumption DEF Rotate, Goto, MayPresent, Fault, Wiping, TypeOK, Stages, WipeStage, Held, Ops, Tokens
<1>4. ASSUME NEW p \in Ops, NEW t \in Tokens, Logout(p, t) PROVE Wiping
  BY <1>0, <1>4, Typed, SessionAssumption DEF Logout, Goto, MayPresent, Fault, Wiping, TypeOK, Stages, WipeStage, Held, Ops, Tokens
<1>5. ASSUME NEW p \in Ops, Find(p) PROVE Wiping
  BY <1>0, <1>5, Typed, SessionAssumption DEF Find, Goto, Fault, Wiping, TypeOK, Stages, WipeStage, Held, Ops, Tokens
<1>6. ASSUME NEW p \in Ops, Warm(p) PROVE Wiping
  BY <1>0, <1>6, Typed, SessionAssumption DEF Warm, Goto, CacheSet, Fault, Wiping, TypeOK, Stages, WipeStage, Held, Ops, Tokens
<1>7. ASSUME NEW p \in Ops, Store(p) PROVE Wiping
  BY <1>0, <1>7, Typed, SessionAssumption DEF Store, Goto, CacheSet, Fault, Wiping, TypeOK, Stages, WipeStage, Held, Ops, Tokens
<1>8. ASSUME NEW p \in Ops, Persist(p) PROVE Wiping
  BY <1>0, <1>8, Typed, SessionAssumption DEF Persist, Goto, Listing, RowWritten, RowFault, Fault, Wiping, TypeOK, Stages, WipeStage, Held, Ops, Tokens
<1>9. ASSUME NEW p \in Ops, Drop(p) PROVE Wiping
  BY <1>0, <1>9, Typed, SessionAssumption DEF Drop, Goto, CacheDelete, Fault, Wiping, TypeOK, Stages, WipeStage, Held, Ops, Tokens
<1>10. ASSUME NEW p \in Ops, Forget(p) PROVE Wiping
  BY <1>0, <1>10, Typed, SessionAssumption DEF Forget, Goto, RowWritten, RowFault, Fault, Wiping, TypeOK, Stages, WipeStage, Held, Ops, Tokens
<1>11. ASSUME NEW p \in Ops, Enter(p) PROVE Wiping
  <2>1. PICK s : /\ lk[p] = "want" /\ seen' = [seen EXCEPT ![p] = s]
                 /\ UNCHANGED <<pc, cached, rows, doomed, before, adrift>>
                 /\ \A q \in Ops : lk'[q] = lk[q] \/ q = p
    BY <1>0, <1>11 DEF Enter, TypeOK
  <2>2. p \in Wipes => pc[p] = "list" /\ doomed[p] = {}
    BY <1>0, <2>1 DEF Stages, WipeStage
  <2>3. \A w \in Wipes : w # p => seen'[w] = seen[w]
    BY <1>0, <2>1 DEF TypeOK, Ops
  <2> QED BY <1>0, <2>1, <2>2, <2>3 DEF Wiping, Held
<1>12. ASSUME NEW p \in Ops, WipeRows(p) PROVE Wiping
  BY <1>0, <1>12, Typed, SessionAssumption DEF WipeRows, Goto, RowWritten, RowFault, Fault, Wiping, TypeOK, Stages, WipeStage, Held, Ops, Tokens
<1>13. ASSUME NEW p \in Ops, NEW t \in Tokens, WipeEntry(p, t) PROVE Wiping
  BY <1>0, <1>13, Typed, SessionAssumption DEF WipeEntry, CacheDelete, Fault, Wiping, TypeOK, Stages, WipeStage, Held, Ops, Tokens
<1>14. ASSUME NEW p \in Ops, LockTimesOut(p) PROVE Wiping
  BY <1>0, <1>14, Typed, SessionAssumption DEF LockTimesOut, Fault, Wiping, TypeOK, Stages, WipeStage, Held, Ops, Tokens
<1>15. ASSUME NEW p \in Ops, CutOff(p) PROVE Wiping
  BY <1>0, <1>15, Typed, SessionAssumption DEF CutOff, Finished, Fault, Wiping, TypeOK, Stages, WipeStage, Held, Ops, Tokens
<1>16. ASSUME NEW t \in Tokens, Evict(t) PROVE Wiping
  BY <1>0, <1>16, Typed, SessionAssumption DEF Evict, Fault, Wiping, TypeOK, Stages, WipeStage, Held, Ops, Tokens
<1>17. ASSUME EvictList PROVE Wiping
  BY <1>0, <1>17, Typed, SessionAssumption DEF EvictList, Fault, Wiping, TypeOK, Stages, WipeStage, Held, Ops, Tokens
<1>18. ASSUME NEW p \in Ops, WriteList(p) PROVE Wiping
  BY <1>0, <1>18, Typed, SessionAssumption DEF WriteList, Fault, Wiping, TypeOK, Stages, WipeStage, Held, Ops, Tokens
<1> QED BY <1>1, <1>2, <1>3, <1>4, <1>5, <1>6, <1>7, <1>8, <1>9, <1>10, <1>11, <1>12, <1>13, <1>14, <1>15, <1>16, <1>17, <1>18 DEF Next, Receive, Advance

LEMMA ReachingStep ==
  ASSUME StructInv, Next
  PROVE  Reaching
<1>0. TypeOK /\ Stages /\ Carried /\ Held /\ Progress
  BY DEF StructInv, Progress
<1>1. ASSUME NEW p \in Ops, Login(p) PROVE Reaching
  BY <1>0, <1>1, Typed, SessionAssumption DEF Login, Goto, CacheSet, Fault, Reaching, TypeOK, Stages, RotationStage, LoginStage, Ops, Tokens
<1>2. ASSUME NEW p \in Ops, WipeStart(p) PROVE Reaching
  BY <1>0, <1>2, Typed, SessionAssumption DEF WipeStart, Goto, Listing, Reaching, TypeOK, Stages, RotationStage, LoginStage, Ops, Tokens
<1>3. ASSUME NEW p \in Ops, NEW t \in Tokens, Rotate(p, t) PROVE Reaching
  BY <1>0, <1>3, Typed, SessionAssumption DEF Rotate, Goto, MayPresent, Fault, Reaching, TypeOK, Stages, RotationStage, LoginStage, Ops, Tokens
<1>4. ASSUME NEW p \in Ops, NEW t \in Tokens, Logout(p, t) PROVE Reaching
  BY <1>0, <1>4, Typed, SessionAssumption DEF Logout, Goto, MayPresent, Fault, Reaching, TypeOK, Stages, RotationStage, LoginStage, Ops, Tokens
<1>5. ASSUME NEW p \in Ops, Find(p) PROVE Reaching
  BY <1>0, <1>5, Typed, SessionAssumption DEF Find, Goto, Fault, Reaching, TypeOK, Stages, RotationStage, LoginStage, Ops, Tokens
<1>6. ASSUME NEW p \in Ops, Warm(p) PROVE Reaching
  BY <1>0, <1>6, Typed, SessionAssumption DEF Warm, Goto, CacheSet, Fault, Reaching, TypeOK, Stages, RotationStage, LoginStage, Ops, Tokens
<1>7. ASSUME NEW p \in Ops, Store(p) PROVE Reaching
  BY <1>0, <1>7, Typed, SessionAssumption DEF Store, Goto, CacheSet, Fault, Reaching, TypeOK, Stages, RotationStage, LoginStage, Ops, Tokens
<1>8. ASSUME NEW p \in Ops, Persist(p) PROVE Reaching
  BY <1>0, <1>8, Typed, SessionAssumption DEF Persist, Goto, Listing, RowWritten, RowFault, Fault, Reaching, TypeOK, Stages, RotationStage, LoginStage, Ops, Tokens
<1>9. ASSUME NEW p \in Ops, Drop(p) PROVE Reaching
  BY <1>0, <1>9, Typed, SessionAssumption DEF Drop, Goto, CacheDelete, Fault, Reaching, TypeOK, Stages, RotationStage, LoginStage, Ops, Tokens
<1>10. ASSUME NEW p \in Ops, Forget(p) PROVE Reaching
  BY <1>0, <1>10, Typed, SessionAssumption DEF Forget, Goto, RowWritten, RowFault, Fault, Reaching, TypeOK, Stages, RotationStage, LoginStage, Ops, Tokens
<1>11. ASSUME NEW p \in Ops, Enter(p) PROVE Reaching
  BY <1>0, <1>11, Typed, SessionAssumption DEF Enter, Fault, Reaching, TypeOK, Stages, RotationStage, LoginStage, Ops, Tokens
<1>12. ASSUME NEW p \in Ops, WipeRows(p) PROVE Reaching
  BY <1>0, <1>12, Typed, SessionAssumption DEF WipeRows, Goto, RowWritten, RowFault, Fault, Reaching, TypeOK, Stages, RotationStage, LoginStage, Ops, Tokens
<1>13. ASSUME NEW p \in Ops, NEW t \in Tokens, WipeEntry(p, t) PROVE Reaching
  BY <1>0, <1>13, Typed, SessionAssumption DEF WipeEntry, CacheDelete, Fault, Reaching, TypeOK, Stages, RotationStage, LoginStage, Ops, Tokens
<1>14. ASSUME NEW p \in Ops, LockTimesOut(p) PROVE Reaching
  BY <1>0, <1>14, Typed, SessionAssumption DEF LockTimesOut, Fault, Reaching, TypeOK, Stages, RotationStage, LoginStage, Ops, Tokens
<1>15. ASSUME NEW p \in Ops, CutOff(p) PROVE Reaching
  BY <1>0, <1>15, Typed, SessionAssumption DEF CutOff, Finished, Fault, Reaching, TypeOK, Stages, RotationStage, LoginStage, Ops, Tokens
<1>16. ASSUME NEW t \in Tokens, Evict(t) PROVE Reaching
  BY <1>0, <1>16, Typed, SessionAssumption DEF Evict, Fault, Reaching, TypeOK, Stages, RotationStage, LoginStage, Ops, Tokens
<1>17. ASSUME EvictList PROVE Reaching
  BY <1>0, <1>17, Typed, SessionAssumption DEF EvictList, Fault, Reaching, TypeOK, Stages, RotationStage, LoginStage, Ops, Tokens
<1>18. ASSUME NEW p \in Ops, WriteList(p) PROVE Reaching
  BY <1>0, <1>18, Typed, SessionAssumption DEF WriteList, Fault, Reaching, TypeOK, Stages, RotationStage, LoginStage, Ops, Tokens
<1> QED BY <1>1, <1>2, <1>3, <1>4, <1>5, <1>6, <1>7, <1>8, <1>9, <1>10, <1>11, <1>12, <1>13, <1>14, <1>15, <1>16, <1>17, <1>18 DEF Next, Receive, Advance

LEMMA ReadingStep ==
  ASSUME StructInv, Next
  PROVE  Reading
<1>0. TypeOK /\ Stages /\ Carried /\ Held /\ Progress
  BY DEF StructInv, Progress
<1>1. ASSUME NEW p \in Ops, Login(p) PROVE Reading
  BY <1>0, <1>1, Typed, SessionAssumption DEF Login, Goto, CacheSet, Fault, Reading, TypeOK, Ops
<1>2. ASSUME NEW p \in Ops, WipeStart(p) PROVE Reading
  BY <1>0, <1>2, Typed, SessionAssumption DEF WipeStart, Goto, Listing, Reading, TypeOK, Ops
<1>3. ASSUME NEW p \in Ops, NEW t \in Tokens, Rotate(p, t) PROVE Reading
  BY <1>0, <1>3, Typed, SessionAssumption DEF Rotate, Goto, MayPresent, Fault, Reading, TypeOK, Ops
<1>4. ASSUME NEW p \in Ops, NEW t \in Tokens, Logout(p, t) PROVE Reading
  BY <1>0, <1>4, Typed, SessionAssumption DEF Logout, Goto, MayPresent, Fault, Reading, TypeOK, Ops
<1>5. ASSUME NEW p \in Ops, Find(p) PROVE Reading
  BY <1>0, <1>5, Typed, SessionAssumption DEF Find, Goto, Fault, Reading, TypeOK, Ops
<1>6. ASSUME NEW p \in Ops, Warm(p) PROVE Reading
  BY <1>0, <1>6, Typed, SessionAssumption DEF Warm, Goto, CacheSet, Fault, Reading, TypeOK, Ops
<1>7. ASSUME NEW p \in Ops, Store(p) PROVE Reading
  BY <1>0, <1>7, Typed, SessionAssumption DEF Store, Goto, CacheSet, Fault, Reading, TypeOK, Ops
<1>8. ASSUME NEW p \in Ops, Persist(p) PROVE Reading
  BY <1>0, <1>8, Typed, SessionAssumption DEF Persist, Goto, Listing, RowWritten, RowFault, Fault, Reading, TypeOK, Ops
<1>9. ASSUME NEW p \in Ops, Drop(p) PROVE Reading
  BY <1>0, <1>9, Typed, SessionAssumption DEF Drop, Goto, CacheDelete, Fault, Reading, TypeOK, Ops
<1>10. ASSUME NEW p \in Ops, Forget(p) PROVE Reading
  BY <1>0, <1>10, Typed, SessionAssumption DEF Forget, Goto, RowWritten, RowFault, Fault, Reading, TypeOK, Ops
<1>11. ASSUME NEW p \in Ops, Enter(p) PROVE Reading
  BY <1>0, <1>11, Typed, SessionAssumption DEF Enter, Fault, Reading, TypeOK, Ops
<1>12. ASSUME NEW p \in Ops, WipeRows(p) PROVE Reading
  BY <1>0, <1>12, Typed, SessionAssumption DEF WipeRows, Goto, RowWritten, RowFault, Fault, Reading, TypeOK, Ops
<1>13. ASSUME NEW p \in Ops, NEW t \in Tokens, WipeEntry(p, t) PROVE Reading
  BY <1>0, <1>13, Typed, SessionAssumption DEF WipeEntry, CacheDelete, Fault, Reading, TypeOK, Ops
<1>14. ASSUME NEW p \in Ops, LockTimesOut(p) PROVE Reading
  BY <1>0, <1>14, Typed, SessionAssumption DEF LockTimesOut, Fault, Reading, TypeOK, Ops
<1>15. ASSUME NEW p \in Ops, CutOff(p) PROVE Reading
  BY <1>0, <1>15, Typed, SessionAssumption DEF CutOff, Finished, Fault, Reading, TypeOK, Ops
<1>16. ASSUME NEW t \in Tokens, Evict(t) PROVE Reading
  BY <1>0, <1>16, Typed, SessionAssumption DEF Evict, Fault, Reading, TypeOK, Ops
<1>17. ASSUME EvictList PROVE Reading
  BY <1>0, <1>17, Typed, SessionAssumption DEF EvictList, Fault, Reading, TypeOK, Ops
<1>18. ASSUME NEW p \in Ops, WriteList(p) PROVE Reading
  BY <1>0, <1>18, Typed, SessionAssumption DEF WriteList, Fault, Reading, TypeOK, Ops
<1> QED BY <1>1, <1>2, <1>3, <1>4, <1>5, <1>6, <1>7, <1>8, <1>9, <1>10, <1>11, <1>12, <1>13, <1>14, <1>15, <1>16, <1>17, <1>18 DEF Next, Receive, Advance

LEMMA QuietStep ==
  ASSUME StructInv, Next
  PROVE  Quiet \/ \E p \in Ops : WriteList(p)
<1>0. TypeOK
  BY DEF StructInv, Progress
<1>1. ASSUME NEW p \in Ops, Receive(p) PROVE Quiet
  BY <1>0, <1>1, SessionAssumption DEF Receive, Login, WipeStart, Rotate, Logout, Goto, Listing,
     Quiet, TypeOK, Ops, Tokens
<1>2. ASSUME NEW p \in Ops, Advance(p), ~WriteList(p) PROVE Quiet
  <2>1. CASE Enter(p)
    BY <1>0, <2>1 DEF Enter, Quiet, TypeOK, Ops, Tokens
  <2>2. CASE Persist(p)
    BY <1>0, <2>2 DEF Persist, Goto, Listing, RowWritten, RowFault, Quiet, TypeOK, Ops, Tokens
  <2>3. CASE Find(p) \/ Warm(p) \/ Store(p) \/ Drop(p) \/ Forget(p) \/ WipeRows(p)
             \/ \E t \in Tokens : WipeEntry(p, t)
    BY <2>3 DEF Find, Warm, Store, Drop, Forget, WipeRows, WipeEntry, RowWritten, RowFault, Quiet
  <2> QED BY <1>2, <2>1, <2>2, <2>3 DEF Advance
<1>3. ASSUME NEW p \in Ops, LockTimesOut(p) \/ CutOff(p) PROVE Quiet
  BY <1>0, <1>3 DEF LockTimesOut, CutOff, Quiet, TypeOK, Ops, Tokens
<1>4. ASSUME NEW t \in Tokens, Evict(t) PROVE Quiet
  BY <1>4 DEF Evict, Quiet
<1>5. ASSUME EvictList PROVE Quiet
  BY <1>5 DEF EvictList, Quiet
<1> QED BY <1>1, <1>2, <1>3, <1>4, <1>5 DEF Next

\* An orderly list stays orderly: what it says of its entries lasts.
LEMMA StaysOrderly ==
  ASSUME Progress, Keeping, NEW s \in Seq(Entry), Orderly(s)
  PROVE  Orderly(s)'
<1>1. \A i \in DOMAIN s : s[i].tok \in Tokens /\ pc[s[i].tok] # "idle" /\ lk[s[i].tok] = "done"
  BY EntryOf
<1>2. \A i \in DOMAIN s : sid'[s[i].tok] = sid[s[i].tok] /\ lk'[s[i].tok] = "done"
  BY <1>1 DEF Keeping, Ops, Tokens
<1> QED BY <1>2 DEF Orderly

LEMMA ListsStep ==
  ASSUME StructInv, Next
  PROVE  Lists'
<1>1. Keeping /\ Reading
  BY KeepingStep, ReadingStep
<1>2. TypeOK /\ Progress /\ Orderly(list) /\ \A p \in Ops : Orderly(seen[p])
  BY DEF StructInv, Progress, Lists
<1>3. list \in Seq(Entry) /\ \A p \in Ops : seen[p] \in Seq(Entry)
  BY <1>2 DEF TypeOK
<1>4. Orderly(<<>>)'
  BY EmptySeq DEF Orderly
<1>5. ASSUME NEW s \in Seq(Entry), Orderly(s)
      PROVE  /\ \A i \in DOMAIN s : lk'[s[i].tok] = "done" /\ s[i].sid = sid'[s[i].tok]
             /\ \A i, j \in DOMAIN s : s[i].sid = s[j].sid => i = j
  BY <1>1, <1>2, <1>5, StaysOrderly DEF Orderly
<1>6. ASSUME NEW p \in Ops PROVE Orderly(seen[p])'
  <2>1. CASE seen'[p] = seen[p] \/ seen'[p] = list
    BY <1>2, <1>3, <1>5, <2>1 DEF Orderly
  <2>2. CASE seen'[p] = <<>>
    BY <2>2, EmptySeq DEF Orderly
  <2> QED BY <1>1, <2>1, <2>2 DEF Reading
<1>7. Orderly(list)'
  <2>1. CASE list' = list
    BY <1>2, <1>3, <1>5, <2>1 DEF Orderly
  <2>2. CASE list' = <<>>
    BY <2>2, EmptySeq DEF Orderly
  <2>3. ASSUME NEW p \in Ops, WriteList(p), list' # list PROVE Orderly(list)'
    <3>1. WrittenBack(p, seen[p], list') /\ lk[p] = "read"
      BY <2>3, ListTyped
    <3>2. lk'[p] = "done" /\ sid' = sid
      BY <1>2, <2>3 DEF WriteList, TypeOK
    <3>3. NewEntry(p).sid = sid[p] /\ NewEntry(p).tok = p
      BY DEF NewEntry
    <3> DEFINE s == seen[p]
    <3>4. /\ \A i \in DOMAIN s : lk'[s[i].tok] = "done" /\ s[i].sid = sid'[s[i].tok]
      BY <1>2, <1>3, <1>5
    <3>5. ASSUME NEW i \in DOMAIN list'
          PROVE  lk'[list'[i].tok] = "done" /\ list'[i].sid = sid'[list'[i].tok]
      <4>1. CASE \E j \in DOMAIN s : list'[i] = s[j]
        BY <4>1, <3>4
      <4>2. CASE list'[i] = NewEntry(p)
        BY <4>2, <3>2, <3>3
      <4> QED BY <3>1, <4>1, <4>2 DEF WrittenBack
    <3> QED BY <3>1, <3>5 DEF Orderly, WrittenBack
  <2> QED BY <2>1, <2>2, <2>3, QuietStep DEF Quiet
<1> QED BY <1>6, <1>7 DEF Lists

LEMMA StructNext ==
  ASSUME StructInv, Next
  PROVE  StructInv'
<1>0. Progress
  BY DEF StructInv
<1>1. ASSUME NEW p \in Ops, Receive(p) PROVE Progress'
  BY <1>0, <1>1, LoginStep, WipeStartStep, RotateStep, LogoutStep DEF Receive
<1>2. ASSUME NEW p \in Ops, Advance(p) PROVE Progress'
  BY <1>0, <1>2, FindStep, WarmStep, StoreStep, PersistStep, DropStep, ForgetStep, EnterStep,
     WriteListStep, WipeRowsStep, WipeEntryStep DEF Advance
<1>3. Progress'
  BY <1>0, <1>1, <1>2, LockTimesOutStep, CutOffStep, EvictStep, EvictListStep DEF Next
<1>4. Held'
  BY WipingStep DEF Wiping, Held
<1> QED BY <1>3, <1>4, ListsStep DEF StructInv

LEMMA StructInit ==
  ASSUME Init
  PROVE  StructInv
<1>1. DOMAIN <<>> = {} /\ <<>> \in Seq(Entry)
  BY EmptySeq
<1>2. TypeOK
  BY <1>1, SessionAssumption DEF Init, TypeOK, Tokens, Ops
<1>3. Stages
  BY SessionAssumption DEF Init, Stages, LoginStage, RotationStage, LogoutStage, WipeStage, Tokens, Ops
<1>4. Carried
  BY SessionAssumption DEF Init, Carried, Tokens, Ops
<1>5. Locked
  BY SessionAssumption DEF Init, Locked, Ops
<1>6. Lists
  BY <1>1 DEF Init, Lists, Orderly
<1>7. Held
  BY DEF Init, Held
<1> QED BY <1>2, <1>3, <1>4, <1>5, <1>6, <1>7 DEF StructInv, Progress

\* Sharing a token, and sharing within a session, are for ever.
LEMMA SharedForEver ==
  ASSUME StructInv, Keeping
  PROVE  /\ \A p \in Rotations \cup Logouts : pc[p] # "idle" /\ NoSharer(p)' => NoSharer(p)
         /\ \A t \in Tokens : Uncarried(t)' => Uncarried(t)
         /\ \A s \in Logins : Unshared(s)' => Unshared(s)
<1>1. TypeOK /\ Carried /\ Stages  BY DEF StructInv, Progress
<1>2. \A q \in Ops : arg[q] # NoOp => pc[q] # "idle" /\ arg'[q] = arg[q] /\ arg[q] \in issued
  <2>1. \A q \in Ops : arg[q] # NoOp => q \in Rotations \cup Logouts
    BY <1>1 DEF Stages, LoginStage, WipeStage, Ops
  <2>2. \A q \in Rotations \cup Logouts : arg[q] # NoOp => pc[q] # "idle" /\ arg[q] \in issued
    BY <1>1 DEF Carried
  <2> QED BY <2>1, <2>2 DEF Keeping, Ops
<1>3. \A t \in Tokens : t # NoOp
  BY SessionAssumption DEF Tokens
<1>4. \A t \in issued : t \in Tokens /\ sid'[t] = sid[t]
  BY Typed DEF StructInv, Keeping
<1>5. \A p \in Rotations \cup Logouts : pc[p] # "idle" /\ NoSharer(p)' => NoSharer(p)
  <2>1. \A p \in Rotations \cup Logouts : pc[p] # "idle" => p \in Ops /\ arg[p] \in issued /\ arg[p] # NoOp
    BY <1>1, <1>3, <1>4 DEF Carried, Ops
  <2> QED BY <1>2, <2>1 DEF NoSharer
<1>6. \A t \in Tokens : Uncarried(t)' => Uncarried(t)
  BY <1>2, <1>3 DEF Uncarried
<1>7. \A s \in Logins : Unshared(s)' => Unshared(s)
  BY <1>2, <1>4 DEF Unshared
<1> QED BY <1>5, <1>6, <1>7

\* An issued token stays out of the cache unless a request that carries it is
\* about to warm it.
LEMMA NotStoredAgain ==
  ASSUME StructInv, Storing, NEW t \in issued
  PROVE  /\ t \in cached' => t \in cached \/ \E q \in Ops : pc[q] = "warm" /\ arg[q] = t
         /\ t \in rows' => t \in rows
BY Typed DEF StructInv, Storing

LEMMA RetiredStep ==
  ASSUME StructInv, RetiredInv, Next
  PROVE  RetiredInv'
<1>1. Keeping /\ Storing /\ Retiring
  BY KeepingStep, StoringStep, RetiringStep
<1>2. Carried /\ Stages /\ Carried' /\ Stages'  BY StructNext DEF StructInv, Progress
<1> SUFFICES ASSUME NEW p \in Rotations \cup Logouts, NoSharer(p)', p \notin lost'
             PROVE  /\ pc'[p] \in {"forget", "done"} => arg'[p] \notin cached'
                    /\ pc'[p] = "done" => arg'[p] \notin rows'
  BY DEF RetiredInv
<1>3. ASSUME pc'[p] \in {"forget", "done"}
      PROVE  /\ pc[p] # "idle" /\ arg'[p] = arg[p] /\ arg[p] \in issued /\ NoSharer(p) /\ p \in Ops
             /\ pc[p] \in {"drop", "forget", "done"} /\ p \notin lost
  <2>1. pc[p] \in {"drop", "forget", "done"}
    BY <1>1, <1>3 DEF Retiring
  <2>2. p \in Ops  BY DEF Ops
  <2> QED BY <1>1, <1>2, <2>1, <2>2, SharedForEver DEF Keeping, Carried
<1>4. ASSUME pc'[p] \in {"forget", "done"}
      PROVE  arg'[p] \notin cached'
  <2>1. CASE pc[p] \in {"forget", "done"}
    <3>1. arg[p] \notin cached
      BY <1>3, <1>4, <2>1 DEF RetiredInv
    <3>2. \A q \in Ops : pc[q] = "warm" => arg[q] # arg[p]
      BY <1>3, <1>4, <2>1 DEF NoSharer
    <3> QED BY <1>1, <1>3, <1>4, <3>1, <3>2, NotStoredAgain
  <2>2. CASE pc[p] = "drop"
    BY <1>1, <1>3, <1>4, <2>2 DEF Retiring
  <2> QED BY <1>3, <1>4, <2>1, <2>2
<1>5. ASSUME pc'[p] = "done"
      PROVE  arg'[p] \notin rows'
  <2>1. CASE pc[p] = "done"
    <3>2. arg[p] \notin rows
      BY <1>3, <1>5, <2>1 DEF RetiredInv
    <3> QED BY <1>1, <1>3, <1>5, <3>2, NotStoredAgain
  <2>2. CASE pc[p] # "done"
    BY <1>1, <1>3, <1>5, <2>2 DEF Retiring
  <2> QED BY <2>1, <2>2
<1> QED BY <1>4, <1>5

\* A token whose only carrier has issued nothing has no successor.
\* A token whose only carrier has issued nothing has no successor.
LEMMA CarrierOfTip ==
  ASSUME StructInv, NEW p \in Rotations \cup Logouts, pc[p] # "idle", p \notin issued,
         Unshared(sid[arg[p]])
  PROVE  arg[p] \in issued /\ Tip(arg[p])
<1>1. arg[p] \in issued /\ arg[p] # NoOp
  BY Typed, SessionAssumption DEF StructInv, Progress, Carried, Tokens
<1>2. \A q \in issued : q \in Ops
  BY Typed DEF StructInv, Ops, Tokens
<1>3. \A q \in Ops : arg[q] = arg[p] => q = p
  BY <1>1 DEF Unshared, Ops
<1> QED BY <1>1, <1>2, <1>3 DEF Tip

LEMMA OneTipStep ==
  ASSUME StructInv, OneTip, Next
  PROVE  OneTip'
<1>1. Keeping /\ Issuing
  BY KeepingStep, IssuingStep
<1>2. Carried /\ Stages /\ Carried' /\ Stages'  BY StructNext DEF StructInv, Progress
<1>3. \A t \in issued : t \in Tokens /\ t \in Ops /\ sid'[t] = sid[t] /\ arg'[t] = arg[t] /\ sid[t] \in Logins
  BY <1>1, Typed DEF StructInv, Keeping, Ops, Tokens
<1>4. \A t \in issued : Tip(t)' => Tip(t)
  BY <1>1, <1>3 DEF Tip, Keeping
<1>5. \A s \in Logins : Unshared(s)' => Unshared(s)
  BY <1>1, SharedForEver
<1>6. ASSUME issued' = issued PROVE OneTip'
  BY <1>3, <1>4, <1>5, <1>6 DEF OneTip
<1>7. ASSUME NEW x \in Tokens, issued' = issued \cup {x}, x \notin issued, pc[x] # "idle"
      PROVE  OneTip'
  <2>1. sid'[x] = sid[x] /\ arg'[x] = arg[x] /\ x \in Ops /\ sid[x] \in Logins
    BY <1>1, <1>7, Typed DEF StructInv, Keeping, Ops, Tokens
  <2>2. ASSUME NEW t \in issued, sid[t] = sid[x], Unshared(sid[t])', Tip(t)'
        PROVE  FALSE
    <3>1. CASE x \in Logins
      <4>1. sid[x] = x
        BY <1>2, <1>7, <3>1 DEF Stages, LoginStage
      <4> QED BY <1>7, <2>2, <4>1, Typed DEF StructInv
    <3>2. CASE x \in Rotations
      <4>1. sid[x] = sid[arg[x]]
        BY <1>2, <1>7, <3>2 DEF Carried
      <4>2. Unshared(sid[arg[x]])
        BY <1>3, <1>5, <2>2, <4>1
      <4>3. arg[x] \in issued /\ Tip(arg[x])
        BY <1>7, <3>2, <4>2, CarrierOfTip
      <4>4. t = arg[x]
        BY <1>4, <2>2, <4>1, <4>2, <4>3 DEF OneTip
      <4> QED BY <1>7, <2>1, <2>2, <4>4 DEF Tip
    <3> QED BY <3>1, <3>2 DEF Tokens
  <2>3. ASSUME NEW t \in issued', NEW u \in issued', sid'[t] = sid'[u], Unshared(sid[t])',
               Tip(t)', Tip(u)'
        PROVE  t = u
    <3>1. CASE t = x /\ u \in issued
      BY <1>3, <2>1, <2>2, <2>3, <3>1
    <3>2. CASE u = x /\ t \in issued
      BY <1>3, <2>1, <2>2, <2>3, <3>2
    <3>3. CASE t \in issued /\ u \in issued
      BY <1>3, <1>4, <1>5, <2>3, <3>3 DEF OneTip
    <3> QED BY <1>7, <3>1, <3>2, <3>3
  <2> QED BY <2>3 DEF OneTip
<1> QED BY <1>1, <1>6, <1>7 DEF Issuing

\* A listable token t and a request p that carries a token of its session and
\* has issued nothing are two ends of one chain: there is room for one end.
LEMMA NoOtherEnd ==
  ASSUME StructInv, OneTip, NEW t \in Tokens, Listable(t),
         NEW p \in Rotations \cup Logouts, pc[p] # "idle", p \notin issued, p # t,
         sid[arg[p]] = sid[t]
  PROVE  FALSE
<1>1. TypeOK /\ Carried /\ Stages  BY DEF StructInv, Progress
<1>2. p \in Ops /\ t \in Ops  BY DEF Ops, Tokens
<1>3. arg[p] \in issued /\ Tip(arg[p])
  BY CarrierOfTip DEF Listable
<1>4. arg[p] # t
  BY <1>2 DEF Listable, Uncarried
<1>5. CASE t \in issued
  <2>1. Tip(t)
    BY Typed DEF StructInv, Tip, Listable, Uncarried, Ops, Tokens
  <2> QED BY <1>3, <1>4, <1>5, <2>1 DEF OneTip, Listable
<1>6. CASE t \notin issued
  <2>1. t \in Rotations
    <3>1. t \in Logins => pc[t] = "done"
      BY <1>1 DEF Stages, LoginStage, Listable
    <3> QED BY <1>1, <1>6, <3>1 DEF Carried, Tokens
  <2>2. pc[t] # "idle" /\ sid[t] = sid[arg[t]]
    BY <1>1, <2>1 DEF Listable, Carried
  <2>3. arg[t] \in issued /\ Tip(arg[t])
    BY <1>6, <2>1, <2>2, CarrierOfTip DEF Listable
  <2>4. arg[t] = arg[p]
    BY <1>3, <2>2, <2>3 DEF OneTip, Listable
  <2>5. arg[t] # NoOp
    BY <2>3, Typed, SessionAssumption DEF StructInv, Tokens
  <2> QED BY <1>2, <2>2, <2>4, <2>5 DEF Listable, Unshared
<1> QED BY <1>5, <1>6

\* What became of a token that could be reached, in one step
\* Once its section has run, a token that no request carries is not stored again.
LEMMA StaysOut ==
  ASSUME StructInv, Storing, NEW t \in Tokens, lk[t] = "done", Uncarried(t)
  PROVE  /\ t \notin cached => t \notin cached'
         /\ t \notin rows => t \notin rows'
<1>1. pc[t] \notin {"idle", "store", "persist"}
  BY DEF StructInv, Progress, Stages, LoginStage, RotationStage, Tokens
<1> QED BY <1>1 DEF Storing, Uncarried

\* What a wipe still had to delete it has, or it is gone or adrift.
LEMMA StaysDoomed ==
  ASSUME StructInv, Storing, Wiping, NEW t \in Tokens, lk[t] = "done", Uncarried(t),
         t \notin adrift', t \notin cached \/ Dooming(t)
  PROVE  t \notin cached' \/ Dooming(t)'
<1>1. t \notin cached => t \notin cached'
  BY StaysOut
<1>2. ASSUME NEW w \in Wipes, t \in doomed[w]
      PROVE  t \in doomed'[w] \/ t \notin cached'
  BY <1>2 DEF Wiping
<1> QED BY <1>1, <1>2 DEF Dooming

LEMMA ListableBefore ==
  ASSUME StructInv, Keeping, Reaching, NEW t \in Tokens, Listable(t)'
  PROVE  /\ Uncarried(t) /\ pc[t] # "idle" /\ sid'[t] = sid[t]
         /\ Unshared(sid[t])
         /\ pc[t] \in {"drop", "forget", "done"} \/ lk[t] = "read"
<1>1. pc[t] \in {"drop", "forget", "done"} \/ lk[t] = "read"
  BY DEF Listable, Reaching
<1>2. pc[t] # "idle"
  BY <1>1, Typed DEF StructInv
<1>3. sid'[t] = sid[t] /\ sid[t] \in Logins
  BY <1>2, Typed DEF StructInv, Keeping
<1> QED BY <1>1, <1>2, <1>3, SharedForEver DEF Listable

LEMMA HeldStep ==
  ASSUME StructInv, HeldInv, Next
  PROVE  HeldInv'
<1>1. Keeping /\ Storing /\ Wiping
  BY KeepingStep, StoringStep, WipingStep
<1>2. TypeOK /\ TypeOK'  BY StructNext DEF StructInv, Progress
<1> SUFFICES ASSUME NEW w \in Wipes, pc'[w] = "wipe", NEW t \in TokensOf(seen'[w]),
                    t \notin adrift', Uncarried(t)'
             PROVE  t \in doomed'[w] \/ t \notin cached'
  BY DEF HeldInv
<1>3. CASE doomed'[w] = TokensOf(seen'[w])
  BY <1>3
<1>4. CASE pc[w] = "wipe" /\ seen'[w] = seen[w]
  <2>1. w \in Ops /\ seen[w] \in Seq(Entry) /\ Orderly(seen[w])
    BY <1>2 DEF TypeOK, StructInv, Lists, Ops
  <2>2. PICK j \in DOMAIN seen[w] : seen[w][j].tok = t
    BY <1>4 DEF TokensOf
  <2>3. t \in Tokens /\ lk[t] = "done"
    BY <2>1, <2>2, EntryOf DEF StructInv
  <2>4. Uncarried(t) /\ t \notin adrift
    BY <1>1, <2>3, SharedForEver DEF Keeping
  <2>5. t \in doomed[w] \/ t \notin cached
    BY <1>4, <2>4 DEF HeldInv
  <2>6. t \notin cached => t \notin cached'
    BY <1>1, <2>3, <2>4, StaysOut
  <2>7. t \in doomed[w] => t \in doomed'[w] \/ t \notin cached'
    BY <1>1, <2>3 DEF Wiping
  <2> QED BY <2>5, <2>6, <2>7
<1> QED BY <1>1, <1>3, <1>4 DEF Wiping

\* What a wipe has in hand stays there until the wipe has emptied the table.
LEMMA StaysInHand ==
  ASSUME StructInv, HeldInv, Keeping, Storing, Wiping, NEW t \in Tokens, lk[t] = "done",
         Uncarried(t), t \notin adrift', InHand(t)
  PROVE  InHand(t)' \/ ~Accepted(t)'
<1>1. PICK w \in Wipes : pc[w] = "wipe" /\ t \in TokensOf(seen[w])
  BY DEF InHand
<1>2. CASE pc'[w] = "wipe" /\ seen'[w] = seen[w]
  BY <1>1, <1>2 DEF InHand
<1>3. CASE doomed[w] = {} /\ rows' = {} /\ cached' = cached
  <2>1. t \notin cached
    BY <1>1, <1>3 DEF HeldInv, Keeping
  <2> QED BY <1>3, <2>1 DEF Accepted
<1> QED BY <1>1, <1>2, <1>3 DEF Wiping

LEMMA ListedStep ==
  ASSUME StructInv, OneTip, ListedInv, HeldInv, Next
  PROVE  ListedInv'
<1>1. Keeping /\ Storing /\ Wiping /\ Reaching
  BY KeepingStep, StoringStep, WipingStep, ReachingStep
<1>2. TypeOK /\ Stages /\ Carried /\ Locked /\ Progress /\ Stages' /\ TypeOK'
  BY StructNext DEF StructInv, Progress
<1> SUFFICES ASSUME NEW t \in Tokens, t \notin adrift', Listable(t)'
             PROVE  t \in TokensOf(list') \/ InHand(t)' \/ ~Accepted(t)'
  BY DEF ListedInv
<1>4. /\ Uncarried(t) /\ pc[t] # "idle" /\ sid'[t] = sid[t] /\ Unshared(sid[t]) /\ t \notin adrift
      /\ pc[t] \in {"drop", "forget", "done"} \/ lk[t] = "read"
  BY <1>1, ListableBefore DEF Keeping
<1>5. ASSUME lk[t] = "done"
      PROVE  /\ Listable(t)
             /\ t \in TokensOf(list) \/ InHand(t)' \/ ~Accepted(t)'
  <2>1. Listable(t)
    BY <1>4, <1>5 DEF Listable
  <2>2. InHand(t) => InHand(t)' \/ ~Accepted(t)'
    BY <1>1, <1>4, <1>5, StaysInHand
  <2>3. ~Accepted(t) => ~Accepted(t)'
    BY <1>1, <1>4, <1>5, StaysOut DEF Accepted
  <2> QED BY <1>4, <2>1, <2>2, <2>3 DEF ListedInv
<1>8. CASE Quiet
  <2>1. lk[t] = "done"
    BY <1>8 DEF Quiet, Listable, Tokens
  <2>2. t \in TokensOf(list) => t \in TokensOf(list')
    BY <1>8 DEF Quiet
  <2> QED BY <1>5, <2>1, <2>2
<1>9. ASSUME NEW p \in Ops, WriteList(p)
      PROVE  t \in TokensOf(list') \/ InHand(t)' \/ ~Accepted(t)'
  <2>1. lk[p] = "read" /\ lk'[p] = "done" /\ pc[p] # "idle" /\ p \notin issued
    BY <1>2, <1>9, Typed DEF WriteList, TypeOK
  <2>2. CASE t = p
    <3>1. list' = Updated(p) /\ p \in Tokens /\ p \notin Logouts
      BY <1>9, <2>2, SessionAssumption DEF WriteList, Tokens
    <3>2. PICK i \in DOMAIN list' : list'[i] = NewEntry(p)
      BY <2>1, <3>1, Updates DEF WrittenBack
    <3> QED BY <2>2, <3>2 DEF TokensOf, NewEntry
  <2>3. CASE t # p
    <3>1. lk[t] = "done"
      BY <1>2, <1>9, <2>3 DEF WriteList, Listable, TypeOK, Ops, Tokens
    <3> SUFFICES ASSUME t \in TokensOf(list), t \notin TokensOf(list')
                 PROVE  InHand(t)'
      BY <1>5, <3>1
    <3>2. list' = Updated(p) /\ adrift' = adrift \cup Dropped(p) /\ t \notin Dropped(p)
      BY <1>9 DEF WriteList
    <3>3. list \in Seq(Entry) /\ Orderly(list) /\ list # <<>>
      BY <1>2, EmptySeq DEF TypeOK, StructInv, Lists, TokensOf
    <3>4. PICK j \in DOMAIN list : list[j].tok = t
      BY DEF TokensOf
    <3>5. list[j].sid = sid[t] /\ sid[t] \in Logins /\ (sid[t] \in issued \/ sid[t] = t)
      BY <1>2, <3>3, <3>4, EntryOf
    <3>6. CASE p \in Wipes
      <4>1. t \in TokensOf(seen[p])
        BY <3>2, <3>6 DEF Dropped
      <4>2. pc'[p] = "wipe" /\ seen'[p] = seen[p]
        BY <1>2, <1>9, <3>6, SessionAssumption DEF WriteList, TypeOK, Ops
      <4> QED BY <3>6, <4>1, <4>2 DEF InHand
    <3>7. CASE p \in Tokens
      <4>1. sid[t] = sid[p]
        BY <3>2, <3>7, SessionAssumption DEF Dropped, Tokens
      <4>2. CASE p \in Logins
        BY <1>2, <2>1, <2>3, <3>5, <4>1, <4>2 DEF Stages, LoginStage
      <4>3. CASE p \in Rotations
        <5>1. sid[arg[p]] = sid[t]
          BY <1>2, <2>1, <4>1, <4>3 DEF Carried
        <5> QED BY <1>5, <2>1, <2>3, <3>1, <4>3, <5>1, NoOtherEnd
      <4> QED BY <3>7, <4>2, <4>3 DEF Tokens
    <3>8. CASE p \in Logouts
      <4>1. sid[arg[p]] # sid[t]
        BY <1>5, <2>1, <2>3, <3>1, <3>8, NoOtherEnd
      <4>2. list' # list /\ WrittenBack(p, seen[p], list')
        BY <2>1, <3>2, <3>8, Updates
      <4>3. seen[p] # <<>>
        BY <3>2, <3>8, <4>2, SessionAssumption DEF Updated
      <4>4. seen[p] = list
        BY <1>2, <2>1, <3>3, <4>3 DEF Locked
      <4>5. PICK i \in DOMAIN list' : list'[i] = list[j]
        BY <3>4, <3>5, <3>8, <4>1, <4>2, <4>4 DEF WrittenBack
      <4> QED BY <3>4, <4>5 DEF TokensOf
    <3> QED BY <3>6, <3>7, <3>8 DEF Ops, Tokens
  <2> QED BY <2>2, <2>3
<1> QED BY <1>8, <1>9, QuietStep

LEMMA WipedStep ==
  ASSUME StructInv, ListedInv, HeldInv, WipedInv, Next
  PROVE  WipedInv'
<1>1. Keeping /\ Storing /\ Wiping
  BY KeepingStep, StoringStep, WipingStep
<1>2. TypeOK /\ Stages /\ Carried /\ Locked /\ Progress /\ Stages' /\ Carried'
  BY StructNext DEF StructInv, Progress
<1> SUFFICES ASSUME NEW p \in Wipes, lk'[p] = "done", p \notin lost'
             PROVE  /\ \A t \in before'[p] : t \notin adrift' /\ Uncarried(t)' /\ Unshared(sid[t])'
                                               => t \notin cached' \/ Dooming(t)'
                    /\ pc'[p] = "done" => before'[p] \cap rows' = {}
  BY DEF WipedInv
<1>3. p \in Ops /\ before[p] \subseteq issued /\ (\A t \in issued : t \in Tokens) /\ p \notin lost
  BY <1>1, <1>2, Typed DEF Carried, Ops, Keeping
<1>4. ASSUME NEW t \in before'[p], t \notin adrift', Uncarried(t)', Unshared(sid[t])'
      PROVE  t \notin cached' \/ Dooming(t)'
  <2>1. before'[p] = before[p]
    <3>1. Quiet \/ \E q \in Ops : WriteList(q)
      BY QuietStep
    <3>2. lk[p] # "none"
      BY <1>2, <1>3, <3>1 DEF Quiet, WriteList, TypeOK
    <3> QED BY <1>1, <1>3, <3>2, Typed, <1>2 DEF Wiping, Stages, WipeStage
  <2>2. t \in issued /\ t \in Tokens /\ pc[t] = "done" /\ lk[t] = "done" /\ sid'[t] = sid[t] /\ sid[t] \in Logins
    BY <1>1, <1>2, <1>3, <1>4, <2>1, Typed DEF Keeping
  <2>3. Uncarried(t) /\ Unshared(sid[t]) /\ t \notin adrift
    BY <1>1, <1>4, <2>2, SharedForEver DEF Keeping
  <2>4. t \notin cached \/ Dooming(t) => t \notin cached' \/ Dooming(t)'
    BY <1>1, <1>4, <2>2, <2>3, StaysDoomed
  <2>5. CASE lk[p] = "done"
    BY <1>3, <1>4, <2>1, <2>3, <2>4, <2>5 DEF WipedInv
  <2>6. CASE lk[p] # "done"
    <3>1. PICK q \in Ops : WriteList(q)
      BY <2>6, QuietStep DEF Quiet
    <3>2. q = p /\ lk[p] = "read"
      BY <1>2, <1>3, <2>6, <3>1 DEF WriteList, TypeOK
    <3>3. seen[p] = list \/ list = <<>>
      BY <1>2, <1>3, <3>2 DEF Locked
    <3>4. t \in TokensOf(list) \/ InHand(t) \/ ~Accepted(t)
      BY <2>2, <2>3 DEF ListedInv, Listable
    <3>5. CASE t \in TokensOf(list)
      <4>1. t \in TokensOf(seen[p])
        BY <3>3, <3>5, EmptySeq DEF TokensOf
      <4>2. t \in doomed'[p]
        BY <1>2, <3>1, <3>2, <4>1 DEF WriteList, TypeOK
      <4> QED BY <4>2 DEF Dooming
    <3>6. CASE InHand(t)
      <4>1. PICK w \in Wipes : pc[w] = "wipe" /\ t \in TokensOf(seen[w])
        BY <3>6 DEF InHand
      <4>2. t \in doomed[w] \/ t \notin cached
        BY <2>3, <4>1 DEF HeldInv
      <4> QED BY <2>4, <4>2 DEF Dooming
    <3>7. CASE ~Accepted(t)
      BY <2>4, <3>7 DEF Accepted
    <3> QED BY <3>4, <3>5, <3>6, <3>7
  <2> QED BY <2>5, <2>6
<1>5. ASSUME pc'[p] = "done"
      PROVE  before'[p] \cap rows' = {}
  <2>1. CASE rows' = {}
    BY <2>1
  <2>2. CASE rows' # {}
    <3>1. pc[p] = "done"
      BY <1>1, <1>5, <2>2 DEF Wiping
    <3>2. lk[p] = "done"
      <4>1. Quiet \/ \E q \in Ops : WriteList(q)
        BY QuietStep
      <4>2. lk[p] # "read"
        BY <1>2, <3>1 DEF Stages, WipeStage
      <4> QED BY <1>2, <1>3, <4>1, <4>2 DEF Quiet, WriteList, TypeOK
    <3>3. before'[p] = before[p] /\ before[p] \cap rows = {}
      BY <1>1, <1>3, <3>1, <3>2 DEF Wiping, WipedInv
    <3> QED BY <1>1, <1>3, <3>3, NotStoredAgain
  <2> QED BY <2>1, <2>2
<1> QED BY <1>4, <1>5

-----------------------------------------------------------------------------
LEMMA SessionInit ==
  ASSUME Init
  PROVE  SessionInv
<1>1. StructInv
  BY StructInit
<1>2. RetiredInv /\ WipedInv /\ HeldInv
  BY DEF Init, RetiredInv, WipedInv, HeldInv, Ops
<1>3. OneTip
  BY DEF Init, OneTip
<1>4. ListedInv
  BY DEF Init, ListedInv, Listable, Ops, Tokens
<1> QED BY <1>1, <1>2, <1>3, <1>4 DEF SessionInv

LEMMA SessionNext ==
  ASSUME SessionInv, [Next]_vars
  PROVE  SessionInv'
<1>1. CASE Next
  BY <1>1, StructNext, RetiredStep, OneTipStep, ListedStep, HeldStep, WipedStep DEF SessionInv
<1>2. CASE UNCHANGED vars
  <2>1. StructInv'
    BY <1>2 DEF SessionInv, StructInv, Progress, vars, TypeOK, Stages, LoginStage, RotationStage, LogoutStage,
       WipeStage, Carried, Locked, Lists, Orderly, Held
  <2>2. RetiredInv' /\ OneTip'
    BY <1>2 DEF SessionInv, vars, RetiredInv, NoSharer, OneTip, Tip, Unshared
  <2>3. ListedInv' /\ HeldInv' /\ WipedInv'
    BY <1>2 DEF SessionInv, vars, ListedInv, HeldInv, Listable, InHand, Accepted, Uncarried, Unshared,
       Dooming, WipedInv
  <2> QED BY <2>1, <2>2, <2>3 DEF SessionInv
<1> QED BY <1>1, <1>2

LEMMA SessionInvariant == Spec => []SessionInv
<1>1. SessionInv /\ [Next]_vars => SessionInv'
  BY SessionNext
<1> QED BY <1>1, SessionInit, PTL DEF Spec

\* The variables have their types in every state.
THEOREM Typing == Spec => []TypeOK
<1>1. SessionInv => TypeOK
  BY DEF SessionInv, StructInv, Progress
<1> QED BY <1>1, SessionInvariant, PTL

\* A session has one entry in the list, whatever overlaps, fails and is evicted.
THEOREM OneEntry == Spec => []OneEntryPerSession
<1>1. SessionInv => OneEntryPerSession
  BY DEF SessionInv, StructInv, Lists, Orderly, OneEntryPerSession
<1> QED BY <1>1, SessionInvariant, PTL

\* Two requests that carry the same token of an unshared session are one.
LEMMA UnsharedCarrier ==
  ASSUME StructInv, NEW p \in Rotations \cup Logouts, pc[p] # "idle", Unshared(sid[arg[p]])
  PROVE  NoSharer(p)
<1>1. arg[p] # NoOp
  BY Typed, SessionAssumption DEF StructInv, Progress, Carried, Tokens
<1> QED BY <1>1 DEF NoSharer, Unshared, Ops

LEMMA RetiredNow ==
  ASSUME SessionInv, NEW p \in Rotations \cup Logouts, Succeeded(p), Unshared(sid[arg[p]])
  PROVE  ~Accepted(arg[p])
<1>1. pc[p] = "done" /\ p \notin lost
  BY DEF Succeeded
<1>2. NoSharer(p)
  BY <1>1, UnsharedCarrier DEF SessionInv
<1> QED BY <1>1, <1>2 DEF SessionInv, RetiredInv, Accepted

\* A rotation or a logout whose deletes went through has retired the token it
\* was given, from the cache and from the table that refills the cache, with
\* any number of cache and table failures elsewhere.
THEOREM TokensRetire == Spec => []Retired
<1>1. SessionInv => Retired
  BY RetiredNow DEF Retired
<1> QED BY <1>1, SessionInvariant, PTL

\* After such a logout its client has no token of the session that is accepted:
\* of the chain of rotations every token but the last has a successor, which
\* retired it or failed to delete it, and the last is the one the logout was
\* given.
THEOREM LogoutEnds == Spec => []LogoutEndsSession
<1>1. ASSUME SessionInv, NEW p \in Logouts, Succeeded(p), Unshared(sid[arg[p]]),
             NEW t \in issued, sid[t] = sid[arg[p]], \A q \in Ops : arg[q] = t => q \notin lost
      PROVE  ~Accepted(t)
  <2>1. StructInv /\ Progress /\ OneTip  BY <1>1 DEF SessionInv, StructInv
  <2>2. p \notin issued /\ pc[p] # "idle"
    BY <1>1, <2>1, Typed, SessionAssumption DEF Succeeded, Tokens
  <2>3. arg[p] \in issued /\ Tip(arg[p])
    BY <1>1, <2>1, <2>2, CarrierOfTip
  <2>4. CASE t = arg[p]
    BY <1>1, <2>4, RetiredNow
  <2>5. CASE t # arg[p]
    <3>1. PICK q \in issued : arg[q] = t
      BY <1>1, <2>1, <2>3, <2>5 DEF OneTip, Tip
    <3>2. q \in Tokens /\ q \in Ops /\ pc[q] = "done" /\ lk[q] = "done"
      BY <2>1, <3>1, Typed DEF Ops, Tokens
    <3>3. q \in Rotations
      <4>1. q \in Logins => arg[q] = NoOp
        BY <2>1 DEF Progress, Stages, LoginStage
      <4>2. t # NoOp
        BY <1>1, <2>1, Typed, SessionAssumption DEF Tokens
      <4> QED BY <3>1, <3>2, <4>1, <4>2 DEF Tokens
    <3>4. Succeeded(q)
      BY <1>1, <3>1, <3>2 DEF Succeeded
    <3> QED BY <1>1, <3>1, <3>3, <3>4, RetiredNow
  <2> QED BY <2>4, <2>5
<1>2. SessionInv => LogoutEndsSession
  BY <1>1 DEF LogoutEndsSession
<1> QED BY <1>2, SessionInvariant, PTL

\* Every usable token is in the list that wipes go by, or in the hands of a
\* wipe, unless its entry went adrift.
THEOREM TokensListed == Spec => []UsableTokensListed
<1>1. ASSUME SessionInv, NEW t \in issued, t \notin adrift, Accepted(t),
             Unshared(sid[t]), \A q \in Ops : arg[q] # t
      PROVE  t \in TokensOf(list) \/ InHand(t)
  <2>1. Progress /\ ListedInv  BY <1>1 DEF SessionInv, StructInv
  <2>2. t \in Tokens /\ Listable(t)
    BY <1>1, <2>1, Typed DEF Listable, Uncarried
  <2> QED BY <1>1, <2>1, <2>2 DEF ListedInv
<1>2. SessionInv => UsableTokensListed
  BY <1>1 DEF UsableTokensListed, InHand
<1> QED BY <1>2, SessionInvariant, PTL

\* A wipe whose deletes went through leaves nothing usable of what clients held
\* when it began and is not adrift, whatever overlaps it and fails elsewhere, and
\* although it knows the tokens by the list only.
THEOREM WipeReaches == Spec => []WipeCoversAll
<1>1. ASSUME SessionInv, NEW p \in Wipes, Succeeded(p), NEW t \in before[p], t \notin adrift,
             Unshared(sid[t]), \A q \in Ops : arg[q] # t, \A w \in Wipes : t \notin doomed[w]
      PROVE  ~Accepted(t)
  BY <1>1 DEF SessionInv, WipedInv, Succeeded, Uncarried, Dooming, Accepted
<1>2. SessionInv => WipeCoversAll
  BY <1>1 DEF WipeCoversAll
<1> QED BY <1>2, SessionInvariant, PTL
=============================================================================
