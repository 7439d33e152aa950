------------------------- MODULE RateLimiterProofs -------------------------
(***************************************************************************)
(* The rate RateLimiter keeps, for any number of callers, any interval and *)
(* any bound on how late a goroutine runs.                                 *)
(***************************************************************************)
EXTENDS RateLimiter, SeqFacts, FiniteSetTheorems

USE LimiterAssumption

(* Products with the interval grow with their first factor. *)
LEMMA IntervalGrows ==
  ASSUME NEW m \in Int, NEW n \in Int, m <= n
  PROVE  /\ m * Interval \in Int
         /\ (n + 1) * Interval = n * Interval + Interval
         /\ m * Interval <= n * Interval
<1>1. PICK d \in Nat : n = m + d
  BY n - m \in Nat
<1>2. d * Interval \in Nat
  BY LimiterAssumption
<1>3. (m + d) * Interval = m * Interval + d * Interval
  BY LimiterAssumption
<1> QED
  BY <1>1, <1>2, <1>3

(* A non-empty set of positions has a first and a last element. *)
LEMMA Extremes ==
  \A n \in Nat : \A G \in SUBSET (1..n) :
    G # {} => \E lo \in G : \E hi \in G : G \subseteq lo..hi
<1> SUFFICES ASSUME NEW n \in Nat, NEW G \in SUBSET (1..n), G # {}
             PROVE  \E lo \in G : \E hi \in G : G \subseteq lo..hi
  OBVIOUS
<1>1. PICK lo \in G : \A k \in G : lo <= k
  BY LeastNumber, G \in SUBSET Nat
<1> DEFINE H == {n - k : k \in G}
<1>2. H \in SUBSET Nat /\ H # {}
  OBVIOUS
<1>3. PICK d \in H : \A e \in H : d <= e
  BY LeastNumber, <1>2
<1>4. PICK hi \in G : d = n - hi
  BY <1>3
<1>5. ASSUME NEW k \in G
      PROVE  k <= hi
  <2>1. n - k \in H /\ k \in Nat /\ hi \in Nat
    OBVIOUS
  <2>2. n - hi <= n - k
    BY <1>3, <1>4, <2>1
  <2> QED
    BY <2>1, <2>2
<1> QED
  BY <1>1, <1>5

-----------------------------------------------------------------------------
(* The inductive invariant: types, the distance of the slots and of l.next, *)
(* and the punctuality of the calls that wait or were granted.              *)
LInv == TypeOK /\ NextFollows /\ SlotsSpaced /\ Waiting /\ Punctual

(* The invariant holds of a new limiter. *)
LEMMA LInvInit == Init => LInv
<1> SUFFICES ASSUME Init
             PROVE  LInv
  OBVIOUS
<1>1. /\ slots = <<>> /\ at = <<>> /\ DOMAIN slots = {} /\ DOMAIN at = {}
      /\ Len(slots) = 0 /\ Len(at) = 0
  BY DEF Init
<1>2. ctxDone \in BOOLEAN
  BY DEF Init
<1>3. TypeOK
  BY <1>1, <1>2 DEF Init, TypeOK
<1>4. NextFollows /\ SlotsSpaced /\ Punctual
  BY <1>1 DEF NextFollows, SlotsSpaced, Punctual
<1>5. Waiting
  BY DEF Init, Waiting
<1> QED
  BY <1>3, <1>4, <1>5 DEF LInv

(* Reserving keeps it: the new slot is the furthest, at now or later. *)
LEMMA ReserveKeeps ==
  ASSUME LInv, NEW c \in Callers, Reserve(c)
  PROVE  LInv'
<1> DEFINE s == IF next < now THEN now ELSE next
           L == Len(slots)
<1> USE DEF LInv
<1>1. /\ L \in Nat /\ s \in Nat /\ now <= s /\ next <= s
      /\ s + Interval \in Nat
      /\ DOMAIN slots = 1..L /\ DOMAIN at = 1..L
  BY LenProperties DEF TypeOK
<1>2. /\ slots' = Append(slots, s)
      /\ at' = Append(at, Never)
      /\ mine' = [mine EXCEPT ![c] = L + 1]
      /\ next' = s + Interval
      /\ pc' = [pc EXCEPT ![c] = IF s <= now THEN "pass" ELSE "timer"]
      /\ UNCHANGED <<now, ctxDone>>
  BY DEF Reserve, TakeSlot
<1>3. /\ Len(slots') = L + 1 /\ DOMAIN slots' = 1..(L + 1)
      /\ slots' \in Seq(Nat)
      /\ \A k \in 1..L : slots'[k] = slots[k]
      /\ slots'[L + 1] = s
  BY <1>1, <1>2 DEF TypeOK
<1>4. /\ Len(at') = L + 1 /\ DOMAIN at' = 1..(L + 1)
      /\ at' \in Seq(Nat \cup {Never})
      /\ \A k \in 1..L : at'[k] = at[k]
      /\ at'[L + 1] = Never
  BY <1>1, <1>2 DEF TypeOK
<1>5. TypeOK'
  BY <1>1, <1>2, <1>3, <1>4 DEF TypeOK
<1>6. \A j \in 1..L : slots[j] \in Nat
  BY <1>1, ElementOfSeq DEF TypeOK
<1>7. NextFollows'
  <2>1. SUFFICES ASSUME NEW j \in 1..(L + 1)
                 PROVE  slots'[j] + (L + 2 - j) * Interval <= s + Interval
    <3>1. Len(slots') + 1 = L + 2
      BY <1>1, <1>3
    <3> QED
      BY <1>2, <1>3, <3>1 DEF NextFollows
  <2>2. CASE j = L + 1
    <3>1. (L + 2 - j) * Interval = Interval
      BY <1>1, <2>2
    <3> QED
      BY <1>1, <1>3, <2>2, <3>1
  <2>3. CASE j \in 1..L
    <3>1. slots[j] + (L + 1 - j) * Interval <= next
      BY <1>1, <2>3 DEF NextFollows
    <3>2. (L + 2 - j) * Interval = (L + 1 - j) * Interval + Interval
      <4>1. L + 1 - j \in Int /\ (L + 1 - j) + 1 = L + 2 - j
        BY <1>1
      <4> HIDE <1>1
      <4> QED
        BY <4>1, IntervalGrows
    <3> DEFINE m == (L + 1 - j) * Interval
    <3>3. m \in Int
      BY <1>1
    <3>4. slots[j] + m <= next /\ (L + 2 - j) * Interval = m + Interval
      BY <3>1, <3>2
    <3>5. slots'[j] = slots[j] /\ slots[j] \in Nat /\ next \in Nat
      BY <1>3, <1>6, <2>3 DEF TypeOK
    <3> HIDE DEF m, s
    <3> QED
      BY <1>1, <3>3, <3>4, <3>5
  <2> QED
    BY <1>1, <2>1, <2>2, <2>3
<1>8. SlotsSpaced'
  <2>1. SUFFICES ASSUME NEW j \in 1..(L + 1), NEW k \in 1..(L + 1), j < k
                 PROVE  slots'[j] + (k - j) * Interval <= slots'[k]
    BY <1>3 DEF SlotsSpaced
  <2>2. CASE k = L + 1
    <3>1. slots[j] + (L + 1 - j) * Interval <= next
      BY <1>1, <2>1, <2>2 DEF NextFollows
    <3>2. (L + 1 - j) * Interval \in Int
      BY <1>1
    <3> QED
      BY <1>1, <1>3, <1>6, <2>1, <2>2, <3>1, <3>2 DEF TypeOK
  <2>3. CASE k \in 1..L
    <3>1. j \in 1..L
      BY <1>1, <2>1, <2>3
    <3>2. slots[j] + (k - j) * Interval <= slots[k]
      BY <1>1, <2>1, <2>3, <3>1 DEF SlotsSpaced
    <3> QED
      BY <1>3, <2>3, <3>1, <3>2
  <2> QED
    BY <1>1, <2>2, <2>3
<1>9. Waiting'
  <2>1. SUFFICES ASSUME NEW d \in Callers, pc'[d] # "idle"
                 PROVE  /\ mine'[d] # 0
                        /\ now' <= slots'[mine'[d]] + MaxLate
                        /\ pc'[d] = "pass" => slots'[mine'[d]] <= now'
    BY DEF Waiting
  <2>2. CASE d = c
    BY <1>1, <1>2, <1>3, <2>2 DEF TypeOK
  <2>3. CASE d # c
    <3>1. pc'[d] = pc[d] /\ mine'[d] = mine[d] /\ mine[d] \in 0..L
      BY <1>1, <1>2, <2>3 DEF TypeOK
    <3>2. mine[d] \in 1..L
      BY <1>1, <2>1, <3>1 DEF Waiting
    <3> QED
      BY <1>2, <1>3, <2>1, <3>1, <3>2 DEF Waiting
  <2> QED
    BY <2>2, <2>3
<1>10. Punctual'
  <2>1. SUFFICES ASSUME NEW k \in DOMAIN at', at'[k] # Never
                 PROVE  slots'[k] <= at'[k] /\ at'[k] <= slots'[k] + MaxLate
    BY DEF Punctual
  <2>2. k \in 1..L /\ at'[k] = at[k] /\ slots'[k] = slots[k]
    BY <1>1, <1>3, <1>4, <2>1
  <2> QED
    BY <1>1, <2>1, <2>2 DEF Punctual
<1> QED
  BY <1>5, <1>7, <1>8, <1>9, <1>10

(* A return keeps it: what is granted now is on time. *)
LEMMA ReturnKeeps ==
  ASSUME LInv, NEW c \in Callers, NEW granted \in BOOLEAN,
         pc[c] # "idle", granted => slots[mine[c]] <= now, Return(c, granted)
  PROVE  LInv'
<1> USE DEF LInv
<1>1. /\ mine[c] \in 1..Len(slots) /\ now <= slots[mine[c]] + MaxLate
      /\ DOMAIN slots = 1..Len(slots) /\ DOMAIN at = 1..Len(slots)
  BY LenProperties DEF TypeOK, Waiting
<1>2. /\ at' = IF granted THEN [at EXCEPT ![mine[c]] = now] ELSE at
      /\ pc' = [pc EXCEPT ![c] = "idle"]
      /\ mine' = [mine EXCEPT ![c] = 0]
      /\ UNCHANGED <<now, next, ctxDone, slots>>
  BY DEF Return
<1>3. /\ at' \in Seq(Nat \cup {Never}) /\ Len(at') = Len(at)
      /\ DOMAIN at' = 1..Len(slots)
      /\ \A k \in 1..Len(slots) :
           at'[k] = at[k] \/ (k = mine[c] /\ granted /\ at'[k] = now)
  <2>1. CASE granted
    BY <1>1, <1>2, <2>1, ExceptSeq DEF TypeOK
  <2>2. CASE ~granted
    BY <1>1, <1>2, <2>2 DEF TypeOK
  <2> QED
    BY <2>1, <2>2
<1>4. TypeOK'
  BY <1>1, <1>2, <1>3 DEF TypeOK
<1>5. NextFollows' /\ SlotsSpaced'
  BY <1>2 DEF NextFollows, SlotsSpaced
<1>6. Waiting'
  BY <1>2 DEF Waiting, TypeOK
<1>7. Punctual'
  BY <1>1, <1>2, <1>3 DEF Punctual
<1> QED
  BY <1>4, <1>5, <1>6, <1>7

(* Every step keeps it. *)
LEMMA LInvStep == LInv /\ [Next]_vars => LInv'
<1> SUFFICES ASSUME LInv, [Next]_vars
             PROVE  LInv'
  OBVIOUS
<1>1. ASSUME NEW c \in Callers, Reserve(c)
      PROVE  LInv'
  BY <1>1, ReserveKeeps
<1>2. ASSUME NEW c \in Callers, PassNow(c)
      PROVE  LInv'
  <2>1. slots[mine[c]] <= now /\ (~ctxDone) \in BOOLEAN
    BY <1>2 DEF LInv, Waiting, PassNow
  <2> QED
    BY <1>2, <2>1, ReturnKeeps DEF PassNow
<1>3. ASSUME NEW c \in Callers, TimerFires(c)
      PROVE  LInv'
  BY <1>3, ReturnKeeps DEF TimerFires
<1>4. ASSUME NEW c \in Callers, Cancelled(c)
      PROVE  LInv'
  BY <1>4, ReturnKeeps DEF Cancelled
<1>5. CASE CancelCtx
  BY <1>5 DEF CancelCtx, LInv, TypeOK, NextFollows, SlotsSpaced, Waiting, Punctual
<1>6. CASE Tick
  <2>1. \A c \in Callers : pc[c] # "idle" =>
          now < slots[mine[c]] + MaxLate /\ slots[mine[c]] \in Nat
    BY <1>6, ElementOfSeq DEF Tick, LInv, TypeOK, Waiting
  <2>2. TypeOK' /\ NextFollows' /\ SlotsSpaced' /\ Punctual'
    BY <1>6 DEF Tick, LInv, TypeOK, NextFollows, SlotsSpaced, Punctual
  <2>3. Waiting'
    BY <1>6, <2>1 DEF Tick, LInv, TypeOK, Waiting
  <2> QED
    BY <2>2, <2>3 DEF LInv
<1>7. CASE UNCHANGED vars
  BY <1>7 DEF vars, LInv, TypeOK, NextFollows, SlotsSpaced, Waiting, Punctual
<1> QED
  BY <1>1, <1>2, <1>3, <1>4, <1>5, <1>6, <1>7 DEF Next, WaitStep

(* limiter.go:26-34: concurrent calls of Wait reserve slots that lie at     *)
(* least one interval apart, for ever.                                      *)
THEOREM SlotsStaySpaced == Spec => []SlotsSpaced
<1>1. LInv => SlotsSpaced
  BY DEF LInv
<1> QED
  BY LInvInit, LInvStep, <1>1, PTL DEF Spec

(* Wait's state stays in its domains: a caller that waits has a slot, and   *)
(* the clock and the slots are numbers however late the timers are.         *)
THEOREM TypeCorrect == Spec => []TypeOK
<1>1. LInv => TypeOK
  BY DEF LInv
<1> QED
  BY LInvInit, LInvStep, <1>1, PTL DEF Spec

-----------------------------------------------------------------------------
(* The cap follows from the invariant: the grants of a window have distinct *)
(* slots in a window MaxLate wider, which holds only so many.               *)
LEMMA CapFromInvariant == LInv => RateCapped
<1> SUFFICES ASSUME LInv, NEW t \in 0..now, NEW u \in 0..now, t <= u
             PROVE  (Cardinality(Granted(t, u)) - 1) * Interval <= (u - t) + MaxLate
  BY DEF RateCapped
<1> DEFINE G == Granted(t, u)
           L == Len(slots)
<1>1. /\ L \in Nat /\ now \in Nat /\ t \in Nat /\ u \in Nat
      /\ DOMAIN slots = 1..L /\ DOMAIN at = 1..L
      /\ \A k \in 1..L : slots[k] \in Nat /\ at[k] \in Int
  BY LenProperties, ElementOfSeq DEF LInv, TypeOK, Never
<1>2. /\ G \in SUBSET (1..L)
      /\ \A k \in G : /\ slots[k] <= at[k] /\ at[k] <= slots[k] + MaxLate
                      /\ t <= at[k] /\ at[k] <= u
  BY <1>1 DEF Granted, LInv, Punctual, Never
<1>3. CASE G = {}
  <2>1. Cardinality(G) - 1 = -1
    BY <1>3, FS_EmptySet
  <2>2. (-1) * Interval <= 0
    OBVIOUS
  <2>3. (u - t) + MaxLate \in Nat
    BY <1>1
  <2> QED
    BY <2>1, <2>2, <2>3
<1>4. CASE G # {}
  <2>1. PICK lo \in G, hi \in G : G \subseteq lo..hi
    <3>1. PICK n \in Nat : n = L
      BY <1>1
    <3>2. PICK g \in SUBSET (1..n) : g = G /\ g # {}
      BY <1>2, <1>4, <3>1
    <3>3. \A H \in SUBSET (1..n) :
            H # {} => \E lo \in H : \E hi \in H : H \subseteq lo..hi
      BY Extremes
    <3>4. g # {} => \E lo \in g : \E hi \in g : g \subseteq lo..hi
      BY <3>3
    <3> QED
      BY <3>2, <3>4
  <2>2. lo \in 1..L /\ hi \in 1..L /\ lo <= hi
    BY <1>1, <1>2, <2>1
  <2>3. Cardinality(G) \in Nat /\ Cardinality(G) - 1 <= hi - lo
    <3>1. IsFiniteSet(lo..hi) /\ Cardinality(lo..hi) = hi - lo + 1
      BY <2>2, FS_Interval
    <3>2. Cardinality(G) <= Cardinality(lo..hi) /\ IsFiniteSet(G)
      BY <2>1, <3>1, FS_Subset
    <3>3. Cardinality(G) \in Nat
      BY <3>2, FS_CardinalityType
    <3> QED
      BY <2>2, <3>1, <3>2, <3>3
  <2>4. (Cardinality(G) - 1) * Interval <= (hi - lo) * Interval
    <3>1. Cardinality(G) - 1 \in Int /\ hi - lo \in Int
      BY <2>2, <2>3
    <3> QED
      BY <2>3, <3>1, IntervalGrows
  <2>5. slots[lo] + (hi - lo) * Interval <= slots[hi]
    <3>1. CASE lo = hi
      BY <1>1, <2>2, <3>1
    <3>2. CASE lo < hi
      BY <1>1, <2>2, <3>2 DEF LInv, SlotsSpaced
    <3> QED
      BY <2>2, <3>1, <3>2
  <2>6. slots[hi] <= u /\ t <= slots[lo] + MaxLate
    BY <1>1, <1>2, <2>1, <2>2
  <2>7. (hi - lo) * Interval \in Int /\ (Cardinality(G) - 1) * Interval \in Int
    BY <2>2, <2>3
  <2> QED
    BY <1>1, <2>2, <2>4, <2>5, <2>6, <2>7
<1> QED
  BY <1>3, <1>4

(* limiter.go:3-4, "caps aggregate request rate across any number of        *)
(* concurrent callers": in a window of any length d, at most                *)
(* (d + MaxLate) / Interval + 1 calls are let through.                      *)
THEOREM AggregateRateCapped == Spec => []RateCapped
BY LInvInit, LInvStep, CapFromInvariant, PTL DEF Spec
=============================================================================
