---------------------------- MODULE RateLimiter ----------------------------
(***************************************************************************)
(* The interval limiter all workers share: Limiter.Wait of                 *)
(* src/sekolah-crawler/internal/ratelimit/limiter.go.  A call reserves the *)
(* next time slot under the mutex and then waits for that time, or for the *)
(* context, without the mutex.                                             *)
(*                                                                         *)
(* Time is discrete.  A goroutine runs at most MaxLate after the time it   *)
(* waits for: timers and the scheduler may be late, never early.           *)
(***************************************************************************)
EXTENDS Integers, Sequences, FiniteSets

CONSTANTS
  Callers,    \* goroutines that call Wait
  Interval,   \* time between two slots
  MaxLate,    \* how late a waiting goroutine may run
  MaxCalls,   \* bound: calls in a behaviour
  MaxTime     \* bound: the time up to which the clock runs on its own

ASSUME LimiterAssumption == /\ Interval \in Nat \ {0}
                            /\ MaxLate \in Nat
                            /\ MaxCalls \in Nat
                            /\ MaxTime \in Nat

VARIABLES
  now,      \* the clock
  next,     \* l.next
  pc,       \* "idle", "pass" (wait <= 0) or "timer", per caller
  mine,     \* the slot a waiting caller reserved, 0 for none
  ctxDone,  \* ctx.Err() # nil
  slots,    \* history: the time of every slot reserved
  at        \* history: when Wait returned nil for that slot, Never if not

vars == <<now, next, pc, mine, ctxDone, slots, at>>

Never == -1

TypeOK ==
  /\ now \in Nat
  /\ next \in Nat
  /\ pc \in [Callers -> {"idle", "pass", "timer"}]
  /\ mine \in [Callers -> 0..Len(slots)]
  /\ ctxDone \in BOOLEAN
  /\ slots \in Seq(Nat)
  /\ at \in Seq(Nat \cup {Never})
  /\ Len(at) = Len(slots)

Init ==
  /\ now = 1 /\ next = 0       \* the zero time.Time is long past
  /\ pc = [c \in Callers |-> "idle"] /\ mine = [c \in Callers |-> 0]
  /\ ctxDone = FALSE
  /\ slots = <<>> /\ at = <<>>

-----------------------------------------------------------------------------
(* A call takes the slot at time s and leaves l.next one interval later. *)
TakeSlot(c, s, later) ==
  /\ pc[c] = "idle"
  /\ Len(slots) < MaxCalls
  /\ slots' = Append(slots, s)
  /\ at' = Append(at, Never)
  /\ mine' = [mine EXCEPT ![c] = Len(slots) + 1]
  /\ next' = later
  /\ pc' = [pc EXCEPT ![c] = IF s <= now THEN "pass" ELSE "timer"]
  /\ UNCHANGED <<now, ctxDone>>

(* Faulty: a past l.next is not brought up to now; the interval is counted *)
(* from the call instead of from the slot.                                 *)
ReserveSavingIdle(c) == TakeSlot(c, next, next + Interval)
ReserveFromNow(c)    == LET s == IF next < now THEN now ELSE next
                        IN  TakeSlot(c, s, now + Interval)

(* The section of Wait under l.mu. *)
Reserve(c) == LET s == IF next < now THEN now ELSE next
              IN  TakeSlot(c, s, s + Interval)

Return(c, granted) ==
  /\ at' = IF granted THEN [at EXCEPT ![mine[c]] = now] ELSE at
  /\ pc' = [pc EXCEPT ![c] = "idle"]
  /\ mine' = [mine EXCEPT ![c] = 0]
  /\ UNCHANGED <<now, next, ctxDone, slots>>

(* Faulty: without an early return, select waits on the nil channel of a    *)
(* timer that was never made.                                               *)
PassOnNilTimer(c) == pc[c] = "pass" /\ ctxDone /\ Return(c, FALSE)

(* wait <= 0: return ctx.Err(). *)
PassNow(c) == pc[c] = "pass" /\ Return(c, ~ctxDone)

(* <-t.C is chosen, whether or not ctx is done as well. *)
TimerFires(c) == pc[c] = "timer" /\ slots[mine[c]] <= now /\ Return(c, TRUE)

(* Faulty: a call that gives up takes the last slot back. *)
CancelledTakesBack(c) ==
  /\ pc[c] = "timer" /\ ctxDone
  /\ slots' = SubSeq(slots, 1, Len(slots) - 1)
  /\ at' = SubSeq(at, 1, Len(at) - 1)
  /\ next' = next - Interval
  /\ pc' = [pc EXCEPT ![c] = "idle"]
  /\ mine' = [mine EXCEPT ![c] = 0]
  /\ UNCHANGED <<now, ctxDone>>

(* <-ctx.Done(): the slot stays used. *)
Cancelled(c) == pc[c] = "timer" /\ ctxDone /\ Return(c, FALSE)

CancelCtx ==
  /\ ~ctxDone
  /\ ctxDone' = TRUE
  /\ UNCHANGED <<now, next, pc, mine, slots, at>>

Tick ==
  /\ now < MaxTime \/ \E c \in Callers : pc[c] = "timer"
  /\ \A c \in Callers : pc[c] # "idle" => now < slots[mine[c]] + MaxLate
  /\ now' = now + 1
  /\ UNCHANGED <<next, pc, mine, ctxDone, slots, at>>

WaitStep(c) == Reserve(c) \/ PassNow(c) \/ TimerFires(c) \/ Cancelled(c)

Next == CancelCtx \/ Tick \/ \E c \in Callers : WaitStep(c)

Spec == Init /\ [][Next]_vars

(* The clock runs, and a goroutine whose wait is over is scheduled. *)
FairSpec == /\ Spec
            /\ WF_vars(Tick)
            /\ \A c \in Callers : WF_vars(PassNow(c) \/ TimerFires(c) \/ Cancelled(c))

-----------------------------------------------------------------------------
(* The parts of the inductive invariant. *)

(* l.next is one interval past the last slot. *)
NextFollows ==
  \A j \in DOMAIN slots : slots[j] + (Len(slots) + 1 - j) * Interval <= next

(* A caller that waits has a slot, and is late by MaxLate at most. *)
Waiting ==
  \A c \in Callers : pc[c] # "idle" =>
    /\ mine[c] # 0
    /\ now <= slots[mine[c]] + MaxLate
    /\ pc[c] = "pass" => slots[mine[c]] <= now

(* No call was granted before its slot, nor later than MaxLate after it. *)
Punctual ==
  \A k \in DOMAIN at : at[k] # Never => slots[k] <= at[k] /\ at[k] <= slots[k] + MaxLate

(* No two calls share a slot and every slot keeps its distance from the one *)
(* before it, although callers reserve concurrently, some give up and l.next *)
(* restarts from now after an idle time.                                    *)
SlotsSpaced ==
  \A j, k \in DOMAIN slots : j < k => slots[j] + (k - j) * Interval <= slots[k]

(* The calls granted in the window from t to u. *)
Granted(t, u) == {k \in DOMAIN at : t <= at[k] /\ at[k] <= u}

(* "It caps aggregate request rate across any number of concurrent callers":*)
(* in every window the grants exceed the rate by what lateness can bunch    *)
(* together, and an idle time earns no burst.                               *)
RateCapped ==
  \A t, u \in 0..now :
    t <= u => (Cardinality(Granted(t, u)) - 1) * Interval <= (u - t) + MaxLate

(* Every call of Wait returns, however many callers queue for slots. *)
WaitReturns == \A c \in Callers : pc[c] # "idle" ~> pc[c] = "idle"
=============================================================================
