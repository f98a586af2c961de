---------------------------- MODULE RateLimiter -----------------------------
(***************************************************************************)
(* The throttle of packages/alchemy/src/rate-limiter.ts: every provider    *)
(* call runs under the one permit of a semaphore and, once it succeeded,   *)
(* keeps the permit while it sleeps for the interval.                      *)
(*                                                                         *)
(* Callers are fibers of a pull, an apply or a hydrating sync that share   *)
(* the limiter.  Their calls may fail, and fibers may be interrupted.      *)
(***************************************************************************)
EXTENDS Integers, Sequences

CONSTANTS
  Callers,
  Interval,   \* the configured spacing
  MaxTime,    \* bound on the clock
  MaxCalls    \* bound on the calls that start

ASSUME LimitsOK == Interval \in Nat /\ MaxTime \in Nat /\ MaxCalls \in Nat

VARIABLES
  now,        \* the clock
  pc,         \* where each caller is in limit(effect)
  permits,    \* free permits of the semaphore
  wake,       \* when a sleeping caller's sleep is over
  starts      \* history: when each call started and whether it slept its interval

vars == <<now, pc, permits, wake, starts>>

Init ==
  /\ now = 0
  /\ pc = [c \in Callers |-> "idle"]
  /\ permits = 1
  /\ wake = [c \in Callers |-> 0]
  /\ starts = <<>>

Ask(c) ==
  /\ pc[c] = "idle"
  /\ pc' = [pc EXCEPT ![c] = "waiting"]
  /\ UNCHANGED <<now, permits, wake, starts>>

(* withPermits(1): whichever waiter the semaphore picks starts its call.     *)
Acquire(c) ==
  /\ pc[c] = "waiting" /\ permits > 0 /\ Len(starts) < MaxCalls
  /\ permits' = permits - 1
  /\ pc' = [pc EXCEPT ![c] = "calling"]
  /\ starts' = Append(starts, [at |-> now, slept |-> FALSE])
  /\ UNCHANGED <<now, wake>>

(* Mutant of Succeed: the sleep is forked, not awaited.                      *)
SucceedAtOnce(c) ==
  /\ pc[c] = "calling"
  /\ pc' = [pc EXCEPT ![c] = "sleeping"]
  /\ wake' = [wake EXCEPT ![c] = now]
  /\ UNCHANGED <<now, permits, starts>>

(* Effect.tap(effect, sleep): the sleep follows a success only.              *)
Succeed(c) ==
  /\ pc[c] = "calling"
  /\ pc' = [pc EXCEPT ![c] = "sleeping"]
  /\ wake' = [wake EXCEPT ![c] = now + Interval]
  /\ UNCHANGED <<now, permits, starts>>

(* The permit comes back however its holder leaves.                          *)
Leave(c) ==
  /\ pc' = [pc EXCEPT ![c] = "idle"]
  /\ permits' = IF pc[c] = "waiting" THEN permits ELSE permits + 1

Wake(c) ==
  /\ pc[c] = "sleeping" /\ now >= wake[c]
  /\ Leave(c)
  /\ starts' = [starts EXCEPT ![Len(starts)].slept = TRUE]
  /\ UNCHANGED <<now, wake>>

(* The call fails: tap does not run, and withPermits gives the permit back.  *)
Fail(c) ==
  /\ pc[c] = "calling"
  /\ Leave(c)
  /\ UNCHANGED <<now, wake, starts>>

(* The fiber is interrupted while it waits, calls or sleeps.                 *)
Interrupt(c) ==
  /\ pc[c] # "idle"
  /\ Leave(c)
  /\ UNCHANGED <<now, wake, starts>>

Tick ==
  /\ now < MaxTime
  /\ now' = now + 1
  /\ UNCHANGED <<pc, permits, wake, starts>>

Next == Tick \/ \E c \in Callers : Ask(c) \/ Acquire(c) \/ Succeed(c) \/ Wake(c)
                             \/ Fail(c) \/ Interrupt(c)

Spec == Init /\ [][Next]_vars

-----------------------------------------------------------------------------
Apart(i) == starts[i + 1].at - starts[i].at >= Interval

(* A call that succeeds and is left to sleep keeps everyone else, waiters    *)
(* that were interrupted and came back included, out for the interval.       *)
SpacedAfterSuccess == \A i \in 1..(Len(starts) - 1) : starts[i].slept => Apart(i)
=============================================================================
