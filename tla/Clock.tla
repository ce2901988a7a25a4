------------------------------- MODULE Clock -------------------------------
(***************************************************************************)
(* The deadline idiom that every class of the library repeats:             *)
(*     deadline_ = millis() + timeoutMs;                                   *)
(*     if ((int32_t)(millis() - deadline_) >= 0) ...                       *)
(* on 32-bit counters that wrap.  The other modules keep a deadline as a   *)
(* countdown; this one shows when that is what the code computes.          *)
(***************************************************************************)
EXTENDS Integers

CONSTANT Half   \* half the range of the counter, 2^31 in the code

ASSUME HalfAssumption == Half \in Nat \ {0}

VARIABLES
  now,        \* millis()
  deadline,   \* deadline_
  timeout,    \* history: the timeoutMs the deadline was set with
  elapsed     \* history: milliseconds since then, not wrapped

vars == <<now, deadline, timeout, elapsed>>

W == 2 * Half

(* The difference of two uint32_t counters.                                *)
Minus(a, b) == (a - b + W) % W

(* Mutant: millis() >= deadline_, which is wrong once either has wrapped.  *)
ExpiredUnsigned == now >= deadline

(* (int32_t)(millis() - deadline_) >= 0 *)
Expired == Minus(now, deadline) < Half

Init ==
  /\ now \in 0 .. W - 1
  /\ deadline = now
  /\ timeout = 0
  /\ elapsed = 0

(* deadline_ = millis() + timeoutMs, for a timeout below 2^31 ms.          *)
Arm(t) ==
  /\ deadline' = (now + t) % W
  /\ timeout' = t
  /\ elapsed' = 0
  /\ UNCHANGED now

(* A millisecond passes.  Bound: the deadline is not looked at 2^31 ms     *)
(* (24.8 days) or more after it.  A poll() that goes on being called keeps *)
(* to that, with one exception: the deadline of a registration is looked   *)
(* at again by pollUnregistering(), after any time connected, and beyond   *)
(* the bound it may seem to be still to come.                              *)
Tick ==
  /\ elapsed - timeout < Half - 1
  /\ now' = (now + 1) % W
  /\ elapsed' = elapsed + 1
  /\ UNCHANGED <<deadline, timeout>>

Next == Tick \/ \E t \in 0 .. Half - 1 : Arm(t)

Spec == Init /\ [][Next]_vars

-----------------------------------------------------------------------------
(* The comparison of the code is exact across every wrap of the counter,   *)
(* as long as the deadline is looked at less than half a turn after it: it *)
(* is past if and only if its timeout has elapsed.                         *)
DeadlineExact == Expired <=> elapsed >= timeout

(* Counters in their ranges, and the two clocks in step modulo the wrap.   *)
ClockInv ==
  /\ now \in 0 .. W - 1
  /\ deadline \in 0 .. W - 1
  /\ timeout \in 0 .. Half - 1
  /\ elapsed \in Nat
  /\ elapsed - timeout < Half
  /\ \/ now - deadline = elapsed - timeout
     \/ now - deadline = elapsed - timeout + W
     \/ now - deadline = elapsed - timeout - W

=============================================================================
