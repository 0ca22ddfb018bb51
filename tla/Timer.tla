---------------------------------- MODULE Timer ----------------------------------
(***************************************************************************)
(* Interval, the timer behind every poll and retry, on a clock that wraps. *)
(* The arithmetic is that of unsigned words of M values: 2^32 in the code, *)
(* few here.  A polling timer is asked by hasPassed(), which restarts it;  *)
(* a retry timer by ready(), and is restarted by reset(); trigger() asks   *)
(* either to be due at once, by the value 0 that it starts with.           *)
(***************************************************************************)
EXTENDS Naturals

CONSTANTS M,       \* millis() takes the values 0..M - 1
          Period,  \* _period
          Gap      \* milliseconds that pass between two calls of hasPassed(), at most

ClockAssumption == {M, Period, Gap} \subseteq Nat \ {0} /\ Period + Gap < M

VARIABLES now,        \* millis()
          lastFired,  \* _lastFired
          age,        \* history: milliseconds since it was last restarted
          idle        \* milliseconds since hasPassed() was called

vars == <<now, lastFired, age, idle>>

MaxAge == 2 * M  \* bound: where age stops

TypeOK == now \in 0..(M - 1) /\ lastFired \in 0..(M - 1) /\ age \in 0..MaxAge /\ idle \in 0..Gap

Init == now = 0 /\ lastFired = 0 /\ age = 0 /\ idle = 0

Deadline == (lastFired + Period) % M

ReadyEarly == now >= Deadline  \* mutant: >= for >
Ready == now > Deadline

NextTime == (now + 1) % M

Tick ==
  /\ idle < Gap
  /\ now' = NextTime
  /\ age' = IF age < MaxAge THEN age + 1 ELSE age
  /\ idle' = idle + 1
  /\ UNCHANGED lastFired

(* hasPassed(), with the answer no or yes.                                 *)
Due == lastFired = 0 \/ Ready

NotYet ==
  /\ ~Due
  /\ idle' = 0
  /\ UNCHANGED <<now, lastFired, age>>

DeadlineKept == Deadline  \* mutant: the deadline is kept, and the period added again
Restarted == now

Fire ==
  /\ Due
  /\ lastFired' = Restarted
  /\ age' = 0
  /\ idle' = 0
  /\ UNCHANGED now

Reset ==
  /\ lastFired' = now
  /\ age' = 0
  /\ UNCHANGED <<now, idle>>

Trigger ==
  /\ lastFired' = 0
  /\ UNCHANGED <<now, age, idle>>

Next == Tick \/ NotYet \/ Fire \/ Reset \/ Trigger

Spec == Init /\ [][Next]_vars

-------------------------------------------------------------------------------
(* Properties.                                                             *)

(* The period does not reach over the wrap of the clock.                   *)
Inside == lastFired + Period < M

(* A timer is not due before its period is over, unless it was triggered   *)
(* or the sum wraps: then it is due at every call until the clock wraps    *)
(* too (Interval.cpp 25, 34).                                              *)
NeverEarly == [][Fire => age > Period \/ lastFired = 0 \/ ~Inside]_vars

(* A poll that asks often enough is answered in time, unless the last      *)
(* moments before the wrap are all that is left to ask in: one that misses *)
(* them waits for a whole round of the clock (Interval.cpp 25).            *)
Punctual == lastFired # 0 /\ lastFired + Period + Gap < M => age <= Period + Gap
===============================================================================
