----------------------------- MODULE RateLimit -----------------------------
(***************************************************************************)
(* AuthRateLimitService and its guard: attempts to log in or to register   *)
(* are counted per key (profile, route, source address) in windows of      *)
(* fixed length that open with an attempt.  The attempt after the last one *)
(* allowed starts a block.  The map lives in the memory of one gateway     *)
(* process and is lost when it restarts.                                   *)
(***************************************************************************)
EXTENDS Integers, Sequences

CONSTANTS
  Keys,
  Limit, Window, Block,   \* the options of the profile
  MaxTime                 \* the clock stops there

\* Block 0 would switch the guard off: it takes the answer 0 for no answer.
ASSUME RateLimitAssumption ==
  /\ Limit \in Nat \ {0} /\ Window \in Nat \ {0} /\ Block \in Nat \ {0}
  /\ MaxTime \in Nat

VARIABLES
  now,        \* Date.now(), in seconds
  attempts,   \* this.attempts; count 0 stands for a missing record
  passed      \* history: the attempts let through since the process started

limiterVars == <<now, attempts, passed>>

NoRecord == [count |-> 0, start |-> 0, blockedUntil |-> 0]

LimiterInit ==
  /\ now = 0
  /\ attempts = [k \in Keys |-> NoRecord]
  /\ passed = [k \in Keys |-> <<>>]

Blocked(k) == attempts[k].blockedUntil > now

Fresh(k) == \/ attempts[k].count = 0
            \/ now - attempts[k].start >= Window

Opened(k)  == IF Fresh(k) THEN now ELSE attempts[k].start
Counted(k) == IF Fresh(k) THEN 1 ELSE attempts[k].count + 1

\* Under a block nothing is counted and the block is not prolonged.
TurnedAway(k) == Blocked(k) /\ UNCHANGED limiterVars

\* One attempt too many.
Refused(k) ==
  /\ ~Blocked(k) /\ Counted(k) > Limit
  /\ attempts' = [attempts EXCEPT ![k] =
       [count |-> Counted(k), start |-> Opened(k), blockedUntil |-> now + Block]]
  /\ UNCHANGED <<now, passed>>

Mutant_Admitted(k) ==
  /\ ~Blocked(k) /\ Counted(k) <= Limit + 1
  /\ attempts' = [attempts EXCEPT ![k] =
       [count |-> Counted(k), start |-> Opened(k), blockedUntil |-> 0]]
  /\ passed' = [passed EXCEPT ![k] = Append(@, [at |-> now, opened |-> Opened(k)])]
  /\ UNCHANGED now
Admitted(k) ==
  /\ ~Blocked(k) /\ Counted(k) <= Limit
  /\ attempts' = [attempts EXCEPT ![k] =
       [count |-> Counted(k), start |-> Opened(k), blockedUntil |-> 0]]
  /\ passed' = [passed EXCEPT ![k] = Append(@, [at |-> now, opened |-> Opened(k)])]
  /\ UNCHANGED now

Tick ==
  /\ now < MaxTime
  /\ now' = now + 1
  /\ UNCHANGED <<attempts, passed>>

\* The process with these keys restarts: it starts with an empty map.
Forget(ks) ==
  /\ attempts' = [k \in Keys |-> IF k \in ks THEN NoRecord ELSE attempts[k]]
  /\ passed' = [k \in Keys |-> IF k \in ks THEN <<>> ELSE passed[k]]
  /\ UNCHANGED now

LimiterNext ==
  \/ \E k \in Keys : TurnedAway(k) \/ Refused(k) \/ Admitted(k)
  \/ Tick
  \/ \E ks \in SUBSET Keys : Forget(ks)

LimiterSpec == LimiterInit /\ [][LimiterNext]_limiterVars

-----------------------------------------------------------------------------
(* Properties.                                                             *)

\* registerAttempt lets at most 2 * Limit attempts of a key through in any
\* stretch of the window's length, wherever the fixed windows fall in it: the
\* end of one window and the start of the next can both be full.
WithinLimit ==
  \A k \in Keys : \A i \in DOMAIN passed[k] :
    i + 2 * Limit \in DOMAIN passed[k] =>
      passed[k][i + 2 * Limit].at - passed[k][i].at >= Window

\* 'Retry in N seconds' (auth-rate-limit.guard.ts:60) is honest when a block
\* is not shorter than a window: once it is over, the next attempt is let
\* through, although the count is still above the limit.
BlockEnds ==
  Block >= Window =>
    \A k \in Keys : attempts[k].count > Limit /\ ~Blocked(k) => Counted(k) <= Limit

=============================================================================
