--------------------------- MODULE GatewayProofs ----------------------------
(***************************************************************************)
(* Proofs about what guards the gateway.                                   *)
(*                                                                         *)
(* RateLimit and Accounts, for any processes, customers, keys and names    *)
(* and for all options: what the limiter promises, alone and behind        *)
(* register, that register's answers are true, and that the configured     *)
(* names cannot be registered.                                             *)
(*                                                                         *)
(* Idempotency, for any number of requests with one key and any payloads:  *)
(* a handler takes effect once, and its first response is what everybody   *)
(* gets, as long as nobody claimed the key without a row.                  *)
(***************************************************************************)
EXTENDS Accounts, Idempotency, SequenceTheorems, TLAPS

-----------------------------------------------------------------------------
(* The limiter, on its own (RateLimit).                                    *)

Attempt  == [at : Nat, opened : Nat]
LimiterTypeOK ==
  /\ now \in Nat
  /\ attempts \in [Keys -> [count : Nat, start : Nat, blockedUntil : Nat]]
  /\ passed \in [Keys -> Seq(Attempt)]

\* How many of the attempts let through belong to the record's window.
Current(k) == IF attempts[k].count < Limit THEN attempts[k].count ELSE Limit

\* The last Current(k) attempts belong to the record's window, all others to
\* windows that ended before it opened; Limit attempts apart means another
\* window.
WindowsSound(k) ==
  LET p == passed[k]
      start == attempts[k].start
      older == Len(p) - Current(k)
  IN /\ start <= now
     /\ older >= 0
     /\ attempts[k].count = 0 => Len(p) = 0
     /\ \A i \in 1..Len(p) : i > older => p[i].opened = start
     /\ \A i \in 1..Len(p) : i <= older => p[i].opened + Window <= start
     /\ \A i \in 1..Len(p) : p[i].opened <= p[i].at /\ p[i].at < p[i].opened + Window
     /\ \A i \in 1..Len(p) : i + Limit <= Len(p) =>
          p[i].opened + Window <= p[i + Limit].opened

\* A block is as long as the option says, counted from the refused attempt.
BlockSound(k) ==
  attempts[k].count > Limit => attempts[k].start + Block <= attempts[k].blockedUntil

LimiterInv ==
  /\ LimiterTypeOK
  /\ \A k \in Keys : WindowsSound(k) /\ BlockSound(k)

-----------------------------------------------------------------------------

\* LimiterInv holds of a fresh process.
LEMMA LimiterStarts == LimiterInit => LimiterInv
<1>1. SUFFICES ASSUME LimiterInit PROVE LimiterInv
  OBVIOUS
<1>2. LimiterTypeOK
  BY <1>1 DEF LimiterInit, LimiterTypeOK, NoRecord, Attempt
<1>3. ASSUME NEW k \in Keys PROVE WindowsSound(k) /\ BlockSound(k)
  BY <1>1, <1>3, RateLimitAssumption
  DEF LimiterInit, NoRecord, WindowsSound, BlockSound, Current
<1> QED
  BY <1>2, <1>3 DEF LimiterInv

\* The formulas about a key depend on its own record and the clock alone, and
\* not on the clock's exact value once the window has opened.
LEMMA OthersKept ==
  ASSUME NEW k \in Keys, LimiterTypeOK, WindowsSound(k), BlockSound(k),
         attempts'[k] = attempts[k], passed'[k] = passed[k],
         now' \in Nat, now <= now'
  PROVE  (WindowsSound(k) /\ BlockSound(k))'
BY DEF WindowsSound, BlockSound, Current, LimiterTypeOK

\* A refused attempt is counted in its window and starts a block.
LEMMA RefusedKeeps ==
  ASSUME NEW k \in Keys, LimiterInv, Refused(k)
  PROVE  LimiterInv'
<1>1. ~Fresh(k) /\ attempts[k].count >= Limit
  BY RateLimitAssumption DEF Refused, Counted, LimiterInv, LimiterTypeOK
<1>2. attempts' = [attempts EXCEPT ![k] =
        [count |-> attempts[k].count + 1, start |-> attempts[k].start,
         blockedUntil |-> now + Block]]
  BY <1>1 DEF Refused, Counted, Opened
<1>3. LimiterTypeOK'
  BY <1>2, RateLimitAssumption DEF Refused, LimiterInv, LimiterTypeOK
<1>4. ASSUME NEW j \in Keys, j # k PROVE (WindowsSound(j) /\ BlockSound(j))'
  <2>1. attempts'[j] = attempts[j] /\ passed'[j] = passed[j] /\ now' = now
    BY <1>4 DEF Refused, LimiterInv, LimiterTypeOK
  <2>2. now \in Nat
    BY DEF LimiterInv, LimiterTypeOK
  <2> QED
    BY <1>4, <2>1, <2>2, OthersKept DEF LimiterInv
<1>5. WindowsSound(k)' /\ BlockSound(k)'
  <2>1. attempts'[k].count = attempts[k].count + 1 /\ attempts'[k].start = attempts[k].start
        /\ attempts'[k].blockedUntil = now + Block
    BY <1>2 DEF LimiterInv, LimiterTypeOK
  <2>2. Current(k)' = Current(k)
    BY <1>1, <2>1, RateLimitAssumption DEF Current, LimiterInv, LimiterTypeOK
  <2>3. passed'[k] = passed[k] /\ now' = now
    BY DEF Refused
  <2>4. WindowsSound(k)
    BY DEF LimiterInv
  <2>5. WindowsSound(k)'
    BY <1>1, <2>1, <2>2, <2>3, <2>4, RateLimitAssumption
    DEF WindowsSound, LimiterInv, LimiterTypeOK
  <2>6. BlockSound(k)'
    BY <2>1, <2>4, RateLimitAssumption DEF BlockSound, WindowsSound, LimiterInv, LimiterTypeOK
  <2> QED
    BY <2>5, <2>6
<1> QED
  BY <1>3, <1>4, <1>5 DEF LimiterInv

\* An attempt let through opens a window or takes a place in the open one.
LEMMA AdmittedKeeps ==
  ASSUME NEW k \in Keys, LimiterInv, Admitted(k)
  PROVE  LimiterInv'
<1> DEFINE new == [at |-> now, opened |-> Opened(k)]
           p == passed[k]
           q == Append(p, new)
<1>1. now \in Nat /\ Opened(k) \in Nat /\ Counted(k) \in Nat \ {0} /\ new \in Attempt
  BY RateLimitAssumption DEF Opened, Counted, Attempt, LimiterInv, LimiterTypeOK
<1>2. p \in Seq(Attempt) /\ Len(p) \in Nat
  BY LenProperties DEF LimiterInv, LimiterTypeOK
<1>3. /\ q \in Seq(Attempt) /\ Len(q) = Len(p) + 1
      /\ \A i \in 1..Len(p) : q[i] = p[i]
      /\ q[Len(p) + 1] = new
  BY <1>1, <1>2, AppendProperties
<1>4. passed' = [passed EXCEPT ![k] = q]
  BY DEF Admitted
<1>5. LimiterTypeOK'
  BY <1>1, <1>3, <1>4 DEF Admitted, LimiterInv, LimiterTypeOK
<1>6. ASSUME NEW j \in Keys, j # k PROVE (WindowsSound(j) /\ BlockSound(j))'
  <2>1. attempts'[j] = attempts[j] /\ passed'[j] = passed[j] /\ now' = now
    BY <1>6 DEF Admitted, LimiterInv, LimiterTypeOK
  <2> QED
    BY <1>1, <1>6, <2>1, OthersKept DEF LimiterInv
<1>7. attempts'[k].count = Counted(k) /\ attempts'[k].start = Opened(k) /\ passed'[k] = q
      /\ now' = now
  BY <1>4 DEF Admitted, LimiterInv, LimiterTypeOK
<1>8. BlockSound(k)'
  BY <1>1, <1>7, RateLimitAssumption DEF BlockSound, Admitted
<1>9. Current(k)' = Counted(k)
  BY <1>1, <1>7, RateLimitAssumption DEF Current, Admitted
<1>10. /\ attempts[k].start \in Nat /\ attempts[k].count \in Nat
       /\ \A i \in 1..Len(p) : p[i].opened \in Nat /\ p[i].at \in Nat
  <2>1. attempts[k].start \in Nat /\ attempts[k].count \in Nat
    BY DEF LimiterInv, LimiterTypeOK
  <2>2. ASSUME NEW i \in 1..Len(p) PROVE p[i] \in Attempt
    BY <1>2, <2>2, ElementOfSeq
  <2> QED
    BY <2>1, <2>2 DEF Attempt
<1>11. WindowsSound(k)
  BY DEF LimiterInv
<1>12. Limit \in Nat /\ Limit >= 1 /\ Window \in Nat /\ Window >= 1
  BY RateLimitAssumption
<1>13. WindowsSound(k)'
  <2>1. CASE Fresh(k)
    <3>1. Opened(k) = now /\ Counted(k) = 1
      BY <2>1 DEF Opened, Counted
    <3>2. ASSUME NEW i \in 1..Len(p) PROVE p[i].opened + Window <= now
      <4>1. /\ p[i].opened = attempts[k].start \/ p[i].opened + Window <= attempts[k].start
            /\ attempts[k].start <= now
            /\ attempts[k].count = 0 => Len(p) = 0
        <5>1. Current(k) \in Nat
          BY <1>10, <1>12 DEF Current
        <5>2. i > Len(p) - Current(k) \/ i <= Len(p) - Current(k)
          BY <1>2, <3>2, <5>1
        <5> QED
          BY <1>11, <3>2, <5>2 DEF WindowsSound
      <4>2. now - attempts[k].start >= Window
        BY <1>2, <2>1, <3>2, <4>1 DEF Fresh
      <4>3. p[i].opened \in Nat
        BY <1>10, <3>2
      <4> QED
        BY <1>1, <1>10, <1>12, <4>1, <4>2, <4>3
    <3>3. \A i \in 1..Len(p) + 1 : i <= Len(p) => q[i].opened + Window <= now
      BY <1>2, <1>3, <3>2
    <3>4. \A i \in 1..Len(p) + 1 : q[i].opened <= q[i].at /\ q[i].at < q[i].opened + Window
      BY <1>1, <1>2, <1>3, <1>11, <1>12, <3>1 DEF WindowsSound
    <3>5. \A i \in 1..Len(p) + 1 : i + Limit <= Len(p) + 1 =>
            q[i].opened + Window <= q[i + Limit].opened
      <4>1. SUFFICES ASSUME NEW i \in 1..Len(p) + 1, i + Limit <= Len(p) + 1
                     PROVE  q[i].opened + Window <= q[i + Limit].opened
        OBVIOUS
      <4>2. CASE i + Limit = Len(p) + 1
        BY <1>2, <1>3, <1>12, <3>1, <3>2, <4>1, <4>2
      <4>3. CASE i + Limit <= Len(p)
        BY <1>2, <1>3, <1>11, <1>12, <4>1, <4>3 DEF WindowsSound
      <4> QED
        BY <1>2, <1>12, <4>1, <4>2, <4>3
    <3> HIDE DEF new, q
    <3>6. q[Len(p) + 1].opened = now
      BY <1>3, <3>1 DEF new
    <3> QED
      BY <1>1, <1>2, <1>3, <1>7, <1>9, <3>1, <3>3, <3>4, <3>5, <3>6 DEF WindowsSound
  <2>2. CASE ~Fresh(k)
    <3>1. /\ Opened(k) = attempts[k].start /\ Counted(k) = attempts[k].count + 1
          /\ attempts[k].count < Limit /\ now < attempts[k].start + Window
      BY <1>1, <1>10, <1>12, <2>2 DEF Opened, Counted, Fresh, Admitted
    <3>2. Current(k) = attempts[k].count
      BY <3>1 DEF Current
    <3>3. \A i \in 1..Len(p) + 1 : q[i].opened <= q[i].at /\ q[i].at < q[i].opened + Window
      <4>1. \A i \in 1..Len(p) : q[i].opened <= q[i].at /\ q[i].at < q[i].opened + Window
        BY <1>3, <1>11 DEF WindowsSound
      <4>2. attempts[k].start <= now
        BY <1>11 DEF WindowsSound
      <4>3. q[Len(p) + 1].opened = attempts[k].start /\ q[Len(p) + 1].at = now
        BY <1>3, <3>1
      <4> QED
        BY <1>2, <3>1, <4>1, <4>2, <4>3
    <3>4. \A i \in 1..Len(p) + 1 : i + Limit <= Len(p) + 1 =>
            q[i].opened + Window <= q[i + Limit].opened
      <4>1. SUFFICES ASSUME NEW i \in 1..Len(p) + 1, i + Limit <= Len(p) + 1
                     PROVE  q[i].opened + Window <= q[i + Limit].opened
        OBVIOUS
      <4>2. CASE i + Limit = Len(p) + 1
        <5>1. i \in 1..Len(p) /\ i <= Len(p) - attempts[k].count
          BY <1>2, <1>10, <1>12, <3>1, <4>1, <4>2
        <5>2. p[i].opened + Window <= attempts[k].start
          BY <1>11, <3>2, <5>1 DEF WindowsSound
        <5> QED
          BY <1>3, <3>1, <4>2, <5>1, <5>2
      <4>3. CASE i + Limit <= Len(p)
        BY <1>2, <1>3, <1>11, <1>12, <4>1, <4>3 DEF WindowsSound
      <4> QED
        BY <1>2, <1>12, <4>1, <4>2, <4>3
    <3>5. \A i \in 1..Len(p) + 1 : i > Len(p) - attempts[k].count =>
            q[i].opened = attempts[k].start
      <4>1. \A i \in 1..Len(p) : i > Len(p) - attempts[k].count =>
              q[i].opened = attempts[k].start
        BY <1>3, <1>11, <3>2 DEF WindowsSound
      <4>2. q[Len(p) + 1].opened = attempts[k].start
        BY <1>3, <3>1
      <4> QED
        BY <1>2, <4>1, <4>2
    <3>6. \A i \in 1..Len(p) + 1 : i <= Len(p) - attempts[k].count =>
            q[i].opened + Window <= attempts[k].start
      <4>1. ASSUME NEW i \in 1..Len(p) + 1, i <= Len(p) - attempts[k].count
            PROVE  q[i].opened + Window <= attempts[k].start
        <5>1. i \in 1..Len(p) \/ i = Len(p) + 1
          BY <1>2, <4>1
        <5>2. CASE i \in 1..Len(p)
          BY <1>3, <1>11, <3>2, <4>1, <5>2 DEF WindowsSound
        <5>3. CASE i = Len(p) + 1
          BY <1>2, <1>10, <4>1, <5>3
        <5> QED
          BY <5>1, <5>2, <5>3
      <4> QED
        BY <4>1
    <3>7. attempts[k].start <= now /\ Len(p) - attempts[k].count >= 0
      BY <1>11, <3>2 DEF WindowsSound
    <3> HIDE DEF new, q
    <3>8. Len(q) - Current(k)' = Len(p) - attempts[k].count /\ Len(q) # 0
      <4>1. attempts[k].count \in Nat /\ Current(k)' = attempts[k].count + 1
        BY <1>9, <1>10, <3>1
      <4>2. Len(p) \in Nat /\ Len(q) = Len(p) + 1
        BY <1>2, <1>3
      <4> QED
        BY <4>1, <4>2
    <3>9. attempts'[k].start = attempts[k].start /\ attempts'[k].count # 0
      BY <1>7, <1>10, <3>1
    <3> QED
      BY <1>3, <1>7, <3>3, <3>4, <3>5, <3>6, <3>7, <3>8, <3>9 DEF WindowsSound
  <2> QED
    BY <2>1, <2>2
<1> QED
  BY <1>5, <1>6, <1>8, <1>13 DEF LimiterInv

\* A restart forgets the record together with what it was the record of.
LEMMA ForgetKeeps ==
  ASSUME LimiterInv, NEW ks \in SUBSET Keys, Forget(ks)
  PROVE  LimiterInv'
<1>1. LimiterTypeOK'
  BY DEF Forget, NoRecord, LimiterInv, LimiterTypeOK
<1>2. ASSUME NEW k \in Keys PROVE WindowsSound(k)' /\ BlockSound(k)'
  <2>1. CASE k \in ks
    <3>1. attempts'[k] = NoRecord /\ passed'[k] = << >> /\ now' = now /\ now \in Nat
      BY <1>2, <2>1 DEF Forget, LimiterInv, LimiterTypeOK
    <3>2. attempts'[k].count = 0 /\ attempts'[k].start = 0
      BY <3>1 DEF NoRecord
    <3>3. Current(k)' = 0
      BY <3>2, RateLimitAssumption DEF Current
    <3>4. WindowsSound(k)'
      BY <3>1, <3>2, <3>3 DEF WindowsSound
    <3>5. BlockSound(k)'
      BY <3>2, RateLimitAssumption DEF BlockSound
    <3> QED
      BY <3>4, <3>5
  <2>2. CASE k \notin ks
    <3>1. attempts'[k] = attempts[k] /\ passed'[k] = passed[k] /\ now' = now
      BY <1>2, <2>2 DEF Forget
    <3>2. now \in Nat /\ LimiterTypeOK /\ WindowsSound(k) /\ BlockSound(k)
      BY <1>2 DEF LimiterInv, LimiterTypeOK
    <3> QED
      BY <1>2, <3>1, <3>2, OthersKept
  <2> QED
    BY <2>1, <2>2
<1> QED
  BY <1>1, <1>2 DEF LimiterInv

\* Every step of the limiter keeps LimiterInv.
LEMMA LimiterInductive == LimiterInv /\ [LimiterNext]_limiterVars => LimiterInv'
<1>1. SUFFICES ASSUME LimiterInv, [LimiterNext]_limiterVars PROVE LimiterInv'
  OBVIOUS
<1>2. CASE UNCHANGED limiterVars
  BY <1>1, <1>2
  DEF limiterVars, LimiterInv, LimiterTypeOK, WindowsSound, BlockSound, Current
<1>3. ASSUME NEW k \in Keys, TurnedAway(k) PROVE LimiterInv'
  BY <1>2, <1>3 DEF TurnedAway
<1>4. CASE Tick
  <2>1. /\ now' = now + 1 /\ attempts' = attempts /\ passed' = passed
        /\ now \in Nat
    BY <1>1, <1>4 DEF Tick, LimiterInv, LimiterTypeOK
  <2>2. LimiterTypeOK'
    BY <1>1, <2>1 DEF LimiterInv, LimiterTypeOK
  <2>3. ASSUME NEW k \in Keys PROVE (WindowsSound(k) /\ BlockSound(k))'
    BY <1>1, <2>1, <2>3, OthersKept DEF LimiterInv
  <2> QED
    BY <2>2, <2>3 DEF LimiterInv
<1> QED
  BY <1>1, <1>2, <1>3, <1>4, RefusedKeeps, AdmittedKeeps, ForgetKeeps DEF LimiterNext

\* registerAttempt never lets more than 2 * Limit attempts of a key through in
\* the length of a window.
LEMMA LimitFollows == LimiterInv => WithinLimit
<1>1. SUFFICES ASSUME LimiterInv, NEW k \in Keys, NEW i \in DOMAIN passed[k],
                      i + 2 * Limit \in DOMAIN passed[k]
               PROVE  passed[k][i + 2 * Limit].at - passed[k][i].at >= Window
  BY DEF WithinLimit
<1> DEFINE p == passed[k]
<1>2. /\ p \in Seq(Attempt) /\ DOMAIN p = 1..Len(p) /\ Len(p) \in Nat
      /\ WindowsSound(k)
  BY <1>1, LenProperties DEF LimiterInv, LimiterTypeOK
<1>3. Limit \in Nat /\ Limit >= 1 /\ Window \in Nat
  BY RateLimitAssumption
<1>4. /\ i \in 1..Len(p) /\ i + Limit \in 1..Len(p) /\ i + 2 * Limit \in 1..Len(p)
      /\ (i + Limit) + Limit = i + 2 * Limit
  BY <1>1, <1>2, <1>3
<1>5. \A j \in 1..Len(p) : p[j].opened \in Nat /\ p[j].at \in Nat
  <2>1. ASSUME NEW j \in 1..Len(p) PROVE p[j] \in Attempt
    BY <1>2, <2>1, ElementOfSeq
  <2> QED
    BY <2>1 DEF Attempt
<1>6. /\ p[i].opened + Window <= p[i + Limit].opened
      /\ p[i + Limit].opened + Window <= p[i + 2 * Limit].opened
      /\ p[i].at < p[i].opened + Window
      /\ p[i + 2 * Limit].opened <= p[i + 2 * Limit].at
  BY <1>2, <1>4 DEF WindowsSound
<1> HIDE DEF p
<1>7. p[i + 2 * Limit].at - p[i].at >= Window
  <2>1. /\ p[i].opened \in Nat /\ p[i].at \in Nat
        /\ p[i + Limit].opened \in Nat
        /\ p[i + 2 * Limit].opened \in Nat /\ p[i + 2 * Limit].at \in Nat
    BY <1>4, <1>5
  <2> QED
    BY <1>3, <1>6, <2>1
<1> QED
  BY <1>7 DEF p

\* The time a caller is told to wait is enough, if a block lasts a window.
LEMMA BlockFollows == LimiterInv => BlockEnds
BY RateLimitAssumption
DEF LimiterInv, LimiterTypeOK, BlockSound, BlockEnds, Blocked, Counted, Fresh

\* In every behaviour of the limiter at most 2 * Limit attempts of a key pass
\* in the length of a window.
THEOREM LimiterHolds == LimiterSpec => []WithinLimit
<1>1. LimiterInv /\ [LimiterNext]_limiterVars => LimiterInv'
  BY LimiterInductive
<1> QED
  BY <1>1, LimiterStarts, LimitFollows, PTL DEF LimiterSpec

\* In every behaviour of the limiter a block that has been waited for is over.
THEOREM LimiterReopens == LimiterSpec => []BlockEnds
<1>1. LimiterInv /\ [LimiterNext]_limiterVars => LimiterInv'
  BY LimiterInductive
<1> QED
  BY <1>1, LimiterStarts, BlockFollows, PTL DEF LimiterSpec

-----------------------------------------------------------------------------
(* The accounts (Accounts).                                                *)

AccountsTypeOK ==
  /\ \A u \in users : u = [id |-> u.id, name |-> u.name, role |-> u.role]
  /\ boot \in [Gateways -> FixedIds \cup {"up"}]
  /\ found \in [Gateways -> {"unknown", "absent"}]
  /\ \A g \in Gateways : found[g] = "absent" => boot[g] \in FixedIds
  /\ request \in [Customers -> [step : {"idle", "create", "created"},
                                via : Gateways \cup {"none"}]]
  /\ answer \in [Customers -> {"none", "cut", "created", "exists", "error"}]
  /\ cut \subseteq Customers

\* Whose row is whose, and when somebody can have one.
RowSound(c) ==
  /\ \A u \in users : u.id = c =>
       /\ u.name = Wanted[c]
       /\ request[c].step = "created" \/ answer[c] = "created" \/ c \in cut
  /\ request[c].step = "created" \/ answer[c] = "created" =>
       [id |-> c, name |-> Wanted[c], role |-> "USER"] \in users
  /\ request[c].step # "idle" => answer[c] \in {"none", "cut"}
  /\ answer[c] \in {"exists", "error"} => \E u \in Named(Wanted[c]) : u.id # c \/ c \in cut

Agree == \A g, h \in Gateways : Configured[g] = Configured[h]
Kept(g, id) == [id |-> id, name |-> Configured[g][id], role |-> RoleOf(id)] \in users

\* What a process has ensured is stored, and a register call was let in by a
\* process that had ensured everything.
ReservedSound ==
  Agree =>
    /\ \A u \in users, g \in Gateways, id \in FixedIds :
         u.name = Configured[g][id] => u.id = id /\ u.role = RoleOf(id)
    /\ \A g \in Gateways : boot[g] # "admin-001" => Kept(g, "admin-001")
    /\ \A g \in Gateways : boot[g] = "up" => Kept(g, "customer-001")
    /\ \A c \in Customers : request[c].step = "create" =>
         \A g \in Gateways, id \in FixedIds : Kept(g, id)

AccountsInv ==
  /\ AccountsTypeOK
  /\ \A c \in Customers : RowSound(c)
  /\ ReservedSound

-----------------------------------------------------------------------------

\* AccountsInv holds before the first process starts.
LEMMA AccountsStart == Init => AccountsInv
BY DEF Init, Idle, AccountsInv, AccountsTypeOK, RowSound, ReservedSound, FixedIds

\* Steps that leave the accounts alone keep AccountsInv.
LEMMA AccountsUntouched == AccountsInv /\ UNCHANGED accountVars => AccountsInv'
BY DEF accountVars, AccountsInv, AccountsTypeOK, RowSound, ReservedSound, Kept, Named

\* Steps of a starting process that store nothing.
LEMMA BootMoves ==
  ASSUME AccountsInv, NEW g \in Gateways,
         NEW b \in FixedIds \cup {"up"}, NEW f \in {"unknown", "absent"}, At(g, b, f),
         f = "absent" => b \in FixedIds,
         UNCHANGED <<users, request, answer, cut>>,
         Agree => /\ b # "admin-001" => Kept(g, "admin-001")
                  /\ b = "up" => Kept(g, "customer-001")
  PROVE  AccountsInv'
<1>1. AccountsTypeOK'
  BY DEF At, AccountsInv, AccountsTypeOK
<1>2. ASSUME NEW c \in Customers PROVE RowSound(c)'
  <2>1. RowSound(c)
    BY DEF AccountsInv
  <2> QED
    BY <2>1 DEF RowSound, Named
<1>3. ReservedSound'
  <2>1. \A h \in Gateways : boot'[h] = IF h = g THEN b ELSE boot[h]
    BY DEF At, AccountsInv, AccountsTypeOK
  <2>2. ReservedSound
    BY DEF AccountsInv
  <2> QED
    BY <2>1, <2>2 DEF ReservedSound, Kept, Agree
<1> QED
  BY <1>1, <1>2, <1>3 DEF AccountsInv

\* findByUsername in ensureUser.
LEMMA EnsureFindKeeps ==
  ASSUME AccountsInv, NEW g \in Gateways, EnsureFind(g) PROVE AccountsInv'
<1>1. boot[g] \in FixedIds
  BY DEF EnsureFind
<1>2. CASE Named(Configured[g][boot[g]]) = {}
  BY <1>1, <1>2, BootMoves DEF EnsureFind, AccountsInv, ReservedSound, FixedIds
<1>3. CASE Named(Configured[g][boot[g]]) # {}
  <2>1. Agree => Kept(g, boot[g])
    <3>1. SUFFICES ASSUME Agree PROVE Kept(g, boot[g])
      OBVIOUS
    <3>2. PICK u \in users : u.name = Configured[g][boot[g]]
      BY <1>3 DEF Named
    <3>3. u.id = boot[g] /\ u.role = RoleOf(boot[g])
      BY <1>1, <3>1, <3>2 DEF AccountsInv, ReservedSound
    <3>4. u = [id |-> u.id, name |-> u.name, role |-> u.role]
      BY DEF AccountsInv, AccountsTypeOK
    <3> QED
      BY <3>2, <3>3, <3>4 DEF Kept
  <2> DEFINE b == IF boot[g] = "admin-001" THEN "customer-001" ELSE "up"
  <2>2. At(g, b, "unknown") /\ UNCHANGED <<users, request, answer, cut>>
    BY <1>3 DEF EnsureFind, Ensured
  <2>3. Agree => Kept(g, "admin-001") /\ (b = "up" => Kept(g, "customer-001"))
    BY <1>1, <2>1 DEF FixedIds, AccountsInv, ReservedSound
  <2>4. b \in FixedIds \cup {"up"}
    BY DEF FixedIds
  <2> HIDE DEF b
  <2> QED
    BY <2>2, <2>3, <2>4, BootMoves
<1> QED
  BY <1>2, <1>3

\* createUser in ensureUser.
LEMMA EnsureCreateKeeps ==
  ASSUME AccountsInv, NEW g \in Gateways, EnsureCreate(g)
  PROVE  AccountsInv'
<1>0. PICK id \in FixedIds : id = boot[g]
  BY DEF EnsureCreate, AccountsInv, AccountsTypeOK
<1> DEFINE user == [id |-> id, name |-> Configured[g][id], role |-> RoleOf(id)]
           b == IF id = "admin-001" THEN "customer-001" ELSE "up"
<1>1. /\ users' = users \cup {user} /\ At(g, b, "unknown")
      /\ UNCHANGED <<request, answer, cut>>
  BY <1>0 DEF EnsureCreate, Insert, Ensured
<1>2. user.id = id /\ user.name = Configured[g][id] /\ user.role = RoleOf(id)
  OBVIOUS
<1>3. b \in FixedIds \cup {"up"}
  BY DEF FixedIds
<1>4. AccountsTypeOK'
  BY <1>1, <1>2, <1>3 DEF At, AccountsInv, AccountsTypeOK
<1>5. ASSUME NEW c \in Customers PROVE RowSound(c)'
  <2>1. user.id # c
    BY <1>2, AccountsAssumption
  <2>2. RowSound(c)
    BY DEF AccountsInv
  <2> QED
    BY <1>1, <2>1, <2>2 DEF RowSound, Named
<1>6. ReservedSound'
  <2>1. SUFFICES ASSUME Agree PROVE ReservedSound'
    BY DEF ReservedSound
  <2>2. ASSUME NEW h \in Gateways, NEW i \in FixedIds, user.name = Configured[h][i]
        PROVE  i = id
    BY <1>2, <2>1, <2>2, AccountsAssumption DEF Agree, FixedIds
  <2>3. \A u \in users', h \in Gateways, i \in FixedIds :
          u.name = Configured[h][i] => u.id = i /\ u.role = RoleOf(i)
    BY <1>1, <1>2, <2>1, <2>2 DEF AccountsInv, ReservedSound
  <2>4. \A h \in Gateways, i \in FixedIds : Kept(h, i) => Kept(h, i)'
    BY <1>1 DEF Kept
  <2>5. Kept(g, id)'
    BY <1>1 DEF Kept
  <2>6. \A h \in Gateways : boot'[h] # "admin-001" => Kept(h, "admin-001")'
    BY <1>0, <1>1, <2>1, <2>4, <2>5 DEF At, AccountsInv, AccountsTypeOK, ReservedSound, FixedIds
  <2>7. \A h \in Gateways : boot'[h] = "up" => Kept(h, "customer-001")'
    BY <1>0, <1>1, <2>1, <2>4, <2>5 DEF At, AccountsInv, AccountsTypeOK, ReservedSound, FixedIds
  <2>8. \A c \in Customers : request'[c].step = "create" =>
          \A h \in Gateways, i \in FixedIds : Kept(h, i)'
    BY <1>1, <2>1, <2>4 DEF AccountsInv, ReservedSound
  <2> QED
    BY <2>3, <2>6, <2>7, <2>8 DEF ReservedSound
<1> QED
  BY <1>4, <1>5, <1>6 DEF AccountsInv

\* The guard and findByUsername of register.
LEMMA RegisterKeeps ==
  ASSUME AccountsInv, NEW c \in Customers, NEW g \in Gateways, Register(c, g)
  PROVE  AccountsInv'
<1>1. /\ boot[g] = "up" /\ request[c].step = "idle" /\ answer[c] \in {"none", "cut"}
      /\ UNCHANGED <<users, boot, found, cut>>
  BY DEF Register
<1>2. ASSUME NEW d \in Customers, d # c
      PROVE  request'[d] = request[d] /\ answer'[d] = answer[d]
  BY <1>2 DEF Register, Goes, Answered, AccountsInv, AccountsTypeOK
<1>3. AccountsTypeOK'
  BY DEF Register, Goes, Answered, AccountsInv, AccountsTypeOK
<1>4. ASSUME NEW d \in Customers, d # c PROVE RowSound(d)'
  BY <1>1, <1>2, <1>4 DEF AccountsInv, RowSound, Named
<1>5. CASE Named(Wanted[c]) = {}
  <2>1. request'[c].step = "create" /\ answer'[c] = answer[c]
    BY <1>5 DEF Register, Goes, AccountsInv, AccountsTypeOK
  <2>2. RowSound(c)'
    BY <1>1, <2>1 DEF AccountsInv, RowSound, Named
  <2>3. Agree => \A h \in Gateways, i \in FixedIds : Kept(h, i)
    BY <1>1 DEF AccountsInv, ReservedSound, Kept, Agree, FixedIds
  <2>4. ReservedSound'
    BY <1>1, <1>2, <2>3 DEF AccountsInv, ReservedSound, Kept, Agree
  <2> QED
    BY <1>3, <1>4, <2>2, <2>4 DEF AccountsInv
<1>6. CASE Named(Wanted[c]) # {}
  <2>1. request'[c].step = "idle" /\ answer'[c] = "exists"
    BY <1>6 DEF Register, Goes, Answered, AccountsInv, AccountsTypeOK
  <2>2. \E u \in Named(Wanted[c]) : u.id # c \/ c \in cut
    BY <1>1, <1>6 DEF AccountsInv, RowSound, Named
  <2>3. RowSound(c)'
    BY <1>1, <2>1, <2>2 DEF AccountsInv, RowSound, Named
  <2>4. ReservedSound'
    BY <1>1, <1>2, <2>1 DEF AccountsInv, ReservedSound, Kept, Agree
  <2> QED
    BY <1>3, <1>4, <2>3, <2>4 DEF AccountsInv
<1> QED
  BY <1>5, <1>6

\* createUser in register, when nothing clashes.
LEMMA RegisterCreateKeeps ==
  ASSUME AccountsInv, NEW c \in Customers, RegisterCreate(c) PROVE AccountsInv'
<1> DEFINE user == [id |-> c, name |-> Wanted[c], role |-> "USER"]
<1>1. /\ request[c].step = "create" /\ ~Clashes(c, Wanted[c])
      /\ users' = users \cup {user} /\ UNCHANGED <<boot, found, answer, cut>>
      /\ request' = [request EXCEPT ![c] = [step |-> "created", via |-> request[c].via]]
  BY DEF RegisterCreate, Insert, Goes
<1>2. user.id = c /\ user.name = Wanted[c] /\ user.role = "USER"
  OBVIOUS
<1>3. AccountsTypeOK'
  BY <1>1, <1>2 DEF AccountsInv, AccountsTypeOK
<1>4. ASSUME NEW d \in Customers PROVE RowSound(d)'
  BY <1>1, <1>2, <1>4 DEF AccountsInv, AccountsTypeOK, RowSound, Named
<1>5. ReservedSound'
  <2>1. SUFFICES ASSUME Agree PROVE ReservedSound'
    BY DEF ReservedSound
  <2>2. \A h \in Gateways, i \in FixedIds : Kept(h, i)
    BY <1>1, <2>1 DEF AccountsInv, ReservedSound
  <2>3. \A h \in Gateways, i \in FixedIds : user.name # Configured[h][i]
    BY <1>1, <1>2, <2>2 DEF Kept, Clashes
  <2>4. \A h \in Gateways, i \in FixedIds : Kept(h, i)'
    BY <1>1, <2>2 DEF Kept
  <2>5. \A u \in users', h \in Gateways, i \in FixedIds :
          u.name = Configured[h][i] => u.id = i /\ u.role = RoleOf(i)
    BY <1>1, <2>1, <2>3 DEF AccountsInv, ReservedSound
  <2> QED
    BY <2>4, <2>5 DEF ReservedSound, FixedIds
<1> QED
  BY <1>3, <1>4, <1>5 DEF AccountsInv

\* createUser in register, when somebody was faster.
LEMMA RegisterFailsKeeps ==
  ASSUME AccountsInv, NEW c \in Customers, RegisterFails(c) PROVE AccountsInv'
<1>1. /\ request[c].step = "create" /\ Clashes(c, Wanted[c])
      /\ UNCHANGED <<users, boot, found, cut>>
      /\ request' = [request EXCEPT ![c] = [step |-> "idle", via |-> "none"]]
      /\ answer' = [answer EXCEPT ![c] = "error"]
  BY DEF RegisterFails, Answered, Goes
<1>2. AccountsTypeOK'
  BY <1>1 DEF AccountsInv, AccountsTypeOK
<1>3. \E u \in Named(Wanted[c]) : u.id # c \/ c \in cut
  <2>1. PICK u \in users : u.id = c \/ u.name = Wanted[c]
    BY <1>1 DEF Clashes
  <2>2. u.id = c => u.name = Wanted[c] /\ c \in cut
    BY <1>1, <2>1 DEF AccountsInv, RowSound
  <2> QED
    BY <2>1, <2>2 DEF Named
<1>4. ASSUME NEW d \in Customers PROVE RowSound(d)'
  BY <1>1, <1>3, <1>4 DEF AccountsInv, AccountsTypeOK, RowSound, Named
<1>5. ReservedSound'
  BY <1>1 DEF AccountsInv, AccountsTypeOK, ReservedSound, Kept, Agree
<1> QED
  BY <1>2, <1>4, <1>5 DEF AccountsInv

\* register answers.
LEMMA RegisterAnswerKeeps ==
  ASSUME AccountsInv, NEW c \in Customers, RegisterAnswer(c) PROVE AccountsInv'
<1>1. /\ request[c].step = "created" /\ UNCHANGED <<users, boot, found, cut>>
      /\ request' = [request EXCEPT ![c] = [step |-> "idle", via |-> "none"]]
      /\ answer' = [answer EXCEPT ![c] = "created"]
  BY DEF RegisterAnswer, Answered, Goes
<1>2. AccountsTypeOK'
  BY <1>1 DEF AccountsInv, AccountsTypeOK
<1>3. ASSUME NEW d \in Customers PROVE RowSound(d)'
  BY <1>1, <1>3 DEF AccountsInv, AccountsTypeOK, RowSound, Named
<1>4. ReservedSound'
  BY <1>1 DEF AccountsInv, AccountsTypeOK, ReservedSound, Kept, Agree
<1> QED
  BY <1>2, <1>3, <1>4 DEF AccountsInv

\* A process dies with the calls it serves.
LEMMA CrashKeeps ==
  ASSUME AccountsInv, NEW g \in Gateways, Crash(g) PROVE AccountsInv'
<1> DEFINE gone == {c \in Customers : request[c].via = g}
<1>1. /\ UNCHANGED users
      /\ boot' = [boot EXCEPT ![g] = "admin-001"] /\ found' = [found EXCEPT ![g] = "unknown"]
      /\ request' = [c \in Customers |-> IF c \in gone THEN Idle ELSE request[c]]
      /\ answer' = [c \in Customers |-> IF c \in gone THEN "cut" ELSE answer[c]]
      /\ cut' = cut \cup gone
  BY DEF Crash, At
<1>2. AccountsTypeOK'
  BY <1>1 DEF AccountsInv, AccountsTypeOK, Idle, FixedIds
<1>3. ASSUME NEW c \in Customers PROVE RowSound(c)'
  <2>1. CASE c \in gone
    BY <1>1, <1>3, <2>1 DEF AccountsInv, RowSound, Named, Idle
  <2>2. CASE c \notin gone
    BY <1>1, <1>3, <2>2 DEF AccountsInv, RowSound, Named
  <2> QED
    BY <2>1, <2>2
<1>4. ReservedSound'
  BY <1>1 DEF AccountsInv, AccountsTypeOK, ReservedSound, Kept, Agree, Idle
<1> QED
  BY <1>2, <1>3, <1>4 DEF AccountsInv

\* Every step of the gateway keeps AccountsInv, and is a step of the limiter
\* or leaves it alone.
LEMMA AccountsInductive ==
  AccountsInv /\ [Next]_vars => AccountsInv' /\ [LimiterNext]_limiterVars
<1>1. SUFFICES ASSUME AccountsInv, [Next]_vars
               PROVE  AccountsInv' /\ [LimiterNext]_limiterVars
  OBVIOUS
<1>2. CASE UNCHANGED vars
  BY <1>1, <1>2, AccountsUntouched DEF vars
<1>3. ASSUME NEW g \in Gateways, Boot(g) PROVE AccountsInv' /\ UNCHANGED limiterVars
  <2>1. CASE EnsureFind(g)
    BY <1>1, <2>1, EnsureFindKeeps DEF EnsureFind
  <2>2. CASE EnsureCreate(g)
    BY <1>1, <2>2, EnsureCreateKeeps DEF EnsureCreate
  <2>3. CASE EnsureFails(g)
    BY <1>1, <2>3, BootMoves DEF EnsureFails, FixedIds
  <2> QED
    BY <1>3, <2>1, <2>2, <2>3 DEF Boot
<1>4. ASSUME NEW g \in Gateways, AttemptInVain(g) PROVE AccountsInv' /\ LimiterNext
  BY <1>1, <1>4, AccountsUntouched, AccountsAssumption DEF AttemptInVain, LimiterNext
<1>5. ASSUME NEW g \in Gateways, Crash(g) PROVE AccountsInv' /\ LimiterNext
  BY <1>1, <1>5, CrashKeeps, AccountsAssumption DEF Crash, LimiterNext
<1>6. ASSUME NEW c \in Customers, RegisterCreate(c) \/ RegisterFails(c) \/ RegisterAnswer(c)
      PROVE  AccountsInv' /\ UNCHANGED limiterVars
  BY <1>1, <1>6, RegisterCreateKeeps, RegisterFailsKeeps, RegisterAnswerKeeps
  DEF RegisterCreate, RegisterFails, RegisterAnswer
<1>7. ASSUME NEW c \in Customers, NEW g \in Gateways, Register(c, g)
      PROVE  AccountsInv' /\ LimiterNext
  BY <1>1, <1>7, RegisterKeeps, AccountsAssumption DEF Register, LimiterNext
<1>8. CASE Tick /\ UNCHANGED accountVars
  BY <1>1, <1>8, AccountsUntouched DEF LimiterNext
<1> QED
  BY <1>1, <1>2, <1>3, <1>4, <1>5, <1>6, <1>7, <1>8 DEF Next

-----------------------------------------------------------------------------

\* register answers the truth, whatever else is registered or ensured between
\* its statements, and whichever process dies.
THEOREM AnswersHold == Spec => []AnswerTrue
<1>1. AccountsInv => AnswerTrue
  BY DEF AccountsInv, RowSound, AnswerTrue
<1>2. AccountsInv => AccountsTypeOK
  BY DEF AccountsInv
<1> QED
  BY <1>1, <1>2, AccountsStart, AccountsInductive, PTL DEF Spec

\* Nobody registers a configured name while the processes agree on them.
THEOREM NamesReserved == Spec => []ReservedNames
<1>1. AccountsInv => ReservedNames
  BY DEF AccountsInv, ReservedSound, ReservedNames, Agree
<1>2. AccountsInv => AccountsTypeOK
  BY DEF AccountsInv
<1> QED
  BY <1>1, <1>2, AccountsStart, AccountsInductive, PTL DEF Spec

\* The gateway's routes use the limiter as LimiterSpec says.
LEMMA UsesLimiter == Spec => LimiterSpec
<1>1. Init => LimiterInit
  BY DEF Init
<1>2. AccountsInv => AccountsTypeOK
  BY DEF AccountsInv
<1> QED
  BY <1>1, <1>2, AccountsStart, AccountsInductive, PTL DEF Spec, LimiterSpec

\* Behind register, too, at most 2 * Limit attempts pass in a window's length.
THEOREM LimitHolds == Spec => []WithinLimit
BY UsesLimiter, LimiterHolds, PTL

\* Behind register, too, a block that has been waited for is over.
THEOREM BlockHolds == Spec => []BlockEnds
BY UsesLimiter, LimiterReopens, PTL

-----------------------------------------------------------------------------
(* The idempotency keys.                                                    *)

Steps == {"claim", "select", "run", "complete", "release", "done"}
Replies == Requests \cup {"none", "error", "mismatch", "processing"}

KeyType ==
  /\ \/ row = NoRow \/ row = Processing(row.hash)
     \/ row = Completed(row.hash, row.response) /\ row.response \in Requests
  /\ step \in [Requests -> Steps]
  /\ replies \in [Requests -> Replies]
  /\ effects \subseteq Requests

\* The request holds the key: it runs the handler or settles the row after it.
Holds(r) == step[r] \in {"run", "complete", "release"}

\* One request holds the key at a time, and its row is there.
OneHolder ==
  /\ \A r, s \in Requests : Holds(r) /\ Holds(s) => r = s
  /\ \A r \in Requests : Holds(r) => row # NoRow /\ row.hash = Payload[r]
  /\ \A r \in Requests : step[r] \in {"run", "complete"} => row.status = "PROCESSING"

\* What took effect and is not to be retried: nothing while the key may be
\* claimed or released, and afterwards the holder's run alone.
OneEffect ==
  /\ row = NoRow => effects \subseteq undone
  /\ \A r \in Requests :
       /\ step[r] = "run" => effects \subseteq undone
       /\ step[r] = "complete" => effects \ undone \subseteq {r}
       /\ step[r] = "release" /\ row.status = "PROCESSING" => effects \subseteq undone
  /\ \A r, s \in effects \ undone : r = s

\* Every response that was given is the one that is stored.
OneResponse ==
  /\ row.status = "COMPLETED" => Payload[row.response] = row.hash
  /\ \A r \in Requests : replies[r] \in Requests =>
       row.status = "COMPLETED" /\ replies[r] = row.response /\ Payload[r] = row.hash

KeyInv == KeyType /\ (gap = {} => OneHolder /\ OneEffect /\ OneResponse)

-----------------------------------------------------------------------------

\* The three kinds of row.
LEMMA KeyRows ==
  /\ NoRow.status = "NONE"
  /\ \A h : Processing(h).status = "PROCESSING" /\ Processing(h).hash = h
  /\ \A h, r : /\ Completed(h, r).status = "COMPLETED" /\ Completed(h, r).hash = h
               /\ Completed(h, r).response = r
BY DEF NoRow, Processing, Completed

\* Nothing has been claimed yet.
LEMMA KeyStarts == KeyInit => KeyInv
BY IdempotencyAssumption DEF KeyInit, KeyInv, KeyType, OneHolder, OneEffect, OneResponse, Holds, NoRow, Steps, Replies

\* What a request is told is one of the answers.
LEMMA Told ==
  ASSUME KeyType, NEW r \in Requests, NEW a \in Replies, Reply(r, a)
  PROVE  /\ step' \in [Requests -> Steps] /\ replies' \in [Requests -> Replies]
         /\ step'[r] = "done" /\ replies'[r] = a
         /\ \A s \in Requests \ {r} : step'[s] = step[s] /\ replies'[s] = replies[s]
BY DEF Reply, Goto, KeyType, Steps

\* A step of a request leaves the others where they are.
LEMMA Moved ==
  ASSUME KeyType, NEW r \in Requests, NEW s \in Steps, Goto(r, s)
  PROVE  /\ step' \in [Requests -> Steps] /\ step'[r] = s
         /\ \A q \in Requests \ {r} : step'[q] = step[q]
BY DEF Goto, KeyType

\* The first INSERT makes a holder of its request; later ones meet the row.
LEMMA ClaimInsertKeeps ==
  ASSUME KeyInv, NEW r \in Requests, ClaimInsert(r) PROVE KeyInv'
<1>1. UNCHANGED <<replies, effects, undone, gap>> /\ step[r] = "claim" /\ KeyType
  BY DEF ClaimInsert, KeyInv
<1>2. CASE row = NoRow
  <2>1. row' = Processing(Payload[r]) /\ Goto(r, "run")
    BY <1>2 DEF ClaimInsert
  <2>2. /\ step' \in [Requests -> Steps] /\ step'[r] = "run"
        /\ \A q \in Requests \ {r} : step'[q] = step[q]
    BY <1>1, <2>1, Moved DEF Steps
  <2> QED
    BY <1>1, <1>2, <2>1, <2>2, KeyRows
       DEF KeyInv, KeyType, OneHolder, OneEffect, OneResponse, Holds
<1>3. CASE row # NoRow
  <2>1. UNCHANGED row /\ Goto(r, "select")
    BY <1>3 DEF ClaimInsert
  <2>2. /\ step' \in [Requests -> Steps] /\ step'[r] = "select"
        /\ \A q \in Requests \ {r} : step'[q] = step[q]
    BY <1>1, <2>1, Moved DEF Steps
  <2> QED
    BY <1>1, <1>3, <2>1, <2>2
       DEF KeyInv, KeyType, OneHolder, OneEffect, OneResponse, Holds
<1> QED
  BY <1>2, <1>3

\* The request that finds no row is the gap.
LEMMA SelectNothingKeeps ==
  ASSUME KeyInv, NEW r \in Requests, SelectNothing(r) PROVE KeyInv'
<1>1. step' \in [Requests -> Steps]
  BY Moved DEF SelectNothing, KeyInv, Steps
<1> QED
  BY <1>1 DEF SelectNothing, KeyInv, KeyType

\* A row answers with its own response, to its own payload.
LEMMA SelectRowKeeps ==
  ASSUME KeyInv, NEW r \in Requests, SelectRow(r) PROVE KeyInv'
<1>1. KeyType /\ row # NoRow /\ step[r] = "select" /\ UNCHANGED <<row, effects, undone, gap>>
  BY DEF SelectRow, KeyInv
<1>2. PICK a \in Replies :
        /\ Reply(r, a)
        /\ a \in Requests => row.status = "COMPLETED" /\ a = row.response /\ row.hash = Payload[r]
  <2>1. Reply(r, SelectAnswer(r))
    BY DEF SelectRow
  <2>2. row.status = "COMPLETED" => row.response \in Requests
    BY <1>1, KeyRows DEF KeyType
  <2> QED
    BY <2>1, <2>2, IdempotencyAssumption DEF SelectAnswer, Replies
<1>3. /\ step' \in [Requests -> Steps] /\ replies' \in [Requests -> Replies]
      /\ step'[r] = "done" /\ replies'[r] = a
      /\ \A s \in Requests \ {r} : step'[s] = step[s] /\ replies'[s] = replies[s]
  BY <1>1, <1>2, Told
<1> QED
  BY <1>1, <1>2, <1>3 DEF KeyInv, KeyType, OneHolder, OneEffect, OneResponse, Holds

\* The run of the holder is the only one that took effect.
LEMMA HandlerReturnsKeeps ==
  ASSUME KeyInv, NEW r \in Requests, HandlerReturns(r) PROVE KeyInv'
<1>1. /\ KeyType /\ step[r] = "run" /\ effects' = effects \cup {r}
      /\ UNCHANGED <<row, replies, undone, gap>>
  BY DEF HandlerReturns, KeyInv
<1>2. /\ step' \in [Requests -> Steps] /\ step'[r] = "complete"
      /\ \A q \in Requests \ {r} : step'[q] = step[q]
  BY <1>1, Moved DEF HandlerReturns, Steps
<1> QED
  BY <1>1, <1>2 DEF KeyInv, KeyType, OneHolder, OneEffect, OneResponse, Holds

\* A run that threw is to be retried.
LEMMA HandlerThrowsKeeps ==
  ASSUME KeyInv, NEW r \in Requests, HandlerThrows(r) PROVE KeyInv'
<1>1. /\ KeyType /\ step[r] = "run" /\ effects' \subseteq effects \cup {r}
      /\ r \in effects' => r \in undone'
      /\ undone \subseteq undone' /\ UNCHANGED <<row, replies, gap>>
  BY DEF HandlerThrows, KeyInv
<1>2. /\ step' \in [Requests -> Steps] /\ step'[r] = "release"
      /\ \A q \in Requests \ {r} : step'[q] = step[q]
  BY <1>1, Moved DEF HandlerThrows, Steps
<1>3. ASSUME gap = {} PROVE effects' \subseteq undone'
  BY <1>1, <1>3 DEF KeyInv, OneEffect
<1> QED
  BY <1>1, <1>2, <1>3 DEF KeyInv, KeyType, OneHolder, OneEffect, OneResponse, Holds

\* The row of a holder becomes COMPLETED with the holder's response.
LEMMA Stored ==
  ASSUME KeyInv, gap = {}, NEW r \in Requests, step[r] = "complete"
  PROVE  /\ CompletedRow(r) = Completed(Payload[r], r)
         /\ \A s \in Requests : replies[s] \notin Requests
         /\ \A s \in Requests \ {r} : ~Holds(s)
         /\ effects \ undone \subseteq {r}
BY KeyRows DEF KeyInv, OneHolder, OneEffect, OneResponse, Holds, CompletedRow

\* UPDATE keeps the row well formed whoever it belongs to.
LEMMA CompletedTyped ==
  ASSUME KeyType, NEW r \in Requests, row' = CompletedRow(r)
  PROVE  \/ row' = NoRow
         \/ row' = Completed(row'.hash, row'.response) /\ row'.response \in Requests
BY KeyRows DEF CompletedRow

\* The holder's response is stored and told.
LEMMA CompleteKeeps ==
  ASSUME KeyInv, NEW r \in Requests, Complete(r) PROVE KeyInv'
<1>1. /\ KeyType /\ step[r] = "complete" /\ row' = CompletedRow(r) /\ Reply(r, r)
      /\ UNCHANGED <<effects, undone, gap>>
  BY DEF Complete, KeyInv
<1>2. /\ step' \in [Requests -> Steps] /\ replies' \in [Requests -> Replies]
      /\ step'[r] = "done" /\ replies'[r] = r
      /\ \A s \in Requests \ {r} : step'[s] = step[s] /\ replies'[s] = replies[s]
  BY <1>1, Told DEF Replies
<1>3. KeyType'
  BY <1>1, <1>2, CompletedTyped DEF KeyType
<1>4. ASSUME gap = {} PROVE (OneHolder /\ OneEffect /\ OneResponse)'
  <2>1. /\ row' = Completed(Payload[r], r)
        /\ \A s \in Requests : replies[s] \notin Requests
        /\ \A s \in Requests \ {r} : ~Holds(s)
        /\ effects \ undone \subseteq {r}
    BY <1>1, <1>4, Stored
  <2>2. \A s \in Requests : ~Holds(s)'
    BY <1>2, <2>1 DEF Holds
  <2>3. row'.status = "COMPLETED" /\ row'.hash = Payload[r] /\ row'.response = r /\ row' # NoRow
    BY <2>1, KeyRows
  <2>4. OneHolder'
    BY <2>2 DEF OneHolder, Holds
  <2>5. OneEffect'
    BY <1>1, <2>1, <2>2, <2>3 DEF OneEffect, Holds
  <2>6. OneResponse'
    BY <1>2, <2>1, <2>3 DEF OneResponse
  <2> QED
    BY <2>4, <2>5, <2>6
<1> QED
  BY <1>1, <1>3, <1>4 DEF KeyInv

\* When the UPDATE fails the row may hold the response or not; only in the
\* second case may the run be repeated.
LEMMA CompleteFailsKeeps ==
  ASSUME KeyInv, NEW r \in Requests, CompleteFails(r) PROVE KeyInv'
<1>1. /\ KeyType /\ step[r] = "complete" /\ UNCHANGED <<replies, effects, gap>>
      /\ \/ row' = CompletedRow(r) /\ UNCHANGED undone
         \/ UNCHANGED row /\ undone' = undone \cup {r}
  BY DEF CompleteFails, KeyInv
<1>2. /\ step' \in [Requests -> Steps] /\ step'[r] = "release"
      /\ \A q \in Requests \ {r} : step'[q] = step[q]
  BY <1>1, Moved DEF CompleteFails, Steps
<1>3. KeyType'
  BY <1>1, <1>2, CompletedTyped DEF KeyType
<1>4. ASSUME gap = {} PROVE (OneHolder /\ OneEffect /\ OneResponse)'
  <2>1. /\ CompletedRow(r) = Completed(Payload[r], r)
        /\ \A s \in Requests : replies[s] \notin Requests
        /\ \A s \in Requests \ {r} : ~Holds(s)
        /\ effects \ undone \subseteq {r}
    BY <1>1, <1>4, Stored
  <2>2. \A s \in Requests \ {r} : ~Holds(s)'
    BY <1>2, <2>1 DEF Holds
  <2>3. CASE row' = CompletedRow(r) /\ UNCHANGED undone
    <3>1. row'.status = "COMPLETED" /\ row'.hash = Payload[r] /\ row'.response = r /\ row' # NoRow
      BY <2>1, <2>3, KeyRows
    <3>2. OneHolder'
      BY <1>2, <2>2, <3>1 DEF OneHolder, Holds
    <3>3. OneEffect'
      BY <1>1, <1>2, <2>1, <2>2, <2>3, <3>1 DEF OneEffect, Holds
    <3> QED
      BY <1>1, <2>1, <3>1, <3>2, <3>3 DEF OneResponse
  <2>4. CASE UNCHANGED row /\ undone' = undone \cup {r}
    BY <1>1, <1>2, <1>4, <2>1, <2>2, <2>4
       DEF KeyInv, OneHolder, OneEffect, OneResponse, Holds
  <2> QED
    BY <1>1, <2>3, <2>4
<1> QED
  BY <1>1, <1>3, <1>4 DEF KeyInv

\* Only a PROCESSING row goes, and then nothing that counts took effect.
LEMMA ReleaseKeeps ==
  ASSUME KeyInv, NEW r \in Requests, Release(r) \/ ReleaseFails(r) PROVE KeyInv'
<1>1. /\ KeyType /\ step[r] = "release" /\ UNCHANGED <<effects, undone, gap>>
      /\ \/ row' = row
         \/ row.status = "PROCESSING" /\ row' = NoRow
      /\ Reply(r, "error")
  BY DEF Release, ReleaseFails, ReleasedRow, KeyInv
<1>2. /\ step' \in [Requests -> Steps] /\ replies' \in [Requests -> Replies]
      /\ step'[r] = "done" /\ replies'[r] = "error"
      /\ \A s \in Requests \ {r} : step'[s] = step[s] /\ replies'[s] = replies[s]
  BY <1>1, Told DEF Replies
<1>3. "error" \notin Requests
  BY IdempotencyAssumption
<1>4. CASE row' = row
  BY <1>1, <1>2, <1>3, <1>4 DEF KeyInv, KeyType, OneHolder, OneEffect, OneResponse, Holds
<1>5. CASE row.status = "PROCESSING" /\ row' = NoRow
  BY <1>1, <1>2, <1>3, <1>5, KeyRows DEF KeyInv, KeyType, OneHolder, OneEffect, OneResponse, Holds
<1> QED
  BY <1>1, <1>4, <1>5

\* After a restart the row stays as it is, and nobody holds the key.
LEMMA KeyCrashKeeps ==
  ASSUME KeyInv, KeyCrash PROVE KeyInv'
<1>1. /\ KeyType /\ UNCHANGED <<row, effects, undone, gap>>
      /\ \A r \in Requests :
           /\ step'[r] = IF step[r] \notin {"claim", "done"} THEN "done" ELSE step[r]
           /\ replies'[r] = IF step[r] \notin {"claim", "done"} THEN "error" ELSE replies[r]
      /\ step' \in [Requests -> Steps] /\ replies' \in [Requests -> Replies]
  BY DEF KeyCrash, KeyInv, KeyType, Steps, Replies
<1>2. \A r \in Requests : ~Holds(r)' /\ (replies'[r] \in Requests => replies'[r] = replies[r])
  BY <1>1, IdempotencyAssumption DEF Holds
<1> QED
  BY <1>1, <1>2 DEF KeyInv, KeyType, OneHolder, OneEffect, OneResponse, Holds

\* KeyInv is inductive.
LEMMA KeyInductive == KeyInv /\ [KeyNext]_keyVars => KeyInv'
<1>1. SUFFICES ASSUME KeyInv, [KeyNext]_keyVars PROVE KeyInv'
  OBVIOUS
<1>2. CASE UNCHANGED keyVars
  BY <1>1, <1>2 DEF keyVars, KeyInv, KeyType, OneHolder, OneEffect, OneResponse, Holds
<1>3. ASSUME NEW r \in Requests, Execute(r) PROVE KeyInv'
  BY <1>1, <1>3, ClaimInsertKeeps, SelectNothingKeeps, SelectRowKeeps, HandlerReturnsKeeps,
     CompleteKeeps, ReleaseKeeps DEF Execute
<1>4. ASSUME NEW r \in Requests, HandlerThrows(r) \/ CompleteFails(r) \/ ReleaseFails(r)
      PROVE  KeyInv'
  BY <1>1, <1>4, HandlerThrowsKeeps, CompleteFailsKeeps, ReleaseKeeps
<1> QED
  BY <1>1, <1>2, <1>3, <1>4, KeyCrashKeeps DEF KeyNext

\* So it always holds.
THEOREM KeysAreSound == KeySpec => []KeyInv
BY KeyStarts, KeyInductive, PTL DEF KeySpec

\* At most one run of the handler takes effect without its caller being told
\* of an error that it may retry, unless a request claimed without a row.
THEOREM HandlerRunsOnce == KeySpec => []EffectOnce
<1>1. KeyInv => EffectOnce
  BY DEF KeyInv, OneEffect, EffectOnce
<1> QED
  BY <1>1, KeysAreSound, PTL

\* Everybody who gets a response gets the same, which was made for the payload
\* that they sent, unless a request claimed without a row.
THEOREM ReplaysAreFaithful == KeySpec => []ReplayFaithful
<1>1. KeyInv => ReplayFaithful
  BY DEF KeyInv, OneResponse, ReplayFaithful
<1> QED
  BY <1>1, KeysAreSound, PTL

=============================================================================
