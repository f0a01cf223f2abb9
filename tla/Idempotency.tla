---------------------------- MODULE Idempotency ----------------------------
(***************************************************************************)
(* The gateway's idempotency keys: IdempotencyService.execute around the   *)
(* handlers of the order and payment routes, and the rows of               *)
(* gateway_idempotency_keys behind it.                                     *)
(*                                                                         *)
(* The model follows one key in one route and user scope: rows of other    *)
(* keys are never touched.  Each statement is a transaction of its own, so *)
(* claim is two steps when its INSERT meets a row.  A response is named by *)
(* the request whose run of the handler produced it, and Payload[r] stands *)
(* for the hash of r's payload.                                            *)
(***************************************************************************)
EXTENDS Integers, FiniteSets

CONSTANTS Requests,   \* requests that carry the key
          Payload,    \* the payload of each
          MaxFaults   \* bound on failing handlers and statements, and crashes

\* A response, named by a request, is told apart from what else a request gets.
ASSUME IdempotencyAssumption ==
  /\ MaxFaults \in Nat
  /\ Requests \cap {"none", "error", "mismatch", "processing"} = {}

VARIABLES
  row,       \* the key's row, or NoRow
  step,      \* where each request is in execute
  replies,   \* what the request got: the run whose response it is, or an error
  effects,   \* requests whose run of the handler took effect
  undone,    \* history: those of them that were released, not completed
  gap,       \* history: requests that claimed without a row
  crashed,   \* history: whether a key may have been left PROCESSING
  faults     \* number of faults so far

keyVars == <<row, step, replies, effects, undone, gap, crashed, faults>>

NoRow == [status |-> "NONE"]
Processing(hash) == [status |-> "PROCESSING", hash |-> hash]
Completed(hash, r) == [status |-> "COMPLETED", hash |-> hash, response |-> r]

KeyInit ==
  /\ row = NoRow
  /\ step = [r \in Requests |-> "claim"]
  /\ replies = [r \in Requests |-> "none"]
  /\ effects = {}
  /\ undone = {}
  /\ gap = {}
  /\ crashed = FALSE
  /\ faults = 0

Goto(r, s) == step' = [step EXCEPT ![r] = s]
Reply(r, a) == Goto(r, "done") /\ replies' = [replies EXCEPT ![r] = a]
Fault == faults < MaxFaults /\ faults' = faults + 1

-----------------------------------------------------------------------------
(* claim                                                                   *)

\* INSERT ... ON CONFLICT DO NOTHING.
ClaimInsert(r) ==
  /\ step[r] = "claim"
  /\ IF row = NoRow
       THEN row' = Processing(Payload[r]) /\ Goto(r, "run")
       ELSE Goto(r, "select") /\ UNCHANGED row
  /\ UNCHANGED <<replies, effects, undone, gap, crashed, faults>>

\* The row is gone again: the request goes on as if it had claimed the key.
SelectNothing(r) ==
  /\ step[r] = "select"
  /\ row = NoRow
  /\ gap' = gap \cup {r}
  /\ Goto(r, "run")
  /\ UNCHANGED <<row, replies, effects, undone, crashed, faults>>

Mutant_SelectAnswer(r) == IF row.status = "COMPLETED" THEN row.response ELSE "processing"
SelectAnswer(r) ==
  IF row.hash # Payload[r] THEN "mismatch"
  ELSE IF row.status = "COMPLETED" THEN row.response ELSE "processing"

SelectRow(r) ==
  /\ step[r] = "select"
  /\ row # NoRow
  /\ Reply(r, SelectAnswer(r))
  /\ UNCHANGED <<row, effects, undone, gap, crashed, faults>>

-----------------------------------------------------------------------------
(* The handler, complete and release.                                      *)

HandlerReturns(r) ==
  /\ step[r] = "run"
  /\ effects' = effects \cup {r}
  /\ Goto(r, "complete")
  /\ UNCHANGED <<row, replies, undone, gap, crashed, faults>>

\* The handler throws, before its calls to the services took effect or after
\* (a timeout, a later call that fails).
HandlerThrows(r) ==
  /\ step[r] = "run"
  /\ Fault
  /\ effects' \in {effects, effects \cup {r}}
  /\ undone' = undone \cup (effects' \cap {r})
  /\ Goto(r, "release")
  /\ UNCHANGED <<row, replies, gap, crashed>>

\* UPDATE by key: it changes whatever row has the key, or none.
CompletedRow(r) == IF row = NoRow THEN NoRow ELSE Completed(row.hash, r)

Complete(r) ==
  /\ step[r] = "complete"
  /\ row' = CompletedRow(r)
  /\ Reply(r, r)
  /\ UNCHANGED <<effects, undone, gap, crashed, faults>>

\* The UPDATE is rejected, or its acknowledgement never arrives.
CompleteFails(r) ==
  /\ step[r] = "complete"
  /\ Fault
  /\ \/ row' = CompletedRow(r) /\ UNCHANGED undone
     \/ UNCHANGED row /\ undone' = undone \cup {r}
  /\ Goto(r, "release")
  /\ UNCHANGED <<replies, effects, gap, crashed>>

\* DELETE ... AND status = 'PROCESSING'
Mutant_ReleasedRow == NoRow
ReleasedRow == IF row.status = "PROCESSING" THEN NoRow ELSE row

Mutant_Release(r) ==
  /\ step[r] = "release"
  /\ Reply(r, "error")
  /\ UNCHANGED <<row, effects, undone, gap, crashed, faults>>
Release(r) ==
  /\ step[r] = "release"
  /\ row' = ReleasedRow
  /\ Reply(r, "error")
  /\ UNCHANGED <<effects, undone, gap, crashed, faults>>

\* The database is gone when the request wants to release its key.
ReleaseFails(r) ==
  /\ step[r] = "release"
  /\ Fault
  /\ crashed' = TRUE
  /\ Reply(r, "error")
  /\ UNCHANGED <<row, effects, undone, gap>>

\* The gateway restarts: the requests in it end, the row stays as it is.
KeyCrash ==
  LET dead == {r \in Requests : step[r] \notin {"claim", "done"}} IN
  /\ dead # {}
  /\ Fault
  /\ crashed' = TRUE
  /\ step' = [r \in Requests |-> IF r \in dead THEN "done" ELSE step[r]]
  /\ replies' = [r \in Requests |-> IF r \in dead THEN "error" ELSE replies[r]]
  /\ UNCHANGED <<row, effects, undone, gap>>

Execute(r) ==
  \/ ClaimInsert(r) \/ SelectNothing(r) \/ SelectRow(r)
  \/ HandlerReturns(r) \/ Complete(r) \/ Release(r)

KeyNext ==
  \/ \E r \in Requests :
       Execute(r) \/ HandlerThrows(r) \/ CompleteFails(r) \/ ReleaseFails(r)
  \/ KeyCrash

KeySpec == KeyInit /\ [][KeyNext]_keyVars

\* A request that began goes on: every statement and handler call ends.
FairKeySpec == KeySpec /\ \A r \in Requests : WF_keyVars(Execute(r))

-----------------------------------------------------------------------------
(* Properties.                                                             *)

\* At most one run of the handler takes effect without its caller being told
\* of an error it may retry, unless a request claimed the key without a row.
EffectOnce == gap = {} => \A r, s \in effects \ undone : r = s

\* Whoever gets a response gets the first one, and only for its own payload,
\* unless a request claimed the key without a row.
ReplayFaithful ==
  gap = {} =>
    \A r, s \in Requests :
      /\ replies[r] \in Requests /\ replies[s] \in Requests => replies[r] = replies[s]
      /\ replies[r] \in Requests => Payload[replies[r]] = Payload[r]

\* No client is locked out of its key: it does not stay PROCESSING, whatever
\* fails, unless the gateway went down or lost its database in a request.
KeyFreed == row.status = "PROCESSING" ~> row.status # "PROCESSING" \/ crashed

=============================================================================
