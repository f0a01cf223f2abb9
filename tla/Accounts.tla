------------------------------ MODULE Accounts ------------------------------
(***************************************************************************)
(* Accounts of the gateway: AuthService.register behind the rate limiter,  *)
(* and onModuleInit, which makes sure at each start of a gateway process   *)
(* that the administrator and the demo customer exist.  Each process looks *)
(* for the name first and inserts later; the UNIQUE name and the primary   *)
(* key of users decide between those that overlap.                         *)
(*                                                                         *)
(* A process that cannot start exits and is started again.  All attempts   *)
(* come from one source address, so each process has one limiter key.      *)
(***************************************************************************)
EXTENDS RateLimit, FiniteSets

CONSTANTS
  Gateways,     \* the gateway processes, which are the limiter's Keys
  Customers,    \* people who register
  Wanted,       \* [Customers -> names]: the user name each one asks for
  Configured,   \* [Gateways -> [FixedIds -> names]]: ADMIN_USER and DEMO_USER
  MaxCrashes

FixedIds == {"admin-001", "customer-001"}
RoleOf(id) == IF id = "admin-001" THEN "ADMIN" ELSE "USER"

\* The ids of customers are fresh UUIDs, and the two configured names differ.
ASSUME AccountsAssumption ==
  /\ Gateways = Keys
  /\ Customers \cap FixedIds = {}
  /\ \A g \in Gateways : Configured[g]["admin-001"] # Configured[g]["customer-001"]

VARIABLES
  users,      \* rows of users: [id, name, role]
  boot,       \* per process: the id it is ensuring, or "up"
  found,      \* per process: "absent" once findByUsername saw no such row
  request,    \* per customer: the register call, [step, via]
  answer,     \* per customer: the last answer of register
  cut,        \* history: customers one of whose calls was cut off
  crashes

accountVars == <<users, boot, found, request, answer, cut, crashes>>
vars == <<limiterVars, accountVars>>

Idle == [step |-> "idle", via |-> "none"]

Init ==
  /\ LimiterInit
  /\ users = {}
  /\ boot = [g \in Gateways |-> "admin-001"]
  /\ found = [g \in Gateways |-> "unknown"]
  /\ request = [c \in Customers |-> Idle]
  /\ answer = [c \in Customers |-> "none"]
  /\ cut = {}
  /\ crashes = 0

Named(name) == {u \in users : u.name = name}

\* The INSERT of createUser breaks the primary key or the UNIQUE name.
Clashes(id, name) == \E u \in users : u.id = id \/ u.name = name

Insert(id, name, role) == users' = users \cup {[id |-> id, name |-> name, role |-> role]}

-----------------------------------------------------------------------------
(* onModuleInit: ensureUser for the administrator, then for the customer.  *)

At(g, id, f) == boot' = [boot EXCEPT ![g] = id] /\ found' = [found EXCEPT ![g] = f]

Ensured(g) == At(g, IF boot[g] = "admin-001" THEN "customer-001" ELSE "up", "unknown")

\* findByUsername.  A row of that name is taken as it is, whatever its id and
\* role.
EnsureFind(g) ==
  /\ boot[g] \in FixedIds /\ found[g] = "unknown"
  /\ IF Named(Configured[g][boot[g]]) = {} THEN At(g, boot[g], "absent") ELSE Ensured(g)
  /\ UNCHANGED <<limiterVars, users, request, answer, cut, crashes>>

EnsureCreate(g) ==
  LET id == boot[g] IN
  /\ found[g] = "absent"
  /\ ~Clashes(id, Configured[g][id])
  /\ Insert(id, Configured[g][id], RoleOf(id))
  /\ Ensured(g)
  /\ UNCHANGED <<limiterVars, request, answer, cut, crashes>>

\* The INSERT throws, the process exits and is started again.
Mutant_EnsureFails(g) ==
  /\ found[g] = "absent"
  /\ Clashes(boot[g], Configured[g][boot[g]])
  /\ UNCHANGED <<limiterVars, users, boot, found, request, answer, cut, crashes>>
EnsureFails(g) ==
  /\ found[g] = "absent"
  /\ Clashes(boot[g], Configured[g][boot[g]])
  /\ At(g, "admin-001", "unknown")
  /\ UNCHANGED <<limiterVars, users, request, answer, cut, crashes>>

Boot(g) == EnsureFind(g) \/ EnsureCreate(g) \/ EnsureFails(g)

-----------------------------------------------------------------------------
(* register.                                                               *)

Goes(c, step, via) == request' = [request EXCEPT ![c] = [step |-> step, via |-> via]]

Answered(c, a) ==
  /\ Goes(c, "idle", "none")
  /\ answer' = [answer EXCEPT ![c] = a]

\* The guard of the route lets the attempt through, and findByUsername looks
\* for the name.
Register(c, g) ==
  /\ boot[g] = "up" /\ request[c].step = "idle" /\ answer[c] \in {"none", "cut"}
  /\ Admitted(g)
  /\ IF Named(Wanted[c]) = {}
       THEN Goes(c, "create", g) /\ UNCHANGED answer
       ELSE Answered(c, "exists")
  /\ UNCHANGED <<users, boot, found, cut, crashes>>

\* Attempts that leave the accounts alone: 429 from the guard, or 400 from
\* register itself, which the guard has counted all the same.
AttemptInVain(g) ==
  /\ boot[g] = "up"
  /\ Refused(g) \/ TurnedAway(g) \/ Admitted(g)
  /\ UNCHANGED accountVars

\* The row is stored; the answer is still to be sent.
Mutant_RegisterCreate(c) ==
  /\ request[c].step = "create"
  /\ users' = {u \in users : u.name # Wanted[c]}
              \cup {[id |-> c, name |-> Wanted[c], role |-> "USER"]}
  /\ Goes(c, "created", request[c].via)
  /\ UNCHANGED <<limiterVars, boot, found, answer, cut, crashes>>
RegisterCreate(c) ==
  /\ request[c].step = "create"
  /\ ~Clashes(c, Wanted[c])
  /\ Insert(c, Wanted[c], "USER")
  /\ Goes(c, "created", request[c].via)
  /\ UNCHANGED <<limiterVars, boot, found, answer, cut, crashes>>

\* Somebody was faster: the unique violation comes back as 500, not 409.
RegisterFails(c) ==
  /\ request[c].step = "create"
  /\ Clashes(c, Wanted[c])
  /\ Answered(c, "error")
  /\ UNCHANGED <<limiterVars, users, boot, found, cut, crashes>>

RegisterAnswer(c) ==
  /\ request[c].step = "created"
  /\ Answered(c, "created")
  /\ UNCHANGED <<limiterVars, users, boot, found, cut, crashes>>

\* A gateway process dies and is started again: its calls are cut off, its
\* counters are gone.
Crash(g) ==
  LET lost == {c \in Customers : request[c].via = g} IN
  /\ crashes < MaxCrashes
  /\ crashes' = crashes + 1
  /\ At(g, "admin-001", "unknown")
  /\ request' = [c \in Customers |-> IF c \in lost THEN Idle ELSE request[c]]
  /\ answer' = [c \in Customers |-> IF c \in lost THEN "cut" ELSE answer[c]]
  /\ cut' = cut \cup lost
  /\ Forget({g})
  /\ UNCHANGED users

Next ==
  \/ \E g \in Gateways : Boot(g) \/ AttemptInVain(g) \/ Crash(g)
  \/ \E c \in Customers : RegisterCreate(c) \/ RegisterFails(c) \/ RegisterAnswer(c)
  \/ \E c \in Customers, g \in Gateways : Register(c, g)
  \/ Tick /\ UNCHANGED accountVars

Spec == Init /\ [][Next]_vars

\* A process that starts goes on, and one that exits is started again
\* (restart: unless-stopped).
FairSpec == Spec /\ \A g \in Gateways : WF_vars(Boot(g))

-----------------------------------------------------------------------------
(* Properties.                                                             *)

\* What register answers is true of the accounts, for every interleaving of
\* its two statements with those of others: 'created' is a row of one's own,
\* and who is refused or gets an error finds the name with somebody else,
\* unless an earlier call of the same person had been cut off.
AnswerTrue ==
  \A c \in Customers :
    /\ answer[c] = "created" => [id |-> c, name |-> Wanted[c], role |-> "USER"] \in users
    /\ answer[c] \in {"exists", "error"} =>
         \E u \in Named(Wanted[c]) : u.id # c \/ c \in cut

\* While the processes agree on ADMIN_USER and DEMO_USER, nobody can register
\* one of these names: a process takes requests only after both are stored.
ReservedNames ==
  (\A g, h \in Gateways : Configured[g] = Configured[h]) =>
    \A u \in users, g \in Gateways, id \in FixedIds :
      u.name = Configured[g][id] => u.id = id /\ u.role = RoleOf(id)

\* The fixed id is stored under another name than the process is told.
Renamed(g) ==
  \E id \in FixedIds : \E u \in users : u.id = id /\ u.name # Configured[g][id]

\* A gateway process comes up, whoever else starts or registers meanwhile and
\* although a lost race makes it exit; unless ADMIN_USER or DEMO_USER was
\* changed since the accounts were made: it then exits again and again.
GatewayComesUp == \A g \in Gateways : boot[g] # "up" ~> boot[g] = "up" \/ Renamed(g)

=============================================================================
