------------------------------- MODULE LoadTest -------------------------------
(***************************************************************************)
(* scripts/loadtest_http.py against the running service: it seeds a        *)
(* STACKABLE coupon with one customer and order per contender, lets a pool *)
(* of threads redeem them all, reads the coupon and passes its verdict.    *)
(* The tables are empty at the start and nobody else uses the service.     *)
(***************************************************************************)
EXTENDS CouponSystem

CONSTANTS Contenders,     \* how many compete (--contenders)
          Capacity,       \* for how many slots (--capacity)
          Concurrency,    \* from how many threads (--concurrency)
          Code,           \* the code, customers and order ids the script
          CustomerOf,     \* makes up, one pair for each of 1 .. Contenders
          OrderOf

Tasks == 1 .. Contenders

\* The requests of _seed for contender i and of main, and of _redeem.
SeedRequest(i) ==
  [coupon |-> [op |-> "create_coupon", code |-> Code, row |->
                 [code |-> Code, type |-> "STACKABLE", expires_at |-> MaxTime,
                  max_redemptions |-> Capacity, redeemed_count |-> 0]],
   user   |-> [op |-> "create_user", customer |-> CustomerOf[i]],
   order  |-> [op |-> "create_order", customer |-> CustomerOf[i],
               order |-> OrderOf[i]],
   detail |-> [op |-> "query", code |-> Code]]

RedeemTask(i) ==
  [op |-> "redeem", code |-> Code, customer |-> CustomerOf[i],
   order |-> OrderOf[i]]

ScriptRequests ==
  UNION {{SeedRequest(i).coupon, SeedRequest(i).user, SeedRequest(i).order,
          SeedRequest(i).detail, RedeemTask(i)} : i \in Tasks}

\* With fewer contenders than slots the script reports a failure that is
\* none.  What it makes up is unique (uuid4), and the service takes it.
ASSUME LoadTestAssumption ==
  /\ Contenders \in Nat /\ Capacity \in 1 .. Contenders
  /\ Concurrency \in Nat \ {0}
  /\ SeededUsers = {} /\ DOMAIN SeededOrders = {} /\ DOMAIN SeededCoupons = {}
  /\ \A i, j \in Tasks : i # j =>
       CustomerOf[i] # CustomerOf[j] /\ OrderOf[i] # OrderOf[j]
  /\ ScriptRequests \subseteq Requests

\* A task that has not returned is told from one that has, with the service's
\* answer, an exception or nothing, and so is main.
ASSUME OutcomeAssumption ==
  None \notin Reason \cup {"LOST", "CANCELLED", "PASS", "FAIL", "ERROR"}

VARIABLES stage,      \* where main() is
          index,      \* the contender it is seeding
          caller,     \* who waits for a worker: a task, 0 for main, or None
          outcomes,   \* what the pool's tasks returned
          verdict

scriptVars == <<stage, index, caller, outcomes, verdict>>
loadVars   == <<vars, scriptVars>>

LoadInit ==
  /\ Init
  /\ stage = "coupon"
  /\ index = 1
  /\ caller = [w \in Workers |-> None]
  /\ outcomes = [i \in Tasks |-> None]
  /\ verdict = None

Waiting(who) == \E w \in Workers : caller[w] = who

Call(w, who, request) ==
  /\ Receive(w, request)
  /\ caller' = [caller EXCEPT ![w] = who]
  /\ UNCHANGED <<stage, index, outcomes, verdict>>

\* main posts the seeds one after another, and reads the coupon at the end.
MainCall(w) ==
  /\ verdict = None
  /\ stage \in DOMAIN SeedRequest(index)
  /\ ~Waiting(0)
  /\ Call(w, 0, SeedRequest(index)[stage])

Finished == {i \in Tasks : outcomes[i] # None}

\* The pool hands out its tasks in order, to as many threads as it has.
TaskCall(w, i) ==
  /\ stage = "redeem"
  /\ outcomes[i] = None
  /\ i <= Cardinality(Finished) + Concurrency
  /\ ~Waiting(i)
  /\ Call(w, i, RedeemTask(i))

\* The request after the one just answered.
Advance ==
  /\ stage' = CASE stage = "coupon" -> "user"
                [] stage = "user"   -> "order"
                [] stage = "order"  -> IF index < Contenders THEN "user"
                                                             ELSE "redeem"
                [] stage = "detail" -> "done"
  /\ index' = IF stage = "order" /\ index < Contenders THEN index + 1
                                                       ELSE index

\* successes != args.capacity or detail["redeemed_count"] != args.capacity
Judge(left) ==
  IF /\ Cardinality({i \in Tasks : outcomes[i] = "OK"}) = Capacity
     /\ Capacity - left = Capacity
  THEN "PASS" ELSE "FAIL"

HearTask(i, outcome) ==
  /\ outcomes' = [outcomes EXCEPT ![i] = outcome]
  /\ UNCHANGED <<stage, index, verdict>>

\* An exception leaves main, or the task, whose result is then an exception.
Raises(who) ==
  IF who \in Tasks THEN HearTask(who, "LOST")
  ELSE verdict' = "ERROR" /\ UNCHANGED <<stage, index, outcomes>>

\* main needs the id of a new user and the counter of the coupon; it does not
\* look at the other answers.
HearMain(answer) ==
  IF answer.reason # "OK" /\ stage \in {"user", "detail"} THEN Raises(0)
  ELSE /\ Advance
       /\ verdict' = IF stage = "detail" THEN Judge(answer.remaining)
                                         ELSE verdict
       /\ UNCHANGED outcomes

Hangup(w) == caller' = [caller EXCEPT ![w] = None]

\* An answer reaches its caller.  An error page is not JSON, and raises.
Answered(w) ==
  /\ Respond(w)
  /\ Hangup(w)
  /\ IF caller[w] = None THEN UNCHANGED <<stage, index, outcomes, verdict>>
     ELSE IF resp[w].reason = "SERVER_ERROR" THEN Raises(caller[w])
     ELSE IF caller[w] = 0 THEN HearMain(resp[w])
     ELSE HearTask(caller[w], resp[w].reason)

\* The timeout of the script expires; the worker goes on.
TimesOut(w) ==
  /\ caller[w] # None
  /\ Hangup(w)
  /\ Raises(caller[w])
  /\ UNCHANGED vars

\* A worker dies, and the connection to its caller with it, if that one has
\* not given up before.
Dies(w) ==
  /\ Crash(w)
  /\ Hangup(w)
  /\ IF caller[w] = None THEN UNCHANGED <<stage, index, outcomes, verdict>>
     ELSE Raises(caller[w])

\* list(pool.map(...)) meets an exception: it cancels the tasks no thread has
\* taken up, and leaving the pool waits for the others.  (A task taken up that
\* has not called yet may as well have called before.)
PoolRaises ==
  LET uncalled == {i \in Tasks \ Finished : ~Waiting(i)}
  IN  /\ stage = "redeem"
      /\ \E i \in Tasks :
           /\ outcomes[i] = "LOST"
           /\ \A j \in 1 .. i - 1 : outcomes[j] \notin {None, "LOST"}
      /\ uncalled # {}
      /\ outcomes' = [i \in Tasks |-> IF i \in uncalled THEN "CANCELLED"
                                                        ELSE outcomes[i]]
      /\ UNCHANGED <<vars, stage, index, caller, verdict>>

PoolEnds ==
  /\ stage = "redeem"
  /\ Finished = Tasks
  /\ IF \E i \in Tasks : outcomes[i] = "LOST"
     THEN verdict' = "ERROR" /\ stage' = "done"
     ELSE stage' = "detail" /\ UNCHANGED verdict
  /\ UNCHANGED <<vars, index, caller, outcomes>>

\* What workers do meanwhile.
Work(w) ==
  /\ LockStep(w) \/ (pc[w] # "respond" /\ LocalStep(w))
  /\ UNCHANGED scriptVars

ScriptStep ==
  \/ \E w \in Workers : MainCall(w) \/ \E i \in Tasks : TaskCall(w, i)
  \/ PoolRaises
  \/ PoolEnds

LoadNext ==
  \/ ScriptStep
  \/ \E w \in Workers :
       \/ Answered(w)
       \/ TimesOut(w)
       \/ Dies(w)
       \/ Work(w)

\* Workers run as in CouponSystem, and so do the script's threads.
LoadSpec == LoadInit /\ [][LoadNext]_loadVars /\ Fairness
              /\ WF_loadVars(ScriptStep)

-----------------------------------------------------------------------------
\* "PASS: redeemed_count == max_redemptions, no oversell" is what the script
\* says of this service whenever it gets to a verdict, and it is true: as many
\* orders carry the coupon as there were slots.
VerdictTrue ==
  verdict \in {"PASS", "FAIL"} =>
    /\ verdict = "PASS"
    /\ Cardinality(Holders(Code)) = Capacity

\* The script always comes to an end: no task waits for ever, and no thread is
\* left behind when the pool is closed.
ScriptEnds == <>(verdict # None)
=============================================================================
