------------------------------- MODULE Clients --------------------------------
(***************************************************************************)
(* The service composed with the clients it is made for: each wants one    *)
(* thing, sends its request, gives up waiting after a timeout while the    *)
(* worker that took it goes on, and sends it again until it is answered.   *)
(* README "order_id is the only idempotency key": it is the retry of the   *)
(* same request that must be safe, whatever became of the attempt before.  *)
(***************************************************************************)
EXTENDS CouponSystem

CONSTANTS Clients,
          Goal,          \* the request each client sends
          MaxTimeouts,   \* how often clients give up waiting, in all
          MaxCrashes     \* how often workers die, in all

ASSUME ClientsAssumption ==
  /\ Goal \in [Clients -> Requests]
  /\ None \notin Clients
  /\ MaxTimeouts \in Nat
  /\ MaxCrashes \in Nat

VARIABLES peer,      \* the client that waits for a worker's answer, if any
          heard,     \* the answer to each client's request, if it got one
          first,     \* first-time successes, as <<operation, order>>
          timeouts, crashes

faults     == <<timeouts, crashes>>
clientVars == <<peer, heard, first, faults>>
allVars    == <<vars, clientVars>>

ClientsInit ==
  /\ Init
  /\ peer = [w \in Workers |-> None]
  /\ heard = [c \in Clients |-> None]
  /\ first = {}
  /\ timeouts = 0
  /\ crashes = 0

\* A client that is not waiting opens a connection and sends its request, for
\* the first time, again because nobody answered, or once more although
\* somebody did.
Send(c, w) ==
  /\ \A v \in Workers : peer[v] # c
  /\ Receive(w, Goal[c])
  /\ peer' = [peer EXCEPT ![w] = c]
  /\ heard' = [heard EXCEPT ![c] = None]
  /\ UNCHANGED <<first, faults>>

Persist(c) == heard[c] = None /\ \E w \in Workers : Send(c, w)

\* REQUEST_TIMEOUT_SECONDS: the client closes the connection; the worker does
\* not notice.
GiveUp(w) ==
  /\ peer[w] # None
  /\ timeouts < MaxTimeouts
  /\ timeouts' = timeouts + 1
  /\ peer' = [peer EXCEPT ![w] = None]
  /\ UNCHANGED <<vars, heard, first, crashes>>

\* An answer that says its request has changed an order just now.
FirstTime(w) ==
  /\ req[w].op \in {"redeem", "cancel"}
  /\ resp[w].reason = "OK"
  /\ ~resp[w].replayed

\* The worker sends its answer, to nobody if the client has gone.
Deliver(w) ==
  /\ Respond(w)
  /\ heard' = IF peer[w] = None THEN heard
                                ELSE [heard EXCEPT ![peer[w]] = resp[w]]
  /\ peer' = [peer EXCEPT ![w] = None]
  /\ first' = IF FirstTime(w)
              THEN first \cup {<<req[w].op, req[w].order>>} ELSE first
  /\ UNCHANGED faults

\* The client of a worker that dies sees its connection reset.
Die(w) ==
  /\ crashes < MaxCrashes
  /\ Crash(w)
  /\ crashes' = crashes + 1
  /\ peer' = [peer EXCEPT ![w] = None]
  /\ UNCHANGED <<heard, first, timeouts>>

Work(w) ==
  /\ LockStep(w) \/ (pc[w] # "respond" /\ LocalStep(w))
  /\ UNCHANGED clientVars

ClientsNext ==
  \E w \in Workers :
    \/ \E c \in Clients : Send(c, w)
    \/ GiveUp(w)
    \/ Deliver(w)
    \/ Die(w)
    \/ Work(w)

\* Workers and row locks as in CouponSystem.  A client does not forget its
\* goal, and the listening socket takes connections in turn, so a client that
\* tries whenever a worker is free gets one.
ClientsFairness == Fairness /\ \A c \in Clients : SF_allVars(Persist(c))

ClientsSpec == ClientsInit /\ [][ClientsNext]_allVars /\ ClientsFairness

-----------------------------------------------------------------------------
\* Whatever a client was told has happened is in the committed tables and
\* stays there, through crashes, later requests and other clients' retries:
\* its order carries its coupon, or its order is cancelled.
HeardTrue ==
  \A c \in Clients : heard[c] # None /\ heard[c].reason = "OK" =>
    LET goal == Goal[c]
    IN  /\ goal.op = "redeem" => orders[goal.order].coupon = goal.code
        /\ goal.op = "cancel" => orders[goal.order].status = "CANCELLED"

\* README "a replay is machine-distinguishable from a first-time redemption":
\* of all the answers ever given about an order, to any client, at most one
\* reports its redemption, and one its cancellation, as done just now.
SaidOnce(w) ==
  pc[w] = "respond" /\ pc'[w] = "idle" /\ FirstTime(w) =>
    \/ <<req[w].op, req[w].order>> \notin first
    \/ crashes' # crashes

OneFirstTime == [][\A w \in Workers : SaidOnce(w)]_allVars

\* A client that keeps asking is answered in the end, though its attempts be
\* cut short by timeouts and crashes while they hold locks.
EveryClientAnswered ==
  \A c \in Clients : heard[c] = None ~> heard[c] # None
=============================================================================
