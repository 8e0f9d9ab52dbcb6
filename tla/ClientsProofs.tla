---------------------------- MODULE ClientsProofs -----------------------------
(***************************************************************************)
(* Clients that give up and try again: what they were told is true, and no *)
(* order is reported twice as redeemed or cancelled just now.  ClientsInv  *)
(* adds to AnswerInv whom each worker answers, and what is still to be     *)
(* said.                                                                   *)
(***************************************************************************)
EXTENDS Clients, CouponAnswerProofs

\* An operation on an order has left its mark there.
Happened(op, o) ==
  /\ orders[o] # None
  /\ op = "redeem" => orders[o].coupon # None
  /\ op = "cancel" => orders[o].status = "CANCELLED"

\* A worker about to say for the first time that its request took effect.
Announcing(w) == pc[w] = "respond" /\ FirstTime(w)

ClientsTypeOK ==
  /\ peer \in [Workers -> Clients \cup {None}]
  /\ heard \in [Clients -> Answer \cup {None}]
  /\ first \subseteq {"redeem", "cancel"} \X Orders

\* A client waits for the worker that serves its own request.
PeerOK(w) == peer[w] # None => pc[w] # "idle" /\ req[w] = Goal[peer[w]]

\* What a client has been told is so.
HeardOK(c) ==
  heard[c] # None /\ heard[c].reason = "OK" =>
    LET goal == Goal[c]
        row  == orders[goal.order]
    IN  /\ goal.op = "redeem" => row # None /\ row.coupon = goal.code
        /\ goal.op = "cancel" => row # None /\ row.status = "CANCELLED"

\* What was announced has happened, and neither was announced before nor is
\* being announced by another worker what a worker is about to announce.
OnceOK ==
  /\ \A op \in {"redeem", "cancel"}, o \in Orders :
       <<op, o>> \in first => Happened(op, o)
  /\ \A w \in Workers : Announcing(w) =>
       <<req[w].op, req[w].order>> \notin first
  /\ \A v, w \in Workers :
       /\ Announcing(v) /\ Announcing(w)
       /\ req[v].op = req[w].op /\ req[v].order = req[w].order
       => v = w

\* The invariant behind the properties of the clients, inductive as a whole.
ClientsInv ==
  /\ AnswerInv
  /\ ClientsTypeOK
  /\ \A w \in Workers : PeerOK(w)
  /\ \A c \in Clients : HeardOK(c)
  /\ OnceOK


-----------------------------------------------------------------------------
(* What the service does while the clients come and go.                    *)

\* A step of the system is a step of one worker, or leaves the service alone.
LEMMA ClientSteps ==
  ASSUME [ClientsNext]_allVars
  PROVE  [Next]_vars /\ (UNCHANGED vars \/ \E w \in Workers : WorkerStep(w))
<1>1. ASSUME NEW w \in Workers, NEW c \in Clients, Send(c, w)
      PROVE  Next /\ WorkerStep(w)
  <2>1. Receive(w, Goal[c]) /\ Goal[c] \in Requests
    BY <1>1, ClientsAssumption DEF Send
  <2> QED
    BY <2>1 DEF Next, WorkerStep
<1>2. ASSUME NEW w \in Workers, Deliver(w) \/ Die(w) \/ Work(w)
      PROVE  Next /\ WorkerStep(w)
  BY <1>2 DEF Deliver, Die, Work, Next, WorkerStep, LocalStep
<1>3. ASSUME NEW w \in Workers, GiveUp(w) PROVE UNCHANGED vars
  BY <1>3 DEF GiveUp
<1>4. CASE UNCHANGED allVars
  BY <1>4 DEF allVars
<1> QED
  BY <1>1, <1>2, <1>3, <1>4 DEF ClientsNext

\* What has happened to an order stays so, and so does what a client heard.
LEMMA HappenedStays ==
  ASSUME OrdersGrow, NEW op, NEW o \in Orders, Happened(op, o)
  PROVE  Happened(op, o)'
BY DEF OrdersGrow, Happened

\* The tables and their orders grow in every step.
LEMMA ClientsGrow ==
  ASSUME AnswerInv, [ClientsNext]_allVars
  PROVE  OrdersGrow
<1>1. CASE UNCHANGED vars
  BY <1>1 DEF vars, tables, OrdersGrow
<1>2. ASSUME NEW w \in Workers, WorkerStep(w) PROVE OrdersGrow
  BY <1>2, StepWrites, TablesGrow DEF AnswerInv, IInv, HeldInv
<1> QED
  BY <1>1, <1>2, ClientSteps

\* Whoever announces a success has brought it about.
LEMMA AnnouncedHappened ==
  ASSUME AnswerInv, NEW w \in Workers, Announcing(w)
  PROVE  /\ req[w].op \in {"redeem", "cancel"}
         /\ req[w].order \in Orders
         /\ Happened(req[w].op, req[w].order)
<1>1. TypeInv /\ Done(w) /\ req[w].op \in {"redeem", "cancel"}
  BY DEF AnswerInv, IInv, HeldInv, AnswerOK, Announcing, FirstTime
<1>2. req[w] \in Requests
  BY <1>1 DEF Announcing, TypeInv, TypeOK, ControlOK
<1>3. /\ req[w].order \in Orders
      /\ req[w].op = "redeem" => req[w].code \in Codes
  BY <1>1, <1>2, RequestFields
<1> QED
  BY <1>1, <1>3, NoneAssumption DEF Done, Happened

\* A worker begins to announce only what its own COMMIT has just done, and
\* what had not happened before.
LEMMA Announces ==
  ASSUME AnswerInv, NEW w \in Workers, WorkerStep(w),
         NEW v \in Workers, Announcing(v)'
  PROVE  /\ req'[v] = req[v]
         /\ \/ v # w /\ Announcing(v)
            \/ /\ v = w /\ Commit(w)
               /\ ~Happened(req[w].op, req[w].order)
<1>1. HeldInv /\ TypeInv /\ Apart(w)
  BY StepApart DEF AnswerInv, IInv, HeldInv
<1>2. CASE v # w
  BY <1>1, <1>2 DEF Apart, Others, Announcing, FirstTime
<1>3. CASE v = w
  <2>1. pc'[w] = "respond" /\ FirstTime(w)'
    BY <1>3 DEF Announcing
  <2>2. CASE Commit(w)
    <3>1. /\ pc[w] = "commit" /\ req[w].op \in {"redeem", "cancel"}
          /\ resp' = resp /\ req' = req
      BY <1>1, <2>2, CommitInstalls DEF Commit, client
    <3>2. saved[w] # {}
      BY <2>1, <3>1 DEF AnswerInv, AnswerOK, CommitOK, FirstTime
    <3>3. IF req[w].op = "redeem" THEN Redeems(w) ELSE Cancels(w)
      BY <1>1, <2>2, <3>1, <3>2, CommitRedeems, CommitCancels
    <3>4. ~Happened(req[w].op, req[w].order)
      BY <3>1, <3>3 DEF Redeems, Cancels, Happened
    <3> QED
      BY <1>3, <2>2, <3>1, <3>4
  <2>3. CASE Rollback(w)
    BY <2>1, <2>3 DEF Rollback, AnswerInv, AnswerOK, FirstTime
  <2>4. CASE SeedingStep(w) \/ QueryReadCoupon(w)
    <3>1. req' = req /\ req[w].op \notin {"redeem", "cancel"}
      BY <2>4 DEF SeedingStep, InsertUser, InsertCoupon, CheckUser,
           InsertOrder, QueryReadCoupon, At, client
    <3> QED
      BY <2>1, <3>1 DEF FirstTime
  <2> QED
    BY <1>1, <2>1, <2>2, <2>3, <2>4, StatementInside
       DEF WorkerStep, LocalStep
<1> QED
  BY <1>2, <1>3

-----------------------------------------------------------------------------
(* ClientsInv is inductive.                                                *)

\* The peers stay those of the requests being served.
LEMMA PeersStay ==
  ASSUME ClientsInv, [ClientsNext]_allVars, NEW v \in Workers
  PROVE  PeerOK(v)'
<1>1. HeldInv /\ TypeInv /\ ClientsTypeOK /\ PeerOK(v)
  BY DEF ClientsInv, AnswerInv, IInv, HeldInv
<1>2. CASE UNCHANGED allVars
  BY <1>1, <1>2 DEF allVars, vars, client, clientVars, PeerOK
<1>3. ASSUME NEW w \in Workers, GiveUp(w) PROVE PeerOK(v)'
  BY <1>1, <1>3 DEF GiveUp, vars, client, PeerOK, ClientsTypeOK
<1>4. ASSUME NEW w \in Workers, NEW c \in Clients, Send(c, w)
      PROVE  PeerOK(v)'
  <2>1. Receive(w, Goal[c]) /\ Goal[c] \in Requests
    BY <1>4, ClientsAssumption DEF Send
  <2>2. FirstStatement[Goal[c].op] # "idle"
    BY <2>1, RequestFields DEF FirstStatement
  <2>3. /\ pc' = [pc EXCEPT ![w] = FirstStatement[Goal[c].op]]
        /\ req' = [req EXCEPT ![w] = Goal[c]]
        /\ peer' = [peer EXCEPT ![w] = c]
    BY <1>4, <2>1 DEF Send, Receive, Goto
  <2> QED
    BY <1>1, <2>2, <2>3 DEF PeerOK, ClientsTypeOK, TypeInv, TypeOK
<1>5. ASSUME NEW w \in Workers, Deliver(w) \/ Die(w) PROVE PeerOK(v)'
  <2>1. WorkerStep(w) /\ peer' = [peer EXCEPT ![w] = None]
    BY <1>5 DEF Deliver, Die, WorkerStep, LocalStep
  <2>2. Others(w)
    BY <1>1, <2>1, StepApart DEF Apart
  <2> QED
    BY <1>1, <2>1, <2>2 DEF PeerOK, ClientsTypeOK, Others
<1>6. ASSUME NEW w \in Workers, Work(w) PROVE PeerOK(v)'
  <2>1. WorkerStep(w) /\ peer' = peer
    BY <1>6 DEF Work, clientVars, WorkerStep
  <2>2. Others(w)
    BY <1>1, <2>1, StepApart DEF Apart
  <2>3. pc[w] # "idle" => pc'[w] # "idle" /\ req'[w] = req[w]
    BY <1>1, <1>6, StatementStays DEF Work
  <2> QED
    BY <1>1, <2>1, <2>2, <2>3 DEF PeerOK, Others
<1> QED
  BY <1>2, <1>3, <1>4, <1>5, <1>6 DEF ClientsNext


\* What a client has heard remains true as the orders grow.
LEMMA HeardStays ==
  ASSUME OrdersGrow, NEW c \in Clients, HeardOK(c), heard'[c] = heard[c]
  PROVE  HeardOK(c)'
<1> DEFINE goal == Goal[c]
<1>1. goal \in Requests
  BY ClientsAssumption
<1>2. goal.op \in {"redeem", "cancel"} => goal.order \in Orders
  BY <1>1, RequestFields
<1>3. goal.op = "redeem" => goal.code # None
  BY <1>1, RequestFields, NoneAssumption
<1> QED
  BY <1>2, <1>3 DEF HeardOK, OrdersGrow

\* A client hears of the order it asked about.
LEMMA ClientsHear ==
  ASSUME ClientsInv, [ClientsNext]_allVars, NEW c \in Clients
  PROVE  HeardOK(c)'
<1>1. ClientsTypeOK /\ HeardOK(c) /\ OrdersGrow
  BY ClientsGrow DEF ClientsInv
<1>2. CASE heard'[c] = heard[c]
  BY <1>1, <1>2, HeardStays
<1>3. CASE heard'[c] = None
  BY <1>3 DEF HeardOK
<1>4. ASSUME NEW w \in Workers, Deliver(w), peer[w] = c
      PROVE  HeardOK(c)'
  <2>1. /\ pc[w] = "respond" /\ orders' = orders
        /\ heard' = [heard EXCEPT ![c] = resp[w]]
    BY <1>4, ClientsAssumption DEF Deliver, Respond, tables
  <2>2. AnswerOK(w) /\ req[w] = Goal[c]
    BY <1>4, ClientsAssumption DEF ClientsInv, AnswerInv, PeerOK
  <2>3. heard'[c] = resp[w]
    BY <1>1, <2>1 DEF ClientsTypeOK
  <2> QED
    BY <2>1, <2>2, <2>3 DEF AnswerOK, Done, HeardOK
<1>5. ASSUME NEW w \in Workers, Deliver(w), peer[w] # c
      PROVE  heard'[c] = heard[c]
  BY <1>1, <1>5 DEF Deliver, ClientsTypeOK
<1>6. ASSUME NEW w \in Workers, NEW d \in Clients, Send(d, w)
      PROVE  heard'[c] \in {None, heard[c]}
  BY <1>1, <1>6 DEF Send, ClientsTypeOK
<1>7. ASSUME NEW w \in Workers, GiveUp(w) \/ Die(w) \/ Work(w)
      PROVE  heard' = heard
  BY <1>7 DEF GiveUp, Die, Work, clientVars
<1>8. CASE UNCHANGED allVars
  BY <1>2, <1>8 DEF allVars, clientVars
<1> QED
  BY <1>2, <1>3, <1>4, <1>5, <1>6, <1>7, <1>8 DEF ClientsNext

\* The first-time answers ever given: one more when a worker delivers one.
LEMMA FirstGrows ==
  ASSUME ClientsInv, [ClientsNext]_allVars
  PROVE  \/ first' = first
         \/ \E w \in Workers :
              /\ Deliver(w) /\ Announcing(w)
              /\ first' = first \cup {<<req[w].op, req[w].order>>}
<1>1. ASSUME NEW w \in Workers, Deliver(w)
      PROVE  \/ first' = first
             \/ /\ Announcing(w)
                /\ first' = first \cup {<<req[w].op, req[w].order>>}
  BY <1>1 DEF Deliver, Respond, Announcing
<1> QED
  BY <1>1 DEF ClientsNext, Send, GiveUp, Die, Work, clientVars, allVars

\* One worker commits at a time.
LEMMA CommitApart ==
  ASSUME AnswerInv, NEW u \in Workers, Commit(u), NEW v \in Workers, Commit(v)
  PROVE  u = v
<1>1. HeldInv /\ TypeInv
  BY DEF AnswerInv, IInv, HeldInv
<1>2. Apart(u) /\ pc[v] = "commit"
  BY <1>1, StepApart DEF Commit, WorkerStep, LocalStep
<1>3. pc'[v] = "respond"
  BY <1>1 DEF Commit, Goto, TypeInv, TypeOK
<1> QED
  BY <1>2, <1>3 DEF Apart, Others

\* Whoever announces something after a step announces nothing that has been
\* announced, or that another worker announces.
LEMMA ClientsOnce ==
  ASSUME ClientsInv, [ClientsNext]_allVars
  PROVE  OnceOK'
<1>1. AnswerInv /\ AnswerInv' /\ OrdersGrow /\ OnceOK
  BY ClientsGrow, ClientSteps, AnswerStep DEF ClientsInv
<1>2. ASSUME NEW op \in {"redeem", "cancel"}, NEW o \in Orders,
             <<op, o>> \in first'
      PROVE  Happened(op, o)'
  <2>1. Happened(op, o)
    <3>1. CASE <<op, o>> \in first
      BY <1>1, <3>1 DEF OnceOK
    <3>2. CASE \E w \in Workers :
                 Announcing(w) /\ op = req[w].op /\ o = req[w].order
      BY <1>1, <3>2, AnnouncedHappened
    <3> QED
      BY <1>2, <3>1, <3>2, FirstGrows
  <2> QED
    BY <1>1, <2>1, HappenedStays
<1>3. ASSUME NEW v \in Workers, Announcing(v)'
      PROVE  \/ Announcing(v) /\ req'[v] = req[v] /\ ~Deliver(v)
             \/ \E w \in Workers :
                  /\ v = w /\ Commit(w) /\ req'[v] = req[v]
                  /\ ~Happened(req[v].op, req[v].order)
  <2>1. ~Deliver(v)
    BY <1>1, <1>3
       DEF Deliver, Respond, Clear, Goto, Announcing, AnswerInv, IInv, HeldInv,
           TypeInv, TypeOK
  <2>2. CASE UNCHANGED vars
    BY <1>3, <2>1, <2>2 DEF vars, client, Announcing, FirstTime
  <2>3. ASSUME NEW w \in Workers, WorkerStep(w)
        PROVE  /\ req'[v] = req[v]
               /\ \/ Announcing(v)
                  \/ v = w /\ Commit(w) /\ ~Happened(req[w].op, req[w].order)
    BY <1>1, <1>3, <2>3, Announces
  <2> QED
    BY <2>1, <2>2, <2>3, ClientSteps
<1>4. ASSUME NEW v \in Workers, Announcing(v)'
      PROVE  <<req'[v].op, req'[v].order>> \notin first'
  <2>1. CASE Announcing(v) /\ req'[v] = req[v] /\ ~Deliver(v)
    <3>1. <<req[v].op, req[v].order>> \notin first
      BY <1>1, <2>1 DEF OnceOK
    <3>2. ASSUME NEW w \in Workers, Deliver(w), Announcing(w)
          PROVE  <<req[v].op, req[v].order>> # <<req[w].op, req[w].order>>
      BY <1>1, <2>1, <3>2 DEF OnceOK
    <3> QED
      BY <2>1, <3>1, <3>2, FirstGrows
  <2>2. CASE /\ Commit(v) /\ req'[v] = req[v]
             /\ ~Happened(req[v].op, req[v].order)
    <3>1. req[v].op \in {"redeem", "cancel"} /\ req[v].order \in Orders
      BY <1>1, <1>4, <2>2, CommitInstalls DEF AnswerInv, IInv
    <3>2. <<req[v].op, req[v].order>> \notin first
      BY <1>1, <2>2, <3>1 DEF OnceOK
    <3>3. ASSUME NEW w \in Workers, Announcing(w)
          PROVE  <<req[v].op, req[v].order>> # <<req[w].op, req[w].order>>
      BY <1>1, <2>2, <3>3, AnnouncedHappened
    <3> QED
      BY <2>2, <3>2, <3>3, FirstGrows
  <2> QED
    BY <1>3, <1>4, <2>1, <2>2
<1>5. ASSUME NEW u \in Workers, NEW v \in Workers,
             Announcing(u)', Announcing(v)',
             req'[u].op = req'[v].op, req'[u].order = req'[v].order
      PROVE  u = v
  <2>1. CASE Announcing(u) /\ Announcing(v) /\ req'[u] = req[u]
               /\ req'[v] = req[v]
    BY <1>1, <1>5, <2>1 DEF OnceOK
  <2>2. CASE Commit(u) /\ Commit(v)
    BY <1>1, <2>2, CommitApart
  <2>3. CASE /\ Announcing(u) /\ req'[u] = req[u]
             /\ req'[v] = req[v] /\ ~Happened(req[v].op, req[v].order)
    BY <1>1, <1>5, <2>3, AnnouncedHappened
  <2>4. CASE /\ Announcing(v) /\ req'[v] = req[v]
             /\ req'[u] = req[u] /\ ~Happened(req[u].op, req[u].order)
    BY <1>1, <1>5, <2>4, AnnouncedHappened
  <2> QED
    BY <1>3, <1>5, <2>1, <2>2, <2>3, <2>4
<1> QED
  BY <1>2, <1>4, <1>5 DEF OnceOK

\* No client waits, none has heard anything.
THEOREM ClientsInitially == ClientsInit => ClientsInv
<1> SUFFICES ASSUME ClientsInit PROVE ClientsInv
  OBVIOUS
<1>1. AnswerInv
  BY AnswerInit DEF ClientsInit
<1>2. ClientsTypeOK /\ (\A c \in Clients : HeardOK(c))
        /\ \A w \in Workers : PeerOK(w)
  BY DEF ClientsInit, ClientsTypeOK, HeardOK, PeerOK
<1>3. \A w \in Workers : ~Announcing(w)
  BY DEF ClientsInit, Init, Announcing
<1>4. OnceOK
  BY <1>3 DEF OnceOK, ClientsInit
<1> QED
  BY <1>1, <1>2, <1>4 DEF ClientsInv

\* Every step of the clients and of the service keeps ClientsInv.
THEOREM ClientsStep == ClientsInv /\ [ClientsNext]_allVars => ClientsInv'
<1> SUFFICES ASSUME ClientsInv, [ClientsNext]_allVars PROVE ClientsInv'
  OBVIOUS
<1>1. AnswerInv'
  BY ClientSteps, AnswerStep DEF ClientsInv
<1>2. first' \subseteq {"redeem", "cancel"} \X Orders
  BY FirstGrows, AnnouncedHappened DEF ClientsInv, ClientsTypeOK
<1>3. /\ peer' \in [Workers -> Clients \cup {None}]
      /\ heard' \in [Clients -> Answer \cup {None}]
  <2>1. ClientsTypeOK /\ resp \in [Workers -> Answer \cup {None}]
    BY DEF ClientsInv, AnswerInv, IInv, HeldInv, TypeInv, TypeOK
  <2> QED
    BY <2>1 DEF ClientsTypeOK, ClientsNext, Send, GiveUp, Deliver, Die, Work,
       clientVars, allVars
<1> QED
  BY <1>1, <1>2, <1>3, PeersStay, ClientsHear, ClientsOnce
     DEF ClientsInv, ClientsTypeOK

\* What the clients hear, and what was told to anybody, is as ClientsInv says
\* in every reachable state.
THEOREM ClientsCorrect == ClientsSpec => []ClientsInv
BY ClientsInitially, ClientsStep, PTL DEF ClientsSpec

\* A client that was told its coupon is on its order, or its order cancelled,
\* can rely on it for good.
THEOREM HeardCorrect == ClientsSpec => []HeardTrue
<1>1. ClientsInv => HeardTrue
  BY DEF ClientsInv, HeardOK, HeardTrue
<1> QED
  BY <1>1, ClientsCorrect, PTL

\* No two answers report the same redemption, or the same cancellation, as
\* done just now, whatever the retries.
THEOREM OnceCorrect == ClientsSpec => OneFirstTime
<1>1. ClientsInv /\ [ClientsNext]_allVars
        => [\A w \in Workers : SaidOnce(w)]_allVars
  BY DEF ClientsInv, OnceOK, Announcing, SaidOnce
<1> QED
  BY <1>1, ClientsCorrect, PTL DEF ClientsSpec, OneFirstTime

\* Clients that retry and lose their connections send the service nothing it
\* could not be sent anyway: what is proved of the service alone holds here.
THEOREM ClientsRefine == ClientsSpec => Spec
<1>1. ClientsInit => Init
  BY DEF ClientsInit
<1>2. [ClientsNext]_allVars => [Next]_vars
  BY ClientSteps
<1> QED
  BY <1>1, <1>2, PTL DEF ClientsSpec, Spec
=============================================================================
