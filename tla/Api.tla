--------------------------------- MODULE Api ----------------------------------
(***************************************************************************)
(* What surrounds the services in a worker: the correlation middleware,    *)
(* the serializers and views that turn a call into a request or refuse it, *)
(* the columns an accepted value still has to fit, and the rendering of    *)
(* errors.                                                                 *)
(*                                                                         *)
(* Codes are strings here, canonical or not; of a string only its          *)
(* canonical form and its trimmed length matter.                           *)
(***************************************************************************)
EXTENDS CouponSystem

CONSTANTS Calls,         \* the HTTP calls clients may make
          Ids,           \* correlation ids: sent along, or made up (uuid4)
          NoId,          \* the empty string
          Canonical,     \* code.strip().upper() of each string
          Length,        \* the length of each string, trimmed
          Blank,         \* the empty code
          MaxLength,     \* MAX_COUPON_CODE_LENGTH, and the column's length
          MaxInteger,    \* the largest value of an integer column
          LongEmails     \* customers whose address the column cannot hold

Bodies == {"valid", "invalid", "unparsable"}

RedeemCall == [op : {"redeem"}, body : Bodies, code : Codes,
               customer : Customers, order : Orders,
               key : Orders \cup {None, "garbage"}]
CancelCall == [op : {"cancel"}, body : {"valid"}, order : Orders]
QueryCall  == [op : {"query"}, body : {"valid"}, code : Codes]
UserCall   == [op : {"create_user"}, body : Bodies, customer : Customers]
CouponCall == [op : {"create_coupon"}, body : Bodies, code : Codes,
               type : CouponType, max : Int, expires : Nat]
OrderCall  == [op : {"create_order"}, body : Bodies, customer : Customers,
               order : Orders]

ASSUME ApiAssumption ==
  /\ Calls \subseteq RedeemCall \cup CancelCall \cup QueryCall
                       \cup UserCall \cup CouponCall \cup OrderCall
  /\ Canonical \in [Codes -> Codes]
  /\ \A c \in Codes : Canonical[Canonical[c]] = Canonical[c]
  /\ Length \in [Codes -> Nat]
  /\ Canonical[Blank] = Blank /\ Length[Blank] = 0
  /\ MaxLength \in Nat /\ MaxInteger \in Nat
  /\ NoId \notin Ids
  /\ None \notin Calls

\* The coupons there are at the start came through the same boundary.
ASSUME StoredAssumption ==
  \A c \in DOMAIN SeededCoupons :
    /\ c # Blank /\ Canonical[c] = c /\ Length[c] <= MaxLength
    /\ SeededCoupons[c].max_redemptions <= MaxInteger

VARIABLES call,       \* the call a worker serves
          id,         \* the local correlation_id of the middleware
          context,    \* the context variable of the worker
          answer      \* the response, before the middleware sees it

apiVars == <<call, id, context, answer>>
httpVars == <<vars, apiVars>>

ApiInit ==
  /\ Init
  /\ call = [w \in Workers |-> None]
  /\ id = [w \in Workers |-> NoId]
  /\ context = [w \in Workers |-> NoId]
  /\ answer = [w \in Workers |-> None]

-----------------------------------------------------------------------------
(* The boundary.                                                           *)

normalise_code(code) == Canonical[code]

\* Broken: an empty code is not looked for.
BlankPasses(code) == Length[code] <= MaxLength

\* CharField(max_length=...) and validate_code: the length is tried before the
\* code is upper-cased, which may lengthen it.
CodeAccepted(code) ==
  Length[code] <= MaxLength /\ normalise_code(code) # Blank

\* The serializers.  A body stands for the fields no property looks at.
Accepted(cl) ==
  /\ cl.body = "valid"
  /\ cl.op \in {"redeem", "create_coupon"} => CodeAccepted(cl.code)
  /\ cl.op = "create_coupon" => cl.max >= 1

\* Broken: any well-formed order id passes for the key.
AnyOrderId(cl) == cl.op = "redeem" => cl.key \in Orders \cup {None}

\* _assert_key_matches_order.
KeyMatches(cl) == cl.op = "redeem" => cl.key \in {None, cl.order}

\* Broken: the code of the path is taken as it is.
RawPathCode(cl) == [op |-> "query", code |-> cl.code]

\* CouponDetailView.get.
DetailRequest(cl) == [op |-> "query", code |-> normalise_code(cl.code)]

\* What the view hands to its service.
Clean(cl) ==
  CASE cl.op = "redeem" ->
         [op |-> "redeem", code |-> normalise_code(cl.code),
          customer |-> cl.customer, order |-> cl.order]
    [] cl.op = "cancel" -> [op |-> "cancel", order |-> cl.order]
    [] cl.op = "query" -> DetailRequest(cl)
    [] cl.op = "create_user" ->
         [op |-> "create_user", customer |-> cl.customer]
    [] cl.op = "create_coupon" ->
         LET code == normalise_code(cl.code)
         IN  [op |-> "create_coupon", code |-> code,
              row |-> [code |-> code, type |-> cl.type,
                       max_redemptions |-> cl.max, redeemed_count |-> 0,
                       expires_at |-> cl.expires]]
    [] cl.op = "create_order" ->
         [op |-> "create_order", customer |-> cl.customer, order |-> cl.order]

ASSUME CallsAssumption ==
  \A cl \in Calls : Accepted(cl) => Clean(cl) \in Requests

\* Can the columns hold what a create endpoint inserts?
Fits(r) ==
  /\ r.op = "create_coupon" =>
       Length[r.code] <= MaxLength /\ r.row.max_redemptions <= MaxInteger
  /\ r.op = "create_user" => r.customer \notin LongEmails

-----------------------------------------------------------------------------
(* Responses.                                                              *)

\* app_exception_handler: an AppError or a framework error becomes a body with
\* its code and the correlation id bound at that moment; anything else is left
\* to Django, which answers with a page of its own.
Rendered(w, reason) ==
  IF reason = "OK" THEN [shape |-> "payload", reason |-> reason, id |-> NoId]
  ELSE IF reason = "SERVER_ERROR"
  THEN [shape |-> "page", reason |-> reason, id |-> NoId]
  ELSE [shape |-> "error", reason |-> reason, id |-> context[w]]

Produce(w, reason) == answer' = [answer EXCEPT ![w] = Rendered(w, reason)]

\* CorrelationIdMiddleware, up to get_response.
Accept(w, cl, i) ==
  /\ call[w] = None
  /\ call' = [call EXCEPT ![w] = cl]
  /\ id' = [id EXCEPT ![w] = i]
  /\ context' = [context EXCEPT ![w] = i]
  /\ UNCHANGED <<vars, answer>>

\* The view, up to the service.
Refuse(w, reason) == Produce(w, reason) /\ UNCHANGED vars

Handle(w) ==
  /\ call[w] # None /\ answer[w] = None /\ pc[w] = "idle"
  /\ \/ /\ call[w].body = "unparsable"
        /\ Refuse(w, "PARSE_ERROR")
     \/ /\ call[w].body # "unparsable"
        /\ ~Accepted(call[w])
        /\ Refuse(w, "VALIDATION_ERROR")
     \/ /\ Accepted(call[w])
        /\ ~KeyMatches(call[w])
        /\ Refuse(w, "IDEMPOTENCY_KEY_MISMATCH")
     \/ /\ Accepted(call[w])
        /\ KeyMatches(call[w])
        /\ Receive(w, Clean(call[w]))
        /\ UNCHANGED answer
  /\ UNCHANGED <<call, id, context>>

Inserting(w) == pc[w] \in {"insertUser", "insertCoupon"}

\* An INSERT with a value its column cannot hold raises DataError, which is
\* not the IntegrityError that create translates.
InsertRefused(w) ==
  /\ Inserting(w)
  /\ ~Fits(req[w])
  /\ Reply(w, Error("SERVER_ERROR"))
  /\ UNCHANGED <<tables, locks, now, client, instance, saved, apiVars>>

Serve(w) ==
  /\ Inserting(w) => Fits(req[w])
  /\ LockStep(w) \/ (pc[w] # "respond" /\ LocalStep(w))
  /\ UNCHANGED apiVars

Render(w) ==
  /\ pc[w] = "respond" /\ answer[w] = None
  /\ Produce(w, resp[w].reason)
  /\ UNCHANGED <<vars, call, id, context>>

EndCall(w) ==
  /\ call' = [call EXCEPT ![w] = None]
  /\ id' = [id EXCEPT ![w] = NoId]
  /\ answer' = [answer EXCEPT ![w] = None]

\* Broken: the context variable is not reset.
KeepBound(w) == UNCHANGED context

Unbind(w) == context' = [context EXCEPT ![w] = NoId]

\* The middleware sets the header to its own id, the finally clause runs, and
\* the response leaves.
Leave(w) ==
  /\ answer[w] # None
  /\ IF pc[w] = "respond" THEN Respond(w) ELSE UNCHANGED vars
  /\ EndCall(w)
  /\ Unbind(w)

\* The process dies, and with it the context; its successor starts afresh.
Kill(w) ==
  /\ call[w] # None
  /\ IF pc[w] # "idle" THEN Crash(w) ELSE UNCHANGED vars
  /\ EndCall(w)
  /\ context' = [context EXCEPT ![w] = NoId]

ApiNext ==
  \E w \in Workers :
    \/ \E cl \in Calls, i \in Ids : Accept(w, cl, i)
    \/ Handle(w)
    \/ InsertRefused(w)
    \/ Serve(w)
    \/ Render(w)
    \/ Leave(w)
    \/ Kill(w)

ApiSpec == ApiInit /\ [][ApiNext]_httpVars

-----------------------------------------------------------------------------
\* test_api.py "The path code is normalised the same way the stored code was":
\* three code paths normalise on their own, yet a lookup fails only if no
\* stored coupon is the same code in whatever spelling.
RightlyNotFound(w) ==
  /\ resp[w] = None /\ resp'[w] # None
  /\ resp'[w].reason = "COUPON_NOT_FOUND"
  => \A c \in Codes : coupons[c] # None =>
       normalise_code(c) # normalise_code(call[w].code)

FoundInAnySpelling == [][\A w \in Workers : RightlyNotFound(w)]_httpVars

\* What the tables hold has passed serializer and column, whichever of them
\* is the narrower: canonical codes that are not blank, and values that fit.
StoredIsValid ==
  /\ \A c \in Codes : coupons[c] # None =>
       /\ c # Blank /\ normalise_code(c) = c /\ Length[c] <= MaxLength
       /\ coupons[c].max_redemptions \in 1 .. MaxInteger
  /\ users \cap LongEmails \subseteq SeededUsers

\* RedeemView: "a client cannot believe it scoped the retry differently than
\* the server did".  No redemption locks, let alone changes, an order other
\* than the one its Idempotency-Key names.
KeyScopesOrder ==
  \A w \in Workers, o \in Orders :
    /\ orderLock[o] = w
    /\ call[w].op = "redeem"
    => call[w].key \in {None, o}

\* An error body names the correlation id of its own call (the one the header
\* repeats), although the service that raised it was not told any, and a
\* worker between two calls is bound to none.
ErrorsCarryTheirId ==
  \A w \in Workers :
    /\ call[w] = None => context[w] = NoId
    /\ answer[w] # None /\ answer[w].shape = "error" =>
         answer[w].id = id[w] /\ id[w] # NoId

\* README "Errors all render as" and test_api.py "Every error renders the same
\* actionable shape".
EveryErrorRendered ==
  \A w \in Workers :
    answer[w] # None /\ answer[w].reason # "OK" => answer[w].shape = "error"
=============================================================================
