-------------------------------- MODULE Router --------------------------------
(***************************************************************************)
(* Router of include/router.hpp: registration of routes and middleware,    *)
(* and dispatch, which finds the route of a request and runs the chain of  *)
(* middlewares that ends in the route's handler.                           *)
(*                                                                         *)
(* A middleware is the application's code.  It may call next any number of *)
(* times before it returns, or throw; the calls nest, so the chain is a    *)
(* stack.  A frame k of the stack is the k-th active middleware, and       *)
(* Len(active) + 1 is the handler.                                         *)
(***************************************************************************)
EXTENDS RoutePattern

CONSTANTS Patterns,        \* the patterns that may be registered
          Guarded,         \* the prefixes of middlewares; <<>> for a global one
          Requests,        \* the requests that may come, [method, path]
          Methods,         \* the methods of routes; "any" is Method::UNKNOWN
          MaxRoutes, MaxMiddlewares, MaxRequests,   \* bounds on what happens
          MaxCalls         \* bound: how often a middleware calls next

ASSUME RouterAssumption ==
  /\ Patterns \subseteq Seq(STRING) /\ Guarded \subseteq Seq(STRING)
  /\ Requests \subseteq [method : STRING, path : Seq(STRING)] /\ Requests # {}
  /\ {MaxRoutes, MaxMiddlewares, MaxRequests, MaxCalls} \subseteq Nat

VARIABLES routes_,       \* [method, pattern], in registration order
          middlewares_,  \* their prefixes, in registration order
          seen,          \* how many requests have been dispatched
          phase,         \* "idle", "running" or what became of the last one
          request,       \* the request being dispatched
          matched,       \* its route, an index of routes_
          pathParams,    \* req.pathParams
          active,        \* active_mw: indices of middlewares_
          idx,           \* how many of them have been entered
          stack,         \* the calls under way
          calls,         \* how often each active middleware has called next
          entered,       \* the middlewares entered for this request
          ran            \* how often its handler has been entered

vars == <<routes_, middlewares_, seen, phase, request, matched, pathParams,
          active, idx, stack, calls, entered, ran>>
tables == <<routes_, middlewares_>>
chosen == <<seen, request, matched, pathParams, active>>

Init ==
  /\ routes_ = <<>> /\ middlewares_ = <<>>
  /\ seen = 0
  /\ phase = "idle"
  /\ request \in {CHOOSE r \in Requests : TRUE}
  /\ matched = 0
  /\ pathParams = <<>>
  /\ active = <<>>
  /\ idx = 0
  /\ stack = <<>>
  /\ calls = <<>>
  /\ entered = <<>>
  /\ ran = 0

Running == phase = "running"

(***************************************************************************)
(* Registration.                                                           *)
(***************************************************************************)
add ==
  /\ ~ Running /\ Len(routes_) < MaxRoutes
  /\ \E m \in Methods, p \in Patterns :
       routes_' = Append(routes_, [method |-> m, pattern |-> p])
  /\ UNCHANGED <<middlewares_, phase, chosen, idx, stack, calls, entered, ran>>

use ==
  /\ ~ Running /\ Len(middlewares_) < MaxMiddlewares
  /\ \E prefix \in Guarded : middlewares_' = Append(middlewares_, prefix)
  /\ UNCHANGED <<routes_, phase, chosen, idx, stack, calls, entered, ran>>

(***************************************************************************)
(* Dispatch.                                                               *)
(***************************************************************************)
\* The routes that match a request; dispatch takes the first of them.
Matching(table, r) ==
  {i \in 1..Len(table) : /\ table[i].method \in {"any", r.method}
                         /\ match(table[i].pattern, r.path).found}

\* A bug EarlierRouteStands must catch: the last route wins.
RouteOfLast(table, r) == IF Matching(table, r) = {} THEN 0 ELSE Max(Matching(table, r))

RouteOf(table, r) == IF Matching(table, r) = {} THEN 0 ELSE Min(Matching(table, r))

\* The middlewares of a table whose prefix the path starts with, in
\* registration order.
Active(table, r) ==
  LET upTo[k \in 0..Len(table)] ==
        IF k = 0 THEN <<>>
        ELSE IF IsPrefix(table[k], r.path) THEN Append(upTo[k - 1], k) ELSE upTo[k - 1]
  IN  upTo[Len(table)]

\* Bugs of run_next: idx is not advanced (EnteredOnceInOrder), the handler runs
\* although a middleware has not called next (HandlerBehindChain), the last
\* middleware is left out (NoneSkipped).
run_nextStays(act, i, s, past, runs) ==
  IF i < Len(act)
  THEN /\ idx' = i
       /\ stack' = Append(s, i + 1)
       /\ entered' = Append(past, act[i + 1])
       /\ ran' = runs
  ELSE /\ idx' = i
       /\ stack' = Append(s, Len(act) + 1)
       /\ entered' = past
       /\ ran' = runs + 1

run_nextEager(act, i, s, past, runs) ==
  /\ idx' = IF i < Len(act) THEN i + 1 ELSE i
  /\ stack' = Append(s, IF i < Len(act) THEN i + 1 ELSE Len(act) + 1)
  /\ entered' = IF i < Len(act) THEN Append(past, act[i + 1]) ELSE past
  /\ ran' = runs + 1

run_nextShort(act, i, s, past, runs) ==
  IF i + 1 < Len(act)
  THEN /\ idx' = i + 1
       /\ stack' = Append(s, i + 1)
       /\ entered' = Append(past, act[i + 1])
       /\ ran' = runs
  ELSE /\ idx' = i
       /\ stack' = Append(s, Len(act) + 1)
       /\ entered' = past
       /\ ran' = runs + 1

\* run_next, when the calls on s are under way, i middlewares of act have been
\* entered (past) and the handler runs times: the next middleware, or the handler.
run_next(act, i, s, past, runs) ==
  IF i < Len(act)
  THEN /\ idx' = i + 1
       /\ stack' = Append(s, i + 1)
       /\ entered' = Append(past, act[i + 1])
       /\ ran' = runs
  ELSE /\ idx' = i
       /\ stack' = Append(s, Len(act) + 1)
       /\ entered' = past
       /\ ran' = runs + 1

dispatch ==
  /\ ~ Running /\ seen < MaxRequests
  /\ seen' = seen + 1
  /\ \E r \in Requests :
       LET route == RouteOf(routes_, r)
           act   == Active(middlewares_, r)
       IN  /\ request' = r
           /\ \/ /\ route = 0
                 /\ phase' = "unmatched"
                 /\ UNCHANGED <<matched, pathParams, active, idx, stack, calls, entered, ran>>
              \/ /\ route # 0
                 /\ phase' = "running"
                 /\ matched' = route
                 /\ pathParams' = match(routes_[route].pattern, r.path).params
                 /\ active' = act
                 /\ calls' = [k \in 1..Len(act) |-> 0]
                 /\ run_next(act, 0, <<>>, <<>>, 0)
  /\ UNCHANGED tables

\* A middleware calls next.
CallNext ==
  /\ Running
  /\ LET top == Last(stack)
     IN  /\ top <= Len(active) /\ calls[top] < MaxCalls
         /\ calls' = [calls EXCEPT ![top] = @ + 1]
         /\ run_next(active, idx, stack, entered, ran)
  /\ UNCHANGED <<tables, phase, chosen>>

\* A middleware or the handler returns; with the last one dispatch does.
Return ==
  /\ Running
  /\ stack' = Front(stack)
  /\ phase' = IF Len(stack) = 1 THEN "matched" ELSE phase
  /\ UNCHANGED <<tables, chosen, idx, calls, entered, ran>>

\* One of them throws: nothing in the chain or in dispatch catches it.
Throw ==
  /\ Running
  /\ stack' = <<>>
  /\ phase' = "threw"
  /\ UNCHANGED <<tables, chosen, idx, calls, entered, ran>>

Next == add \/ use \/ dispatch \/ CallNext \/ Return \/ Throw

Spec == Init /\ [][Next]_vars

-------------------------------------------------------------------------------
(***************************************************************************)
(* Properties.                                                             *)
(***************************************************************************)
\* Every variable has its type.
TypeOK ==
  /\ \A i \in 1..Len(routes_) : routes_[i] \in [method : Methods, pattern : Patterns]
  /\ \A k \in 1..Len(middlewares_) : middlewares_[k] \in Guarded
  /\ seen \in 0..MaxRequests
  /\ phase \in {"idle", "running", "matched", "unmatched", "threw"}
  /\ request \in Requests
  /\ matched \in 0..Len(routes_)
  /\ \A k \in 1..Len(active) : active[k] \in 1..Len(middlewares_)
  /\ idx \in 0..Len(active)
  /\ Running = (stack # <<>>)
  /\ \A k \in 1..Len(stack) : stack[k] \in 1..(Len(active) + 1)
  /\ calls \in [1..Len(active) -> 0..MaxCalls]
  /\ ran \in Nat

\* For one request no middleware is entered twice, and they are entered in the
\* order of their registration, however often the middlewares call next: idx
\* is shared by all the calls of run_next.
EnteredOnceInOrder ==
  \A i, j \in 1..Len(entered) : i < j => entered[i] < entered[j]

\* The handler runs behind every active middleware: as long as none of them
\* calls next twice, the handler is entered at most once, from inside all of
\* them, and not at all when one of them has not called next ("short-circuit
\* or pass-through").
HandlerBehindChain ==
  Running /\ (\A k \in 1..Len(active) : calls[k] <= 1) =>
    /\ ran <= 1
    /\ ran = 1 => \A k \in 1..Len(active) : calls[k] = 1
    /\ Last(stack) = Len(active) + 1 => stack = [k \in 1..(Len(active) + 1) |-> k]

\* The middlewares that apply to the request, whatever the chain did before:
\* when the handler is entered, each of them has been.
NoneSkipped ==
  Running /\ ran > 0 => ToSet(entered) = ToSet(Active(middlewares_, request))

\* Registering a route never takes a request away from the route it had: the
\* first that was registered wins.
EarlierRouteStands ==
  [][\A r \in Requests :
       RouteOf(routes_, r) # 0 => RouteOf(routes_', r) = RouteOf(routes_, r)]_routes_

\* A prefix of whole literal segments guards the routes below it, those whose
\* pattern starts with its segments: for a request that has such a route, the
\* middleware is active exactly if the path begins with a slash.  Matching works
\* on segments, the prefix test on the text of the path ("runs only when request
\* path starts with prefix", router.hpp:58), so that is not the same comparison;
\* what they differ in is the slash that split makes optional: the target "a/b"
\* has the route "/a/b" and passes by a guard on "/a".
PrefixGuards ==
  Running =>
    \A k \in 1..Len(middlewares_) :
      LET guard == split(middlewares_[k])
      IN  /\ middlewares_[k] # <<>> /\ Head(middlewares_[k]) = "/"
          /\ Last(middlewares_[k]) # "/"
          /\ \A i \in 1..Len(guard) : ~ IsParam(guard[i]) /\ ~ IsWildcard(guard[i])
          /\ IsPrefix(guard, split(routes_[matched].pattern))
          => (k \in ToSet(active) <=> request.path # <<>> /\ Head(request.path) = "/")
===============================================================================
