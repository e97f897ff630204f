------------------------------- MODULE Faults -------------------------------
(***************************************************************************)
(* Injected faults (core/faults, transport/faults.go and the front door of *)
(* transport/transport.go): a list of armed rules that requests are        *)
(* matched against before anything else sees them.  Match runs under the   *)
(* set's lock; a rule with a latency then keeps its request waiting on the *)
(* clock, and by the time it wakes the rules may have changed.             *)
(*                                                                         *)
(* A path is a model value, a rule's path the set of paths it covers, and  *)
(* a rate the fraction num/den (num = 0: no rate).  The float product of   *)
(* the code is exact for the rates modelled.                               *)
(***************************************************************************)
EXTENDS Integers, Sequences, FiniteSets, SequencesExt

CONSTANTS MaxRequests, \* bound on requests, numbered as they arrive
          Paths, Admin,\* paths of the API, and one of the control surface
          Rules,       \* the rules a test may arm
          MaxArmed     \* bound on rules ever armed

VARIABLES rules,       \* Set.rules: [id, rule, left, seen, failed]
          request,     \* request[r]: [at, path, rule]
          history      \* ghost: for each rule ever armed, the rule, whether it
                       \* is still armed, and what it did to each request it
                       \* claimed, in order: TRUE is hit, FALSE let through

vars == <<rules, request, history>>

Requests == 1..MaxRequests
NoRule == [paths |-> {}, status |-> 0, latency |-> FALSE, count |-> 0, num |-> 0, den |-> 1]
New == [at |-> "new", path |-> Admin, rule |-> NoRule]

Init ==
    /\ rules = <<>>
    /\ request = [r \in Requests |-> New]
    /\ history = <<>>

\* Rule.matches, and the rules of addFault: a path is required and a status is
\* an error's or zero.
matches(rule, path) == path \in rule.paths

Acceptable(rule) == rule.paths # {} /\ rule.num <= rule.den /\ rule.status \in {0} \cup 400..599

\* A latency-only rule slows a request that then succeeds.
FailsRequest(rule) == rule.status # 0 \/ ~rule.latency

\* int(float64(seen)*rate) <= failed: this request is let through.
RateLetsThrough(l) == l.rule.num > 0 /\ (l.seen * l.rule.num) \div l.rule.den <= l.failed

\* The first rule that claims the path, or 0.
First(path) ==
    LET claiming == {i \in DOMAIN rules : matches(rules[i].rule, path)}
    IN  IF claiming = {} THEN 0 ELSE CHOOSE i \in claiming : \A j \in claiming : i <= j

Armed(rule) == [rule |-> rule, how |-> "armed", hits |-> <<>>]
Disarmed ==
    [id \in DOMAIN history |->
        IF history[id].how = "armed" THEN [history[id] EXCEPT !.how = "cleared"] ELSE history[id]]
Noted(id, hit, armed) ==
    [history EXCEPT ![id].hits = Append(@, hit), ![id].how = IF armed THEN @ ELSE "spent"]

-----------------------------------------------------------------------------
\* POST /_emu/faults, or Set.Add.
Add(rule) ==
    /\ Len(history) < MaxArmed
    /\ Acceptable(rule)
    /\ rules' = Append(rules, [id |-> Len(history) + 1, rule |-> rule,
                               left |-> IF rule.count = 0 THEN -1 ELSE rule.count,
                               seen |-> 0, failed |-> 0])
    /\ history' = Append(history, Armed(rule))
    /\ UNCHANGED request

\* DELETE /_emu/faults.
Clear ==
    /\ rules # <<>>
    /\ rules' = <<>>
    /\ history' = Disarmed
    /\ UNCHANGED request

\* A fork or a restored snapshot arms what each rule has left; the pattern of
\* its rate starts again.
Snapshot ==
    /\ rules # <<>>
    /\ Len(history) + Len(rules) <= MaxArmed
    /\ LET left == [i \in DOMAIN rules |->
                       [rules[i].rule EXCEPT !.count = IF rules[i].left > 0 THEN rules[i].left ELSE @]]
       IN  /\ rules' = [i \in DOMAIN rules |->
                           [rules[i] EXCEPT !.id = Len(history) + i, !.rule = left[i],
                                            !.seen = 0, !.failed = 0]]
           /\ history' = Disarmed \o [i \in DOMAIN rules |-> Armed(left[i])]
    /\ UNCHANGED request

\* What becomes of a request once Match has answered.
Routed(path) == [at |-> "served", path |-> path, rule |-> NoRule]
Hit(path, rule) ==
    [at |-> IF rule.latency THEN "sleeping" ELSE "failed", path |-> path, rule |-> rule]


\* Set.Match and what inject does at once.  The first rule that claims the
\* request decides: when its rate lets the request through, no later rule is
\* tried.  A rule whose firings are used up is dropped.
Match(r, path) ==
    LET i == First(path)
        l == [rules[i] EXCEPT !.seen = @ + 1]
        left == IF l.left > 0 THEN l.left - 1 ELSE l.left
    IN  IF i = 0
        THEN /\ request' = [request EXCEPT ![r] = Routed(path)]
             /\ UNCHANGED <<rules, history>>
        ELSE IF RateLetsThrough(l)
        THEN /\ request' = [request EXCEPT ![r] = Routed(path)]
             /\ rules' = [rules EXCEPT ![i] = l]
             /\ history' = Noted(l.id, FALSE, TRUE)
        ELSE /\ request' = [request EXCEPT ![r] = Hit(path, l.rule)]
             /\ history' = Noted(l.id, TRUE, left # 0)
             /\ rules' = IF left = 0 THEN RemoveAt(rules, i)
                         ELSE [rules EXCEPT ![i] = [l EXCEPT !.failed = @ + 1, !.left = left]]

\* ServeHTTP, or the gRPC interceptor: the control surface is exempt.
ServeHTTP(r, path) ==
    /\ request[r].at = "new"
    /\ \A q \in 1..(r - 1) : request[q].at # "new"
    /\ IF path = Admin
       THEN /\ request' = [request EXCEPT ![r] = Routed(path)]
            /\ UNCHANGED <<rules, history>>
       ELSE Match(r, path)

\* The latency elapses on the clock: the rule it was matched with, armed or not
\* by now, decides what is answered.
Wake(r) ==
    /\ request[r].at = "sleeping"
    /\ request' = [request EXCEPT ![r].at = IF FailsRequest(request[r].rule) THEN "failed" ELSE "served"]
    /\ UNCHANGED <<rules, history>>

\* The client gives up first.
GiveUp(r) ==
    /\ request[r].at = "sleeping"
    /\ request' = [request EXCEPT ![r].at = "gone"]
    /\ UNCHANGED <<rules, history>>

Next ==
    \/ \E rule \in Rules : Add(rule)
    \/ Clear \/ Snapshot
    \/ \E r \in Requests :
           \/ \E p \in Paths \cup {Admin} : ServeHTTP(r, p)
           \/ Wake(r) \/ GiveUp(r)

Spec == Init /\ [][Next]_vars

-----------------------------------------------------------------------------
\* The shapes of the rules and of the requests.
TypeOK ==
    /\ \A i \in DOMAIN rules : rules[i].left \in {-1} \cup 1..MaxArmed /\ rules[i].id \in DOMAIN history
    /\ \A r \in Requests : request[r].at \in {"new", "served", "failed", "sleeping", "gone"}

Failures(s) == Cardinality({k \in DOMAIN s : s[k]})

=============================================================================
