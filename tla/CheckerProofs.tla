---------------------------- MODULE CheckerProofs ----------------------------
(***************************************************************************)
(* Theorems about module Checker, for every set of checks, addresses and   *)
(* hosts, every timeout and every number of redirects.                     *)
(***************************************************************************)
EXTENDS Checker, TLAPS

\* Where an attempt is tells what it has done.
Progress ==
    /\ pc = "call" => clock = 0 /\ deadline = None
    /\ pc \in {"call", "resolve", "dial", "connecting", "request"} => result = None
    /\ running => ForSpec(spec) /\ target \in Hosts

\* The name h leads to a, and the guard lets a through.
LeadsTo(h, a) == a \in UNION Resolutions[h] /\ permitted(a)

\* Every connection, the kept ones included, leads where its host's name does; and
\* where an attempt is tells which connections it has.
Connections ==
    /\ pc \in {"dial", "connecting"} => addrs \subseteq UNION Resolutions[target]
    /\ pc \in {"connecting", "request", "draining"} => LeadsTo(target, conn)
    /\ \A h \in Hosts, a \in Addresses : <<h, a>> \in idle => LeadsTo(h, a)
    /\ pc \in {"request", "draining"} => open = {conn}
    /\ pc \in {"call", "resolve", "dial", "connecting", "returning", "returned"} => open = {}
    /\ pc \in {"draining", "returning"} => spec.type = "http"
    /\ spec.type # "http" \/ pc \in {"call", "returned"} => idle = {}

Inv == TypeOK /\ Progress /\ Connections

-----------------------------------------------------------------------------
(* Lemmas.                                                                 *)

\* The fields of a check that was admitted.
LEMMA SpecFields ==
    ASSUME spec \in Specs
    PROVE  /\ spec.host \in Hosts
           /\ spec.timeout \in Nat \cup {None}
           /\ ForSpec(spec) => timeout \in Nat /\ unlessZero \in Nat \cup {None}
BY SpecsAssumption, TypesAssumption DEF ForSpec, timeout, unlessZero

\* The initial states satisfy the invariant.
LEMMA InvInit == Init => Inv
BY BoundsAssumption DEF Init, Inv, TypeOK, Progress, Connections, running

\* A call sets the target and the deadline.
LEMMA CallKeepsInv ==
    ASSUME Inv, NEW type, NEW d \in Nat \cup {None}, Call(type, d)
    PROVE  Inv'
<1>1. TypeOK' /\ Progress'
    BY SpecFields DEF Inv, TypeOK, Progress, Call, ForSpec, running, fixed, connections, outcome
<1>2. Connections'
    BY DEF Inv, Connections, LeadsTo, permitted, Call, fixed, connections
<1> QED
    BY <1>1, <1>2 DEF Inv

\* A connection is made to an address.
LEMMA ConnectionAddress ==
    ASSUME Inv, pc \in {"connecting", "request", "draining"}
    PROVE  LeadsTo(target, conn) /\ conn \in Addresses /\ conn # None
<1>1. target \in Hosts /\ LeadsTo(target, conn)
    BY DEF Inv, Progress, Connections, running
<1> QED
    BY <1>1, AddressesAssumption, NoneAssumption DEF LeadsTo, Hosts

\* A connection that the transport keeps is one that it had or the one in use.
LEMMA ReleaseKeeps ==
    ASSUME Inv, pc \in {"resolve", "dial", "connecting", "request", "draining"},
           spec.type = "http", Release, UNCHANGED fixed
    PROVE  /\ open' = {} /\ idle' \subseteq Hosts \X Addresses
           /\ \A h \in Hosts, a \in Addresses : <<h, a>> \in idle' => LeadsTo(h, a)'
<1>1. target \in Hosts /\ open \subseteq Addresses /\ idle \subseteq Hosts \X Addresses
    BY DEF Inv, TypeOK, Progress, running
<1>2. \A a \in open : LeadsTo(target, a)
    BY DEF Inv, Connections
<1>3. \A h \in Hosts, a \in Addresses : <<h, a>> \in idle => LeadsTo(h, a)
    BY DEF Inv, Connections
<1>4. \A h, a : LeadsTo(h, a)' <=> LeadsTo(h, a)
    BY DEF LeadsTo, permitted, fixed
<1> QED
    BY <1>1, <1>2, <1>3, <1>4 DEF Release

\* An attempt that fails before it has an answer keeps no connection in use, unless
\* it is one of gRPC's.
LEMMA FailKeepsInv ==
    ASSUME Inv, pc \in {"dial", "resolve", "connecting", "request"}, Fail,
           IF spec.type = "http" THEN Release ELSE UNCHANGED <<open, idle>>,
           UNCHANGED <<fixed, request, addrs, conn, status, timing>>
    PROVE  Inv'
<1>1. running /\ pc' \in {"closing", "returning"} /\ result' = FALSE
      /\ (pc' = "returning" => spec.type = "http")
    BY DEF Fail, running
<1>2. /\ spec.type = "http" => open' = {} /\ idle' \subseteq Hosts \X Addresses
      /\ \A h \in Hosts, a \in Addresses : <<h, a>> \in idle' => LeadsTo(h, a)'
    <2>1. CASE spec.type = "http"
        BY <2>1, ReleaseKeeps
    <2>2. CASE spec.type # "http"
        BY <2>2 DEF Inv, Connections, LeadsTo, permitted, fixed
    <2> QED
        BY <2>1, <2>2
<1>3. TypeOK' /\ Progress'
    BY <1>1, <1>2 DEF Inv, TypeOK, Progress, running, ForSpec, fixed, request, timing
<1>4. Connections'
    BY <1>1, <1>2 DEF Inv, Connections, fixed, request, timing, Fail
<1> QED
    BY <1>3, <1>4 DEF Inv

\* A redirect goes on along a connection that leads to its target, or along none.
LEMMA RedirectKeepsInv ==
    ASSUME Inv, NEW h \in Hosts, Redirected(h)
    PROVE  Inv'
<1>1. PICK kept \in {idle, idle \cup ({target} \X open)} :
         \/ pc' = "resolve" /\ conn' = None /\ open' = {} /\ idle' = kept
         \/ \E a \in Addresses :
              /\ <<h, a>> \in kept
              /\ pc' = "request" /\ conn' = a /\ open' = {a} /\ idle' = kept \ {<<h, a>>}
    BY DEF Redirected
<1>2. /\ pc = "request" /\ spec.type = "http" /\ target \in Hosts /\ target' = h
      /\ ForSpec(spec) /\ redirects' \in 0 .. MaxRedirects
      /\ UNCHANGED <<fixed, addrs, outcome, timing>>
    BY BoundsAssumption DEF Redirected, mayRedirect, Inv, TypeOK, Progress, running
<1>3. /\ kept \subseteq Hosts \X Addresses
      /\ \A g \in Hosts, a \in Addresses : <<g, a>> \in kept => LeadsTo(g, a)
    <2>1. open \subseteq Addresses /\ idle \subseteq Hosts \X Addresses
        BY DEF Inv, TypeOK
    <2>2. \A a \in open : LeadsTo(target, a)
        BY <1>2 DEF Inv, Connections
    <2>3. \A g \in Hosts, a \in Addresses : <<g, a>> \in idle => LeadsTo(g, a)
        BY DEF Inv, Connections
    <2> QED
        BY <1>2, <2>1, <2>2, <2>3
<1>4. \A g, a : LeadsTo(g, a)' <=> LeadsTo(g, a)
    BY <1>2 DEF LeadsTo, permitted, fixed
<1>5. CASE pc' = "resolve" /\ conn' = None /\ open' = {} /\ idle' = kept
    <2>1. TypeOK' /\ Progress'
        BY <1>2, <1>3, <1>5 DEF Inv, TypeOK, Progress, running, ForSpec, fixed, outcome, timing
    <2>2. Connections'
        BY <1>2, <1>3, <1>4, <1>5 DEF Connections, fixed
    <2> QED
        BY <2>1, <2>2 DEF Inv
<1>6. ASSUME NEW a \in Addresses, <<h, a>> \in kept,
             pc' = "request", conn' = a, open' = {a}, idle' = kept \ {<<h, a>>}
      PROVE  Inv'
    <2>1. TypeOK' /\ Progress'
        BY <1>2, <1>3, <1>6 DEF Inv, TypeOK, Progress, running, ForSpec, fixed, outcome, timing
    <2>2. Connections'
        <3>1. LeadsTo(target, conn)'
            BY <1>2, <1>3, <1>4, <1>6 DEF LeadsTo, permitted, fixed
        <3> QED
            BY <1>2, <1>3, <1>4, <1>6, <3>1 DEF Connections, fixed
    <2> QED
        BY <2>1, <2>2 DEF Inv
<1> QED
    BY <1>1, <1>5, <1>6

\* Every step preserves the invariant.
LEMMA InvNext == Inv /\ [Next]_vars => Inv'
<1> SUFFICES ASSUME Inv, [Next]_vars PROVE Inv'
    OBVIOUS
<1> USE DEF Inv, TypeOK, Progress, Connections, LeadsTo, permitted, running, ForSpec, Return,
            Health, fixed, request, connections, outcome, timing
<1>1. CASE CheckTCP
    <2>1. ForSpec(spec)
        BY <1>1 DEF CheckTCP, Call
    <2>2. unlessZero \in Nat \cup {None}
        BY <2>1, SpecFields DEF unlessZero
    <2> QED
        BY <1>1, <2>2, CallKeepsInv DEF CheckTCP
<1>2. CASE CheckHTTP
    <2>1. ForSpec(spec)
        BY <1>2 DEF CheckHTTP, Call
    <2>2. unlessZero \in Nat \cup {None}
        BY <2>1, SpecFields DEF unlessZero
    <2> QED
        BY <1>2, <2>2, CallKeepsInv DEF CheckHTTP
<1>3. CASE CheckGRPC
    <2>1. ForSpec(spec)
        BY <1>3 DEF CheckGRPC, Call
    <2>2. timeout \in Nat \cup {None}
        BY <2>1, SpecFields
    <2> QED
        BY <1>3, <2>2, CallKeepsInv DEF CheckGRPC
<1>4. CASE Unknown
    BY <1>4 DEF Unknown
<1>5. CASE Resolve
    <2>1. /\ addrs' \subseteq Addresses /\ addrs' \subseteq UNION Resolutions[target]
          /\ pc = "resolve" /\ pc' = "dial"
          /\ UNCHANGED <<fixed, request, conn, open, idle, outcome, timing>>
        BY <1>5, AddressesAssumption DEF Resolve, Hosts
    <2> QED
        BY <2>1
<1>6. ASSUME NEW a \in Addresses, Dial(a)
      PROVE  Inv'
    BY <1>6 DEF Dial
<1>7. CASE DialFails
    <2>1. open = {} /\ Release
        BY <1>7 DEF DialFails, Release
    <2> QED
        BY <1>7, <2>1, FailKeepsInv DEF DialFails
<1>8. CASE ConnectTCP
    BY <1>8, ConnectionAddress DEF ConnectTCP
<1>9. CASE Connect
    BY <1>9, ConnectionAddress DEF Connect
<1>10. CASE Refuse
    BY <1>10 DEF Refuse
<1>11. ASSUME NEW s \in Statuses, Answered(s)
       PROVE  Inv'
    BY <1>11 DEF Answered
<1>12. ASSUME NEW s \in Health, HealthAnswered(s)
       PROVE  Inv'
    BY <1>12 DEF HealthAnswered
<1>13. ASSUME NEW h \in Hosts, Redirected(h)
       PROVE  Inv'
    BY <1>13, RedirectKeepsInv
<1>14. CASE RequestFails
    BY <1>14, FailKeepsInv DEF RequestFails
<1>15. CASE BodyArrives
    <2>1. /\ pc = "draining" /\ pc' = "closing" /\ spec.type = "http"
          /\ UNCHANGED <<fixed, request, addrs, conn, outcome, timing>>
        BY <1>15 DEF BodyArrives
    <2>2. /\ open' \subseteq Addresses /\ idle' \subseteq Hosts \X Addresses
          /\ \A h \in Hosts, a \in Addresses : <<h, a>> \in idle' => LeadsTo(h, a)'
        <3>1. CASE Release
            BY <2>1, <3>1, ReleaseKeeps
        <3>2. CASE UNCHANGED <<open, idle>>
            BY <2>1, <3>2
        <3> QED
            BY <1>15, <3>1, <3>2 DEF BodyArrives
    <2> QED
        BY <2>1, <2>2
<1>16. CASE Aborted
    BY <1>16, FailKeepsInv DEF Aborted
<1>17. CASE Close
    BY <1>17 DEF Close
<1>18. CASE CloseIdleConnections
    BY <1>18 DEF CloseIdleConnections
<1>19. CASE Tick
    BY <1>19 DEF Tick
<1>20. CASE Cancel
    BY <1>20 DEF Cancel
<1>21. CASE UNCHANGED vars
    BY <1>21 DEF vars
<1> QED
    BY <1>1, <1>2, <1>3, <1>4, <1>5, <1>6, <1>7, <1>8, <1>9, <1>10, <1>11, <1>12, <1>13,
       <1>14, <1>15, <1>16, <1>17, <1>18, <1>19, <1>20, <1>21 DEF Next

\* The invariant holds in every reachable state.
LEMMA InvHolds == Spec => []Inv
<1>1. Inv /\ [Next]_vars => Inv'
    BY InvNext
<1> QED
    BY InvInit, <1>1, PTL DEF Spec

-----------------------------------------------------------------------------
(* Theorems.                                                               *)

\* Type correctness of an attempt, for every configuration; the redirects
\* followed never exceed the limit.
THEOREM TypeCorrect == Spec => []TypeOK
<1>1. Inv => TypeOK
    BY DEF Inv
<1> QED
    BY InvHolds, <1>1, PTL

\* An attempt that has returned has left no connection open: neither the one in use,
\* however its answer ended, nor one that the transport kept on the way.
THEOREM ClosesAll == Spec => []NothingLeftOpen
<1>1. Inv => NothingLeftOpen
    BY DEF Inv, Connections, NothingLeftOpen
<1> QED
    BY InvHolds, <1>1, PTL

\* The deadline of an attempt is its timeout, and is not passed.
Timely ==
    running /\ timeout # 0 =>
        deadline = timeout /\ timeout \in Nat /\ clock <= deadline

\* Every step but a call, a tick and a cancellation leaves time alone.
LEMMA TimeSteps ==
    ASSUME [Next]_vars
    PROVE  /\ spec' = spec
           /\ \/ Tick
              \/ CheckTCP \/ CheckHTTP \/ CheckGRPC
              \/ UNCHANGED <<clock, deadline>> /\ (running' => running)
<1> USE DEF running, fixed, timing
<1>1. CASE CheckTCP \/ CheckHTTP \/ CheckGRPC
    BY <1>1 DEF CheckTCP, CheckHTTP, CheckGRPC, Call
<1>2. CASE Tick
    BY <1>2 DEF Tick
<1>3. CASE ~(CheckTCP \/ CheckHTTP \/ CheckGRPC) /\ ~Tick
    BY <1>3 DEF Next, vars, Unknown, Resolve, Dial, DialFails, ConnectTCP, Connect, Refuse,
       Answered, HealthAnswered, Redirected, RequestFails, BodyArrives, Aborted, Close, CloseIdleConnections, Cancel
<1> QED
    BY <1>1, <1>2, <1>3

\* The timeout covers lookup, addresses, redirects and drain together.
THEOREM TimeCorrect == Spec => []InTime
<1>1. Init => Timely
    BY DEF Init, Timely, running
<1>2. Inv /\ Timely /\ [Next]_vars => Timely'
    <2> SUFFICES ASSUME Inv, Timely, [Next]_vars
                 PROVE  Timely'
        OBVIOUS
    <2>1. spec' = spec /\ timeout' = timeout
        BY TimeSteps DEF timeout
    <2>2. CASE Tick
        BY <2>1, <2>2, NoneAssumption DEF Tick, Timely, Limited, running, Inv, TypeOK
    <2>3. CASE CheckTCP \/ CheckHTTP \/ CheckGRPC
        <3>1. ForSpec(spec) /\ pc = "call" /\ clock' = clock
            BY <2>3 DEF CheckTCP, CheckHTTP, CheckGRPC, Call
        <3>2. timeout \in Nat /\ clock = 0
            BY <3>1, SpecFields DEF Inv, TypeOK, Progress
        <3>3. timeout # 0 => deadline' = timeout
            BY <2>3 DEF CheckTCP, CheckHTTP, CheckGRPC, Call, unlessZero
        <3> QED
            BY <2>1, <3>1, <3>2, <3>3 DEF Timely
    <2>4. CASE UNCHANGED <<clock, deadline>> /\ (running' => running)
        BY <2>1, <2>4 DEF Timely
    <2> QED
        BY <2>2, <2>3, <2>4, TimeSteps
<1>3. Timely => InTime
    BY NoneAssumption DEF Timely, InTime, Limited
<1> QED
    BY InvHolds, <1>1, <1>2, <1>3, PTL DEF Spec

\* How the outcome comes about.
LEMMA OutcomeSteps ==
    ASSUME Inv, [Next]_vars
    PROVE  /\ UNCHANGED fixed
           /\ \/ result' = None
              \/ result' = result /\ UNCHANGED <<conn, target, addrs, status>>
              \/ result' = FALSE /\ UNCHANGED <<conn, addrs, timing>>
                 /\ (addrs = {} \/ aborted \/ conn # None)
              \/ result' = TRUE /\ UNCHANGED <<conn, target>>
                 /\ LeadsTo(target, conn) /\ ForSpec(spec)
                 /\ (spec.type = "http" => status' \in expectedStatus)
                 /\ (spec.type = "grpc" => status' = "SERVING")
<1> USE DEF Inv, TypeOK, Progress, running, Return, fixed, request, connections, outcome, timing
<1>0. pc \in {"connecting", "request"} => LeadsTo(target, conn) /\ conn # None
    BY ConnectionAddress
<1>1. ASSUME NEW s \in Statuses, Answered(s)
      PROVE  /\ UNCHANGED <<fixed, conn, target, addrs, timing>>
             /\ LeadsTo(target, conn) /\ conn # None /\ ForSpec(spec)
             /\ result' \in BOOLEAN
             /\ result' = TRUE => status' \in expectedStatus /\ spec.type = "http"
    <2>1. /\ UNCHANGED <<fixed, conn, target, addrs, timing>>
          /\ LeadsTo(target, conn) /\ conn # None /\ ForSpec(spec)
          /\ status' = s /\ spec.type = "http"
        BY <1>0, <1>1 DEF Answered
    <2>2. result' = (s \in expectedStatus)
        BY <1>1 DEF Answered
    <2>3. CASE s \in expectedStatus
        <3>1. result' = TRUE
            BY <2>2, <2>3, Zenon
        <3> QED
            BY <2>1, <2>3, <3>1
    <2>4. CASE s \notin expectedStatus
        <3>1. (s \in expectedStatus) = FALSE
            BY <2>4
        <3>2. result' = FALSE
            BY <2>2, <3>1
        <3> QED
            BY <2>1, <3>2
    <2> QED
        BY <2>3, <2>4
<1>2. ASSUME NEW s \in Health, HealthAnswered(s)
      PROVE  /\ UNCHANGED <<fixed, conn, target, addrs, timing>>
             /\ LeadsTo(target, conn) /\ conn # None /\ ForSpec(spec)
             /\ result' \in BOOLEAN
             /\ result' = TRUE => status' = "SERVING" /\ spec.type = "grpc"
    BY <1>0, <1>2 DEF HealthAnswered
<1>3. CASE ConnectTCP
    BY <1>0, <1>3 DEF ConnectTCP
<1>4. CASE DialFails \/ RequestFails \/ Aborted
    BY <1>0, <1>4 DEF DialFails, RequestFails, Aborted, Fail
<1>5. CASE CheckTCP \/ CheckHTTP \/ CheckGRPC \/ Unknown \/ Resolve \/ Connect \/ Refuse
    BY <1>5 DEF CheckTCP, CheckHTTP, CheckGRPC, Call, Unknown, Resolve, Connect, Refuse
<1>6. CASE (\E a \in Addresses : Dial(a)) \/ (\E h \in Hosts : Redirected(h))
    BY <1>6 DEF Dial, Redirected
<1>7. CASE BodyArrives \/ Close \/ CloseIdleConnections \/ Tick \/ Cancel \/ UNCHANGED vars
    BY <1>7 DEF BodyArrives, Close, CloseIdleConnections, Tick, Cancel, vars
<1> QED
    BY <1>1, <1>2, <1>3, <1>4, <1>5, <1>6, <1>7 DEF Next

\* Success is observed only of the target that the attempt ended up with, at an
\* address that its name leads to and that the guard lets through, and on an answer
\* that was asked for.
THEOREM EvidenceCorrect == Spec => []ObservedHasEvidence
<1>1. Init => ObservedHasEvidence
    BY NoneAssumption DEF Init, ObservedHasEvidence
<1>2. Inv /\ ObservedHasEvidence /\ [Next]_vars => ObservedHasEvidence'
    <2> SUFFICES ASSUME Inv, ObservedHasEvidence, [Next]_vars, result' = TRUE
                 PROVE  ObservedHasEvidence'
        BY DEF ObservedHasEvidence
    <2>1. UNCHANGED fixed
        BY OutcomeSteps
    <2>2. CASE result' = result /\ UNCHANGED <<conn, target, addrs, status>>
        BY <2>1, <2>2 DEF ObservedHasEvidence, ForSpec, fixed
    <2>3. CASE /\ UNCHANGED <<conn, target>> /\ LeadsTo(target, conn) /\ ForSpec(spec)
               /\ spec.type = "http" => status' \in expectedStatus
               /\ spec.type = "grpc" => status' = "SERVING"
        BY <2>1, <2>3 DEF ObservedHasEvidence, ForSpec, expectedStatus, LeadsTo, permitted, fixed
    <2> QED
        BY <2>2, <2>3, OutcomeSteps, NoneAssumption
<1> QED
    BY InvHolds, <1>1, <1>2, PTL DEF Spec

\* An attempt that is over its time or cancelled stays so.
LEMMA StaysAborted ==
    ASSUME Inv, [Next]_vars, aborted, result # None
    PROVE  aborted'
<1> USE DEF Inv, TypeOK, Progress, running, aborted, Limited, timing
<1>1. CASE Tick
    BY <1>1 DEF Tick
<1>2. CASE Cancel
    BY <1>2 DEF Cancel
<1>3. CASE ~Tick /\ ~Cancel
    BY <1>3 DEF Next, vars, CheckTCP, CheckHTTP, CheckGRPC, Call, Unknown, Resolve, Dial,
       DialFails, ConnectTCP, Connect, Refuse, Answered, HealthAnswered, Redirected,
       RequestFails, BodyArrives, Aborted, Close, CloseIdleConnections
<1> QED
    BY <1>1, <1>2, <1>3

\* An attempt with time left that reached no server has tried every address.
THEOREM HasteCorrect == Spec => []NoHastyFailure
<1>1. Init => NoHastyFailure
    BY DEF Init, NoHastyFailure
<1>2. Inv /\ NoHastyFailure /\ [Next]_vars => NoHastyFailure'
    <2> SUFFICES ASSUME Inv, NoHastyFailure, [Next]_vars,
                        result' = FALSE, ~aborted', conn' = None
                 PROVE  addrs' = {}
        BY DEF NoHastyFailure
    <2>1. CASE result' = result /\ UNCHANGED <<conn, target, addrs, status>>
        BY <2>1, StaysAborted, NoneAssumption DEF NoHastyFailure
    <2>2. CASE /\ result' = FALSE /\ UNCHANGED <<conn, addrs, timing>>
               /\ addrs = {} \/ aborted \/ conn # None
        BY <2>2, NoneAssumption DEF aborted, Limited, timing, Inv, TypeOK
    <2> QED
        BY <2>1, <2>2, OutcomeSteps, NoneAssumption
<1> QED
    BY InvHolds, <1>1, <1>2, PTL DEF Spec
=============================================================================
