------------------------------ MODULE Checker ------------------------------
(***************************************************************************)
(* One probe attempt (internal/checker): a checker is picked by the type   *)
(* of the check, the name of its target is resolved, each address passes   *)
(* the guard before it is dialed, and what the target answers decides the  *)
(* observation.  HTTP follows redirects, each of them resolved and guarded *)
(* anew, or sent on a connection that its transport has kept.  The timeout *)
(* and the pod's context end the attempt at any point; then its deferred   *)
(* calls close what is left.                                               *)
(***************************************************************************)
EXTENDS Integers

CONSTANTS
    Specs,          \* checks: [type, host, timeout, expected]
    Newer,          \* a probe type this runner image does not know
    DefaultTimeout, \* type -> the timeout of a check that sets none
    Addresses,
    Guarded,        \* the addresses that the guard's test names: loopback and
                    \* link-local ones, as they are written.  Of an address
                    \* that the kernel takes there by another name it says
                    \* nothing, and neither does this module.
    Resolutions,    \* host -> the sets of addresses it may resolve to
    Statuses,       \* HTTP status codes
    StatusOK,       \* 200
    MaxRedirects,   \* 9 in net/http: the tenth redirect is an error
    MaxTime,        \* bound of the clock of a probe without a deadline
    None

\* What the runner registers.
Types == {"tcp", "http", "grpc"}
Hosts == DOMAIN Resolutions
Health == {"SERVING", "NOT_SERVING"}

ASSUME SpecsAssumption ==
    Specs \subseteq [type: Types \cup {Newer}, host: Hosts, timeout: Nat \cup {None},
                     expected: SUBSET Statuses]
ASSUME TypesAssumption == Newer \notin Types /\ DefaultTimeout \in [Types -> Nat \ {0}]
ASSUME AddressesAssumption ==
    Guarded \subseteq Addresses /\ Resolutions \in [Hosts -> SUBSET SUBSET Addresses]
ASSUME StatusAssumption == StatusOK \in Statuses /\ Statuses \cap Health = {}
ASSUME BoundsAssumption == MaxRedirects \in Nat /\ MaxTime \in Nat
ASSUME NoneAssumption ==
    None \notin Nat \cup Addresses \cup Hosts \cup Statuses \cup Health \cup BOOLEAN

VARIABLES
    spec,        \* the check, as the API server admitted it
    allowLocal,  \* --allow-local-targets
    pc,          \* "call", "resolve", "dial", "connecting", "request",
                 \* "draining", "closing", "returning" or "returned"
    target,      \* the host of the current request
    addrs,       \* its addresses still to be dialed
    conn,        \* the address of the connection in use, or being made
    open,        \* the connection in use, once it is made
    idle,        \* connections the transport keeps, each for its host
    status,      \* the answer that was judged
    redirects,   \* redirects followed
    clock,       \* time since the call
    deadline,    \* when the timeout fires, or None
    cancelled,   \* is the pod's context done?
    result       \* Observed, or None

vars == <<spec, allowLocal, pc, target, addrs, conn, open, idle, status, redirects,
          clock, deadline, cancelled, result>>

fixed == <<spec, allowLocal>>
request == <<target, redirects>>
connections == <<addrs, conn, open, idle>>
outcome == <<status, result>>
timing == <<clock, deadline, cancelled>>

Init ==
    /\ spec \in Specs /\ allowLocal \in BOOLEAN
    /\ pc = "call"
    /\ target = None /\ addrs = {} /\ conn = None
    /\ open = {} /\ idle = {}
    /\ status = None /\ redirects = 0
    /\ clock = 0 /\ deadline = None
    /\ cancelled \in BOOLEAN
    /\ result = None

-----------------------------------------------------------------------------
(* Configuration.                                                          *)

\* ForSpec: no checker for a type the image does not know.
ForSpec(s) == s.type \in Types

timeout == IF spec.timeout = None THEN DefaultTimeout[spec.type] ELSE spec.timeout

\* BUG: an empty list expects nothing in particular.
anyStatus == IF spec.expected = {} THEN Statuses ELSE spec.expected

\* The HTTP statuses that count as success.
expectedStatus == IF spec.expected = {} THEN {StatusOK} ELSE spec.expected

\* BUG: the guard looks at the target of the check, not at where it leads.
permittedAtFirst(a) == allowLocal \/ a \notin Guarded \/ redirects > 0

\* dialControl: loopback and link-local addresses are refused by default.
permitted(a) == allowLocal \/ a \notin Guarded

Limited == deadline # None

\* BUG: the HTTP request is made without the pod's context.
abortedByTimeout == Limited /\ clock >= deadline

\* The context the attempt runs under is done.
aborted == cancelled \/ (Limited /\ clock >= deadline)

-----------------------------------------------------------------------------
(* The call.                                                               *)

\* An observation, of a target whose connection is open.
Return(observed) == pc' = "closing" /\ result' = observed

\* No observation: http.Client has no body to close then.
Fail == pc' = (IF spec.type = "http" THEN "returning" ELSE "closing") /\ result' = FALSE

\* An attempt of a known type begins, under the deadline d.
Call(type, d) ==
    /\ pc = "call" /\ ForSpec(spec) /\ spec.type = type
    /\ pc' = "resolve" /\ target' = spec.host /\ deadline' = d
    /\ UNCHANGED <<fixed, redirects, connections, outcome, clock, cancelled>>

\* To net.Dialer and http.Client a timeout of zero is none.
unlessZero == IF timeout = 0 THEN None ELSE timeout

\* The timeout is the dialer's.
CheckTCP == Call("tcp", unlessZero)

\* BUG: only the dialer gets the timeout, and only when one is set.
CheckHTTPUnlimited == Call("http", IF spec.timeout = None THEN None ELSE unlessZero)

\* The timeout is the client's: lookup, dials, redirects and body together.
CheckHTTP == Call("http", unlessZero)

\* The timeout is the context's: connection and call together.  A timeout of
\* zero has passed at once.
CheckGRPC == Call("grpc", timeout)

\* The runner reports an unknown type itself; nothing is probed.
Unknown ==
    /\ pc = "call" /\ ~ForSpec(spec)
    /\ pc' = "returned"
    /\ UNCHANGED <<fixed, request, connections, outcome, timing>>

-----------------------------------------------------------------------------
(* Dialing.                                                                *)

\* The name is looked up; to no address at all when that fails, or when the
\* URL or the address of the check holds no valid name.
Resolve ==
    /\ pc = "resolve" /\ ~aborted
    /\ addrs' \in Resolutions[target] \cup {{}}
    /\ pc' = "dial"
    /\ UNCHANGED <<fixed, request, conn, open, idle, outcome, timing>>

\* BUG: an address the guard refuses ends the whole attempt.
DialOnce(a) ==
    /\ pc = "dial" /\ ~aborted /\ a \in addrs
    /\ addrs' = addrs \ {a}
    /\ \/ permitted(a) /\ pc' = "connecting" /\ conn' = a /\ UNCHANGED result
       \/ ~permitted(a) /\ Fail /\ UNCHANGED conn
    /\ UNCHANGED <<fixed, request, open, idle, status, timing>>

\* The next address: Control runs with it before connect does.  A refusal by
\* the guard is the failure of this address only.
Dial(a) ==
    /\ pc = "dial" /\ ~aborted /\ a \in addrs
    /\ addrs' = addrs \ {a}
    /\ \/ permitted(a) /\ pc' = "connecting" /\ conn' = a
       \/ ~permitted(a) /\ UNCHANGED <<pc, conn>>
    /\ UNCHANGED <<fixed, request, open, idle, outcome, timing>>

\* No address is left: the dial fails, and a gRPC call that does not wait for
\* the server to be ready fails with it.
DialFails ==
    /\ pc = "dial" /\ addrs = {}
    /\ Fail
    /\ UNCHANGED <<fixed, request, connections, status, timing>>

\* The address accepts.  That is all a TCP check asks for.
ConnectTCP ==
    /\ pc = "connecting" /\ spec.type = "tcp"
    /\ open' = {conn}
    /\ Return(TRUE)
    /\ UNCHANGED <<fixed, request, addrs, conn, idle, status, timing>>

\* HTTP and gRPC go on to send their request.
Connect ==
    /\ pc = "connecting" /\ spec.type # "tcp"
    /\ open' = {conn}
    /\ pc' = "request"
    /\ UNCHANGED <<fixed, request, addrs, conn, idle, outcome, timing>>

\* It refuses, fails the handshake that gRPC counts to the connection, or uses up
\* its share of the timeout.
Refuse ==
    /\ pc = "connecting"
    /\ conn' = None /\ pc' = "dial"
    /\ UNCHANGED <<fixed, request, addrs, open, idle, outcome, timing>>

-----------------------------------------------------------------------------
(* The answer.                                                             *)

\* The HTTP transport is done with the connection in use: it keeps it for more
\* requests to the host, or closes it.
Release == open' = {} /\ idle' \in {idle, idle \cup ({target} \X open)}

\* The server answers with a final status.  The response leaves a body to
\* drain before the attempt returns.
Answered(s) ==
    /\ pc = "request" /\ spec.type = "http"
    /\ status' = s /\ result' = (s \in expectedStatus)
    /\ pc' = "draining"
    /\ UNCHANGED <<fixed, request, connections, timing>>

\* The health service answers.
HealthAnswered(s) ==
    /\ pc = "request" /\ spec.type = "grpc"
    /\ status' = s
    /\ Return(s = "SERVING")
    /\ UNCHANGED <<fixed, request, connections, timing>>

\* BUG: one redirect more.
anotherRedirect == redirects <= MaxRedirects

mayRedirect == redirects < MaxRedirects

\* The client follows a redirect: on a connection that is kept for the host and
\* still good, or on a new one.
Redirected(h) ==
    /\ pc = "request" /\ spec.type = "http" /\ mayRedirect
    /\ target' = h /\ redirects' = redirects + 1
    /\ \E kept \in {idle, idle \cup ({target} \X open)} :
         \/ pc' = "resolve" /\ conn' = None /\ open' = {} /\ idle' = kept
         \/ \E a \in Addresses :
              /\ <<h, a>> \in kept
              /\ pc' = "request" /\ conn' = a /\ open' = {a} /\ idle' = kept \ {<<h, a>>}
    /\ UNCHANGED <<fixed, addrs, outcome, timing>>

\* One redirect too many, a TLS handshake of HTTP that fails, a connection lost,
\* an RPC error.  The HTTP client has released the connection when it returns.
RequestFails ==
    /\ pc = "request"
    /\ Fail
    /\ IF spec.type = "http" THEN Release ELSE UNCHANGED <<open, idle>>
    /\ UNCHANGED <<fixed, request, addrs, conn, status, timing>>

\* The drain of the body ends.  With the end of the body the transport is done
\* with the connection; after 4096 bytes, or when the context has ended the wait
\* for more, the connection is still in use.
BodyArrives ==
    /\ pc = "draining"
    /\ pc' = "closing"
    /\ Release \/ UNCHANGED <<open, idle>>
    /\ UNCHANGED <<fixed, request, addrs, conn, outcome, timing>>

DrainAborted == aborted /\ BodyArrives

\* The timeout or SIGTERM ends the attempt: nothing was observed.  (A dial of the
\* HTTP transport that is under way then ends later; the transport closes what
\* comes of it.)
Aborted ==
    /\ pc \in {"resolve", "dial", "connecting", "request"} /\ aborted
    /\ Fail
    /\ IF spec.type = "http" THEN Release ELSE UNCHANGED <<open, idle>>
    /\ UNCHANGED <<fixed, request, addrs, conn, status, timing>>

-----------------------------------------------------------------------------
(* The deferred calls.                                                     *)

\* BUG: the body of the response is drained, but not closed.
CloseUnlessHTTP ==
    /\ pc = "closing"
    /\ pc' = IF spec.type = "http" THEN "returning" ELSE "returned"
    /\ open' = IF spec.type = "http" THEN open ELSE {}
    /\ UNCHANGED <<fixed, request, addrs, conn, idle, outcome, timing>>

\* The connection in use is closed: by itself for TCP, with the ClientConn for
\* gRPC, with the body of the response for HTTP.  There idle ones remain.
Close ==
    /\ pc = "closing"
    /\ pc' = IF spec.type = "http" THEN "returning" ELSE "returned"
    /\ open' = {}
    /\ UNCHANGED <<fixed, request, addrs, conn, idle, outcome, timing>>

\* BUG: idle connections stay with the attempt's transport.
KeepIdleConnections ==
    /\ pc = "returning" /\ pc' = "returned"
    /\ UNCHANGED <<fixed, request, connections, outcome, timing>>

CloseIdleConnections ==
    /\ pc = "returning" /\ pc' = "returned"
    /\ idle' = {}
    /\ UNCHANGED <<fixed, request, addrs, conn, open, outcome, timing>>

-----------------------------------------------------------------------------
(* Time and signals.                                                       *)

running == pc \notin {"call", "returned"}

\* Timers fire on time: the clock does not pass the deadline of a running
\* attempt.
Tick ==
    /\ running
    /\ clock < IF Limited THEN deadline ELSE MaxTime
    /\ clock' = clock + 1
    /\ UNCHANGED <<fixed, pc, request, connections, outcome, deadline, cancelled>>

\* SIGTERM: a user, an eviction, or at the latest the Job's deadline.
Cancel ==
    /\ ~cancelled /\ pc # "returned"
    /\ cancelled' = TRUE
    /\ UNCHANGED <<fixed, pc, request, connections, outcome, clock, deadline>>

Next ==
    \/ CheckTCP
    \/ CheckHTTP
    \/ CheckGRPC
    \/ Unknown
    \/ Resolve
    \/ \E a \in Addresses : Dial(a)
    \/ DialFails
    \/ ConnectTCP
    \/ Connect
    \/ Refuse
    \/ \E s \in Statuses : Answered(s)
    \/ \E s \in Health : HealthAnswered(s)
    \/ \E h \in Hosts : Redirected(h)
    \/ RequestFails
    \/ BodyArrives
    \/ Aborted
    \/ Close
    \/ CloseIdleConnections
    \/ Tick
    \/ Cancel

Spec == Init /\ [][Next]_vars

\* The process takes its own steps and timers fire, but nothing of the network
\* need ever happen: no lookup, connection, answer or rest of a body has to
\* arrive.  SIGTERM comes at the latest with the Job's activeDeadlineSeconds.
FairSpec ==
    /\ Spec
    /\ WF_vars(CheckTCP \/ CheckHTTP \/ CheckGRPC \/ Unknown)
    /\ WF_vars(DialFails \/ Aborted \/ DrainAborted \/ Close \/ CloseIdleConnections)
    /\ WF_vars(Tick)
    /\ WF_vars(Cancel)

-----------------------------------------------------------------------------
(* Correctness.                                                            *)

\* Type invariant.
TypeOK ==
    /\ spec \in Specs /\ allowLocal \in BOOLEAN
    /\ pc \in {"call", "resolve", "dial", "connecting", "request", "draining",
              "closing", "returning", "returned"}
    /\ target \in Hosts \cup {None}
    /\ addrs \subseteq Addresses
    /\ conn \in Addresses \cup {None}
    /\ open \subseteq Addresses /\ idle \subseteq Hosts \X Addresses
    /\ status \in Statuses \cup Health \cup {None}
    /\ redirects \in 0 .. MaxRedirects
    /\ clock \in Nat
    /\ deadline \in Nat \cup {None}
    /\ cancelled \in BOOLEAN
    /\ result \in BOOLEAN \cup {None}

\* Success is observed only of the target that the attempt ended up with, at an
\* address its name resolves to and, without --allow-local-targets, none that the
\* guard refuses, whichever names, redirects and kept connections lie between;
\* under a type the image knows; and for HTTP and gRPC only on an answer that was
\* asked for: a redirect, a timeout or a half-made connection is none.
ObservedHasEvidence ==
    result = TRUE =>
        /\ ForSpec(spec)
        /\ conn \in UNION Resolutions[target] /\ (conn \in Guarded => allowLocal)
        /\ spec.type = "http" =>
              status \in IF spec.expected = {} THEN {StatusOK} ELSE spec.expected
        /\ spec.type = "grpc" => status = "SERVING"

\* The reverse: an attempt that was neither timed out nor cancelled, and that
\* no server answered, fails only when every address of its target has
\* failed.  An address the guard refuses does not take the others with it.
NoHastyFailure ==
    result = FALSE /\ ~aborted /\ conn = None => addrs = {}

\* The timeout covers the attempt as a whole: lookup, every address, every
\* redirect and the drain of the body.  The exception is a timeout of zero.
\* (Tick lets no timer be late; that every step heeds it is EventuallyReturns.)
InTime == running /\ timeout # 0 => Limited /\ clock <= timeout

\* An attempt leaves no connection behind, for nobody reuses its transport:
\* neither the one in use, which a body that was not read to its end keeps in use,
\* nor an idle one, of an earlier redirect or of a body that was.
NothingLeftOpen == pc = "returned" => open = {} /\ idle = {}

\* Every attempt returns, though no packet ever comes back and though its
\* timeout may be zero.
EventuallyReturns == <>(pc = "returned")
=============================================================================
