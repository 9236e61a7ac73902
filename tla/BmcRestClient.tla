---------------------------- MODULE BmcRestClient ----------------------------
(***************************************************************************)
(* The calls that the operator's goroutines make to ODIM.                  *)
(*                                                                         *)
(* A reconcile and every tick of the polling loop make a client of their   *)
(* own (controllers/restclient/restClient.go).  With session credentials   *)
(* a client holds a token; a call that is answered with 401 is made again  *)
(* with a new one (session.go).  sendRequest keeps the error of            *)
(* http.NewRequest in a variable of the package, which all goroutines      *)
(* share, and a panic of any of them ends the process.                     *)
(***************************************************************************)
EXTENDS Naturals

CONSTANTS
    Goroutines,       \* reconcilers, polling loop, event handlers
    None,
    Disturbances,     \* what may happen to a call from outside
    MaxDisturbances   \* how often it may

DisturbanceKinds == {"expire", "fault", "lost", "redirect", "badSession"}

ASSUME RestAssumption ==
    /\ None \notin {"answered", "redirected", "unauthorized", "unbuilt", "failed"}
    /\ Disturbances \subseteq DisturbanceKinds
    /\ MaxDisturbances \in Nat

VARIABLES
    authType,    \* type of ODIM's secret
    token,       \* per goroutine, whether ODIM takes the credentials of its client
    pc,          \* its place in the call
    call,        \* the method its caller asked for
    method,      \* the argument method of the sendRequest it is in
    redirected,  \* whether Get calls itself after a 308
    recalled,    \* whether this is the call with the new token
    request,     \* req: whether there is one
    err,         \* the variable err of the package
    result,      \* what the last call returned
    executed,    \* how often ODIM has executed the call
    budget       \* disturbances still to come

callVars == <<call, method, redirected, recalled, request, result, executed>>
vars == <<authType, token, pc, callVars, err, budget>>

-----------------------------------------------------------------------------
(* The state.                                                              *)

Methods == {"GET", "DELETE", "POST"}   \* PATCH and PUT are as POST

\* The reason of a call is a sentence for the log and no HTTP method.
Reason == "reason"

Places == {"none", "ready", "build", "check", "send", "recall"}
Results == {None, "answered", "redirected", "unauthorized", "unbuilt", "failed"}

Idle(p) == pc[p] \in {"none", "ready"}

\* Post, Patch and Put are given bytes, Get and Delete the empty string.
BodyIsBytes(p) == call[p] = "POST"

NoCalls ==
    /\ token = [p \in Goroutines |-> "none"]
    /\ pc = [p \in Goroutines |-> "none"]
    /\ call = [p \in Goroutines |-> "GET"]
    /\ method = [p \in Goroutines |-> "GET"]
    /\ redirected = [p \in Goroutines |-> FALSE]
    /\ recalled = [p \in Goroutines |-> FALSE]
    /\ request = [p \in Goroutines |-> FALSE]
    /\ result = [p \in Goroutines |-> None]
    /\ executed = [p \in Goroutines |-> 0]
    /\ err = FALSE

Init ==
    /\ authType \in {"BasicAuth", "RedfishSessionAuth"}
    /\ NoCalls
    /\ budget = MaxDisturbances

Disturb(kind) ==
    /\ kind \in Disturbances /\ budget > 0
    /\ budget' = budget - 1

\* The process ends and starts again; its goroutines and their clients are gone.
Panic ==
    /\ token' = [p \in Goroutines |-> "none"]
    /\ pc' = [p \in Goroutines |-> "none"]
    /\ call' = [p \in Goroutines |-> "GET"]
    /\ method' = [p \in Goroutines |-> "GET"]
    /\ redirected' = [p \in Goroutines |-> FALSE]
    /\ recalled' = [p \in Goroutines |-> FALSE]
    /\ request' = [p \in Goroutines |-> FALSE]
    /\ result' = [p \in Goroutines |-> None]
    /\ executed' = [p \in Goroutines |-> 0]
    /\ err' = FALSE
    /\ UNCHANGED <<authType, budget>>

\* What the caller is told of a reply r of ODIM: Get returns the body of the call it
\* made after a 308, and the status of the 308.
Reply(p, r) == IF redirected[p] THEN "redirected" ELSE r

\* The call of p returns r to its caller.
Return(p, r) ==
    /\ result' = [result EXCEPT ![p] = r]
    /\ pc' = [pc EXCEPT ![p] = "ready"]

-----------------------------------------------------------------------------
(* Clients and tokens.                                                     *)

\* mutant: the status line is kept whatever the answer is
NewTokenIsStatus(p) == token' = [token EXCEPT ![p] = "status"] /\ UNCHANGED budget

\* getXAuthToken: a session, or, when the answer is neither 201 nor 401, the status
\* line in the place of a token.
NewToken(p) ==
    \/ token' = [token EXCEPT ![p] = "valid"] /\ UNCHANGED budget
    \/ Disturb("badSession") /\ token' = [token EXCEPT ![p] = "refused"]

\* NewRestClient and getNewRestClient.  When they fail the reconcile ends.
NewRestClient(p) ==
    /\ pc[p] = "none"
    /\ IF authType = "RedfishSessionAuth"
       THEN NewToken(p)
       ELSE token' = [token EXCEPT ![p] = "valid"] /\ UNCHANGED budget
    /\ pc' = [pc EXCEPT ![p] = "ready"]
    /\ UNCHANGED <<authType, callVars, err>>

\* The reconcile ends, and its client with it.
Forget(p) ==
    /\ pc[p] = "ready"
    /\ pc' = [pc EXCEPT ![p] = "none"]
    /\ token' = [token EXCEPT ![p] = "none"]
    /\ UNCHANGED <<authType, callVars, err, budget>>

\* ODIM ends the session, or the password is changed.
Expire(p) ==
    /\ token[p] = "valid"
    /\ Disturb("expire")
    /\ token' = [token EXCEPT ![p] = "refused"]
    /\ UNCHANGED <<authType, pc, callVars, err>>

-----------------------------------------------------------------------------
(* A call.                                                                 *)

\* Post, Patch, Put, Delete or Get is called.
Begin(p, m) ==
    /\ pc[p] = "ready"
    /\ pc' = [pc EXCEPT ![p] = "build"]
    /\ call' = [call EXCEPT ![p] = m]
    /\ method' = [method EXCEPT ![p] = m]
    /\ redirected' = [redirected EXCEPT ![p] = FALSE]
    /\ recalled' = [recalled EXCEPT ![p] = FALSE]
    /\ request' = [request EXCEPT ![p] = FALSE]
    /\ result' = [result EXCEPT ![p] = None]
    /\ executed' = [executed EXCEPT ![p] = 0]
    /\ UNCHANGED <<authType, token, err, budget>>

BodyPanicsOnDelete(p) == method[p] # "GET" /\ ~BodyIsBytes(p)   \* mutant: GET only

\* A body that is no []byte is asserted to be one unless the method says there is none.
BodyPanics(p) == method[p] \notin {"GET", "DELETE"} /\ ~BodyIsBytes(p)

\* req, err = http.NewRequest(...): an unknown method is refused.
Build(p) ==
    /\ pc[p] = "build" /\ ~BodyPanics(p)
    /\ request' = [request EXCEPT ![p] = method[p] \in Methods]
    /\ err' = (method[p] \notin Methods)
    /\ pc' = [pc EXCEPT ![p] = "check"]
    /\ UNCHANGED <<authType, token, call, method, redirected, recalled, result, executed, budget>>

BuildPanic(p) == pc[p] = "build" /\ BodyPanics(p) /\ Panic

CheckAgain(p) ==   \* mutant: a request that could not be built is built again
    /\ pc[p] = "check"
    /\ pc' = [pc EXCEPT ![p] = IF err THEN "build" ELSE "send"]
    /\ UNCHANGED <<authType, token, callVars, err, budget>>

\* if err != nil, which another goroutine may have set since.
Check(p) ==
    /\ pc[p] = "check"
    /\ IF err
       THEN Return(p, "unbuilt")
       ELSE pc' = [pc EXCEPT ![p] = "send"] /\ UNCHANGED result
    /\ UNCHANGED <<authType, token, call, method, redirected, recalled, request, err, executed, budget>>

\* req.Header of a request that was not built.
SendPanic(p) == pc[p] = "send" /\ ~request[p] /\ Panic

Sending(p) == pc[p] = "send" /\ request[p]

Answered(p) ==
    /\ Sending(p) /\ token[p] = "valid"
    /\ executed' = [executed EXCEPT ![p] = @ + 1]
    /\ Return(p, Reply(p, "answered"))
    /\ UNCHANGED <<authType, token, call, method, redirected, recalled, request, err, budget>>

RecallsWithoutSession(p) == ~recalled[p]   \* mutant: with basic credentials, too

\* 401 to the first call: Delete asks for a token whatever the credentials are.
\* 401 to the second one is the answer.
RecallsWithToken(p) ==
    ~recalled[p] /\ (authType = "RedfishSessionAuth" \/ call[p] = "DELETE")

Unauthorized(p) ==
    /\ Sending(p) /\ token[p] = "refused"
    /\ IF RecallsWithToken(p)
       THEN pc' = [pc EXCEPT ![p] = "recall"] /\ UNCHANGED result
       ELSE Return(p, Reply(p, "unauthorized"))
    /\ UNCHANGED <<authType, token, call, method, redirected, recalled, request, err, executed, budget>>

\* Get follows 308 by calling itself. The error of that call is its own, but neither
\* its 200 nor its 401 is told to the caller.
Redirected(p) ==
    /\ Sending(p) /\ call[p] = "GET" /\ ~recalled[p]
    /\ Disturb("redirect")
    /\ pc' = [pc EXCEPT ![p] = "build"]
    /\ redirected' = [redirected EXCEPT ![p] = TRUE]
    /\ UNCHANGED <<authType, token, call, method, recalled, request, err, result, executed>>

\* The connection fails, before or after ODIM has executed the call.
Broken(p) ==
    /\ Sending(p)
    /\ \/ Disturb("fault") /\ UNCHANGED executed
       \/ /\ Disturb("lost") /\ token[p] = "valid"
          /\ executed' = [executed EXCEPT ![p] = @ + 1]
    /\ Return(p, "failed")
    /\ UNCHANGED <<authType, token, call, method, redirected, recalled, request, err>>

\* RecallWithNewToken is called with the method and the reason exchanged.
MethodOfRecall(p) == Reason

Recall(p) ==
    /\ pc[p] = "recall"
    /\ NewToken(p)
    /\ method' = [method EXCEPT ![p] = MethodOfRecall(p)]
    /\ recalled' = [recalled EXCEPT ![p] = TRUE]
    /\ request' = [request EXCEPT ![p] = FALSE]
    /\ pc' = [pc EXCEPT ![p] = "build"]
    /\ UNCHANGED <<authType, call, redirected, err, result, executed>>

\* getNewTokenAndUpdateOdimClient fails.
RecallFails(p) ==
    /\ pc[p] = "recall"
    /\ Disturb("badSession")
    /\ Return(p, "failed")
    /\ UNCHANGED <<authType, token, call, method, redirected, recalled, request, err, executed>>

-----------------------------------------------------------------------------
(* The system.                                                             *)

Step(p) ==
    \/ Build(p) \/ BuildPanic(p) \/ Check(p) \/ SendPanic(p)
    \/ Answered(p) \/ Unauthorized(p) \/ Redirected(p) \/ Broken(p)
    \/ Recall(p) \/ RecallFails(p)

Next == \E p \in Goroutines :
    \/ NewRestClient(p) \/ Forget(p) \/ Expire(p)
    \/ \E m \in Methods : Begin(p, m)
    \/ Step(p)

Spec == Init /\ [][Next]_vars

\* A goroutine in a call goes on; nobody has to make a call.
FairSpec == Spec /\ \A p \in Goroutines : WF_vars(Step(p))

-----------------------------------------------------------------------------
(* Properties.                                                             *)

\* Every variable keeps to its set; a client's token is one that ODIM takes or refuses,
\* and no call is executed twice.
TypeOK ==
    /\ authType \in {"BasicAuth", "RedfishSessionAuth"}
    /\ token \in [Goroutines -> {"none", "valid", "refused"}]
    /\ pc \in [Goroutines -> Places]
    /\ call \in [Goroutines -> Methods]
    /\ method \in [Goroutines -> Methods \cup {Reason}]
    /\ redirected \in [Goroutines -> BOOLEAN]
    /\ recalled \in [Goroutines -> BOOLEAN]
    /\ request \in [Goroutines -> BOOLEAN]
    /\ err \in BOOLEAN
    /\ result \in [Goroutines -> Results]
    /\ executed \in [Goroutines -> 0 .. 1]
    /\ budget \in 0 .. MaxDisturbances

\* What a caller is told is what happened: an answer stands for one execution, a
\* call that was refused or could not be built for none, and with a broken
\* connection ODIM has executed the call at most once, new token or not.  With basic
\* credentials nobody is told that a call could not be built: no repetition puts an
\* error into err that another goroutine could take for its own.  A 308 is told of
\* reads only; with session credentials the body that comes with it is an answer,
\* with basic ones it may be that of a refusal.
ResultsAreTrue == \A p \in Goroutines :
    /\ result[p] = "answered" => executed[p] = 1
    /\ result[p] = "redirected" =>
           call[p] = "GET" /\ (authType = "RedfishSessionAuth" => executed[p] = 1)
    /\ result[p] \in {"unbuilt", "unauthorized"} => executed[p] = 0
    /\ pc[p] \in {"build", "check", "send", "recall"} => executed[p] = 0
    /\ executed[p] <= 1
    /\ authType = "BasicAuth" => result[p] # "unbuilt"

\* The process ends in a call only when some goroutine is repeating one.
OnlyRecallsEndTheProcess ==
    [][(\E p \in Goroutines : ~Idle(p) /\ pc'[p] = "none") =>
        \E q \in Goroutines : recalled[q] /\ ~Idle(q)]_vars

\* Every call returns, or the process ends: the repetition is made once.
CallsReturn == \A p \in Goroutines : ~Idle(p) ~> Idle(p)

=============================================================================
