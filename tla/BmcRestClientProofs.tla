------------------------- MODULE BmcRestClientProofs -------------------------
(***************************************************************************)
(* Proofs about BmcRestClient, for any goroutines and disturbances.        *)
(*                                                                         *)
(* What a caller is told depends on what its call may still become.        *)
(* CallInv says which method a call is in, when it can be repeated, and    *)
(* that only the repetition is left without a request.                     *)
(***************************************************************************)
EXTENDS BmcRestClient, TLAPS

\* A call that is not repeated has its own method, and a request once it is past Build;
\* with basic credentials only DELETE is repeated. Only GET is redirected, and its
\* repetition, which has no body, is never sent.
CallInv == \A p \in Goroutines :
    /\ method[p] = IF recalled[p] THEN Reason ELSE call[p]
    /\ recalled[p] \/ pc[p] = "recall" =>
          authType = "RedfishSessionAuth" \/ call[p] = "DELETE"
    /\ pc[p] = "recall" => ~recalled[p]
    /\ pc[p] \in {"check", "send"} /\ ~recalled[p] => request[p]
    /\ redirected[p] => call[p] = "GET"
    /\ pc[p] \in {"check", "send"} /\ recalled[p] => BodyIsBytes(p)

\* Nobody can read an error of another goroutine's repetition with basic credentials.
ErrInv == authType = "BasicAuth" => ~err

RestInv == TypeOK /\ CallInv /\ ErrInv /\ ResultsAreTrue

USE DEF BodyIsBytes, Reply

-----------------------------------------------------------------------------
(* The invariant.                                                          *)

LEMMA InitRest == Init => RestInv
<1> SUFFICES ASSUME Init PROVE RestInv
  OBVIOUS
<1>1. TypeOK
  <2>1. /\ recalled \in [Goroutines -> BOOLEAN] /\ request \in [Goroutines -> BOOLEAN]
        /\ redirected \in [Goroutines -> BOOLEAN]
    BY Zenon DEF Init, NoCalls
  <2>2. err \in BOOLEAN
    BY DEF Init, NoCalls
  <2>3. /\ token \in [Goroutines -> {"none", "valid", "refused"}]
        /\ pc \in [Goroutines -> Places]
        /\ call \in [Goroutines -> Methods]
        /\ method \in [Goroutines -> Methods \cup {Reason}]
    BY DEF Init, NoCalls, Places, Methods
  <2>4. result \in [Goroutines -> Results] /\ executed \in [Goroutines -> 0 .. 1]
    BY DEF Init, NoCalls, Results
  <2>5. authType \in {"BasicAuth", "RedfishSessionAuth"} /\ budget \in 0 .. MaxDisturbances
    BY RestAssumption DEF Init
  <2> QED BY <2>1, <2>2, <2>3, <2>4, <2>5 DEF TypeOK
<1>2. CallInv
  BY DEF Init, NoCalls, CallInv
<1>3. ErrInv
  BY DEF Init, NoCalls, ErrInv
<1>4. ResultsAreTrue
  <2> SUFFICES ASSUME NEW p \in Goroutines
               PROVE  /\ executed[p] = 0
                      /\ executed[p] <= 1
                      /\ result[p] \notin {"answered", "redirected", "unbuilt", "unauthorized"}
    BY Zenon DEF ResultsAreTrue
  <2> QED BY RestAssumption DEF Init, NoCalls
<1> QED BY <1>1, <1>2, <1>3, <1>4 DEF RestInv

\* After a panic every goroutine is where it was at first.
LEMMA PanicKeeps == RestInv /\ Panic => RestInv'
<1> SUFFICES ASSUME RestInv, Panic PROVE RestInv'
  OBVIOUS
<1>1. TypeOK'
  <2>1. (/\ recalled \in [Goroutines -> BOOLEAN] /\ request \in [Goroutines -> BOOLEAN]
         /\ redirected \in [Goroutines -> BOOLEAN])'
    BY Zenon DEF Panic
  <2>2. (err \in BOOLEAN)'
    BY DEF Panic
  <2>3. (/\ token \in [Goroutines -> {"none", "valid", "refused"}]
         /\ pc \in [Goroutines -> Places]
         /\ call \in [Goroutines -> Methods]
         /\ method \in [Goroutines -> Methods \cup {Reason}])'
    BY DEF Panic, Places, Methods
  <2>4. (result \in [Goroutines -> Results] /\ executed \in [Goroutines -> 0 .. 1])'
    BY DEF Panic, Results
  <2>5. (authType \in {"BasicAuth", "RedfishSessionAuth"} /\ budget \in 0 .. MaxDisturbances)'
    BY DEF Panic, RestInv, TypeOK
  <2> QED BY <2>1, <2>2, <2>3, <2>4, <2>5 DEF TypeOK
<1>2. CallInv'
  BY DEF Panic, CallInv
<1>3. ErrInv'
  BY DEF Panic, ErrInv
<1>4. ResultsAreTrue'
  <2> SUFFICES ASSUME NEW p \in Goroutines
               PROVE  (/\ executed[p] = 0
                       /\ result[p] \notin {"answered", "redirected", "unbuilt", "unauthorized"})'
    BY <1>1 DEF ResultsAreTrue, TypeOK
  <2> QED BY RestAssumption DEF Panic
<1> QED BY <1>1, <1>2, <1>3, <1>4 DEF RestInv

\* Clients come and go, sessions end: no call is touched.
LEMMA ClientsKeep ==
  ASSUME RestInv, NEW p \in Goroutines, NewRestClient(p) \/ Forget(p) \/ Expire(p)
  PROVE  RestInv'
<1>1. CASE NewRestClient(p)
  BY <1>1, RestAssumption DEF NewRestClient, NewToken, Disturb, callVars, RestInv, TypeOK,
     CallInv, ErrInv,
     ResultsAreTrue, Places
<1>2. CASE Forget(p)
  BY <1>2 DEF Forget, callVars, RestInv, TypeOK, CallInv, ErrInv, ResultsAreTrue, Places
<1>3. CASE Expire(p)
  BY <1>3, RestAssumption DEF Expire, Disturb, callVars, RestInv, TypeOK, CallInv, ErrInv,
     ResultsAreTrue, Places
<1> QED BY <1>1, <1>2, <1>3

LEMMA BeginKeeps ==
  ASSUME RestInv, NEW p \in Goroutines, NEW m \in Methods, Begin(p, m)
  PROVE  RestInv'
<1>1. TypeOK'
  BY DEF Begin, RestInv, TypeOK, Places, Results
<1>2. CallInv' /\ ErrInv'
  BY DEF Begin, RestInv, TypeOK, CallInv, ErrInv
<1>3. ResultsAreTrue'
  BY RestAssumption DEF Begin, RestInv, TypeOK, ResultsAreTrue
<1> QED BY <1>1, <1>2, <1>3 DEF RestInv

\* With basic credentials a repetition, always of DELETE, is never built.
LEMMA BuildKeeps ==
  ASSUME RestInv, NEW p \in Goroutines, Build(p)
  PROVE  RestInv'
<1>1. authType = "BasicAuth" => ~recalled[p]
  BY DEF Build, BodyPanics, RestInv, CallInv, Reason, TypeOK, Methods
<1>2. ~recalled[p] => method[p] \in Methods
  BY DEF RestInv, CallInv, TypeOK
<1>3. ErrInv'
  BY <1>1, <1>2 DEF Build, ErrInv, RestInv
<1>4. TypeOK'
  BY DEF Build, RestInv, TypeOK, Places
<1>5. CallInv'
  <2>1. recalled[p] => BodyIsBytes(p)
    BY DEF Build, BodyPanics, Reason, RestInv, CallInv
  <2> QED BY <1>2, <2>1 DEF Build, RestInv, TypeOK, CallInv
<1>6. ResultsAreTrue'
  BY DEF Build, RestInv, TypeOK, ResultsAreTrue
<1> QED BY <1>3, <1>4, <1>5, <1>6 DEF RestInv

LEMMA CheckKeeps ==
  ASSUME RestInv, NEW p \in Goroutines, Check(p)
  PROVE  RestInv'
  BY DEF Check, Return, RestInv, TypeOK, CallInv, ErrInv, ResultsAreTrue, Places, Results

LEMMA SendKeeps ==
  ASSUME RestInv, NEW p \in Goroutines,
         Answered(p) \/ Unauthorized(p) \/ Redirected(p) \/ Broken(p)
  PROVE  RestInv'
<1>1. CASE Answered(p)
  BY <1>1 DEF Answered, Sending, Return, RestInv, TypeOK, CallInv, ErrInv, ResultsAreTrue,
     Places, Results
<1>2. CASE Unauthorized(p)
  BY <1>2 DEF Unauthorized, RecallsWithToken, Sending, Return, RestInv, TypeOK, CallInv,
     ErrInv, ResultsAreTrue, Places, Results
<1>3. CASE Redirected(p)
  BY <1>3, RestAssumption DEF Redirected, Sending, Disturb, callVars, RestInv, TypeOK,
     CallInv, ErrInv,
     ResultsAreTrue, Places
<1>4. CASE Broken(p)
  BY <1>4, RestAssumption DEF Broken, Sending, Disturb, Return, RestInv, TypeOK, CallInv,
     ErrInv,
     ResultsAreTrue, Places, Results
<1> QED BY <1>1, <1>2, <1>3, <1>4

LEMMA RecallKeeps ==
  ASSUME RestInv, NEW p \in Goroutines, Recall(p) \/ RecallFails(p)
  PROVE  RestInv'
<1>1. CASE Recall(p)
  BY <1>1, RestAssumption DEF Recall, NewToken, Disturb, MethodOfRecall, RestInv, TypeOK,
     CallInv, ErrInv,
     ResultsAreTrue, Places
<1>2. CASE RecallFails(p)
  BY <1>2, RestAssumption DEF RecallFails, Disturb, Return, RestInv, TypeOK, CallInv, ErrInv,
     ResultsAreTrue,
     Places, Results
<1> QED BY <1>1, <1>2

\* Every step of a goroutine keeps the invariant.
LEMMA NextRest == RestInv /\ [Next]_vars => RestInv'
<1> SUFFICES ASSUME RestInv, [Next]_vars PROVE RestInv'
  OBVIOUS
<1>1. CASE UNCHANGED vars
  BY <1>1 DEF vars, callVars, RestInv, TypeOK, CallInv, ErrInv, ResultsAreTrue
<1>2. CASE Next
  <2>1. PICK p \in Goroutines :
          \/ NewRestClient(p) \/ Forget(p) \/ Expire(p)
          \/ \E m \in Methods : Begin(p, m)
          \/ Step(p)
    BY <1>2 DEF Next
  <2>2. CASE NewRestClient(p) \/ Forget(p) \/ Expire(p)
    BY <2>2, ClientsKeep
  <2>3. CASE \E m \in Methods : Begin(p, m)
    BY <2>3, BeginKeeps
  <2>4. CASE Build(p) \/ Check(p)
    BY <2>4, BuildKeeps, CheckKeeps
  <2>5. CASE BuildPanic(p) \/ SendPanic(p)
    BY <2>5, PanicKeeps DEF BuildPanic, SendPanic
  <2>6. CASE Answered(p) \/ Unauthorized(p) \/ Redirected(p) \/ Broken(p)
    BY <2>6, SendKeeps
  <2>7. CASE Recall(p) \/ RecallFails(p)
    BY <2>7, RecallKeeps
  <2> QED BY <2>1, <2>2, <2>3, <2>4, <2>5, <2>6, <2>7 DEF Step
<1> QED BY <1>1, <1>2

\* RestInv holds in every state.
LEMMA RestInvHolds == Spec => []RestInv
  BY InitRest, NextRest, PTL DEF Spec

-----------------------------------------------------------------------------
(* The theorems.                                                           *)

\* Every variable keeps to its set; no call is executed twice.
THEOREM RestTypeCorrect == Spec => []TypeOK
<1>1. RestInv => TypeOK
  BY DEF RestInv
<1> QED BY <1>1, RestInvHolds, PTL

\* What a caller is told is what ODIM has done.
THEOREM ResultsTrue == Spec => []ResultsAreTrue
<1>1. RestInv => ResultsAreTrue
  BY DEF RestInv
<1> QED BY <1>1, RestInvHolds, PTL

\* A goroutine without a request, or with a body it cannot send, is repeating its call.
LEMMA PanicsAreRecalls ==
  ASSUME RestInv, NEW q \in Goroutines, BuildPanic(q) \/ SendPanic(q)
  PROVE  recalled[q] /\ ~Idle(q)
<1>1. CASE BuildPanic(q)
  BY <1>1 DEF BuildPanic, BodyPanics, Idle, RestInv, CallInv, TypeOK, Methods
<1>2. CASE SendPanic(q)
  BY <1>2 DEF SendPanic, Idle, RestInv, CallInv
<1> QED BY <1>1, <1>2

\* Only the repetition of a call with a new token can end the process.
THEOREM OnlyRecallsEnd == Spec => OnlyRecallsEndTheProcess
<1> DEFINE Ends == \E p \in Goroutines : ~Idle(p) /\ pc'[p] = "none"
           Repeats == \E q \in Goroutines : recalled[q] /\ ~Idle(q)
<1>1. RestInv /\ [Next]_vars => [Ends => Repeats]_vars
  <2> SUFFICES ASSUME RestInv, Next, Ends PROVE Repeats
    OBVIOUS
  <2>1. PICK p \in Goroutines : ~Idle(p) /\ pc'[p] = "none"
    OBVIOUS
  <2>2. PICK q \in Goroutines :
          \/ NewRestClient(q) \/ Forget(q) \/ Expire(q)
          \/ \E m \in Methods : Begin(q, m)
          \/ Step(q)
    BY DEF Next
  <2>3. CASE BuildPanic(q) \/ SendPanic(q)
    BY <2>3, PanicsAreRecalls
  <2>4. CASE ~(BuildPanic(q) \/ SendPanic(q))
    BY <2>1, <2>2, <2>4 DEF Step, NewRestClient, Forget, Expire, Begin, Build, Check, Answered,
       Unauthorized, Redirected, Broken, Recall, RecallFails, Return, Idle, RestInv, TypeOK,
     Sending
  <2> QED BY <2>3, <2>4
<1> QED BY <1>1, RestInvHolds, PTL DEF Spec, OnlyRecallsEndTheProcess

=============================================================================
