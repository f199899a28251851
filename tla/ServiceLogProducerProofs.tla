---------------------- MODULE ServiceLogProducerProofs ----------------------
(***************************************************************************)
(* Proofs about ServiceLogProducer: the types, the bound on its pauses and *)
(* that it implements Producer.                                            *)
(***************************************************************************)
EXTENDS ServiceLogProducer, TLAPS

-----------------------------------------------------------------------------
(***************************************************************************)
(* Type correctness.                                                       *)
(***************************************************************************)

LEMMA EnvironmentType ==
  ASSUME TypeOK,
         ExpireToken \/ \E m \in Message : HandleRequest(m)
  PROVE  TypeOK'
<1>1. CASE ExpireToken
  <2>1. tokenAccepted' \in BOOLEAN
    BY <1>1, Zenon DEF ExpireToken
  <2>2. /\ UNCHANGED <<pc, message, TokenRefreshmentDelay, requests, reply,
                       waited, status, arrived>>
        /\ expiries' = expiries + 1
    BY <1>1 DEF ExpireToken, history
  <2> QED
    BY <2>1, <2>2 DEF TypeOK
<1>2. ASSUME NEW m \in Message, HandleRequest(m)
      PROVE  TypeOK'
  <2>1. /\ UNCHANGED <<pc, message, TokenRefreshmentDelay, tokenAccepted,
                       expiries, waited, status>>
        /\ requests' = requests \ {m}
        /\ arrived' \in {arrived, [arrived EXCEPT ![m] = arrived[m] + 1]}
        /\ reply' \in Reply
    BY <1>2 DEF HandleRequest, TypeOK, Reply
  <2>2. arrived' \in [Message -> Nat]
    BY <2>1 DEF TypeOK
  <2> QED
    BY <2>1, <2>2 DEF TypeOK
<1> QED
  BY <1>1, <1>2

LEMMA NextType == ASSUME TypeOK, Next PROVE TypeOK'
<1>1. CASE New
  BY <1>1 DEF New, TokenIssued, TypeOK, Phase, history
<1>2. ASSUME NEW m \in Message, ProduceMessage(m)
      PROVE  TypeOK'
  BY <1>2, MessageAssumption
     DEF ProduceMessage, Contract!ProduceMessage, TypeOK, Phase, serviceLog,
         Contract!Status
<1>3. CASE Post
  BY <1>3 DEF Post, TypeOK, Phase, Reply, history
<1>4. ASSUME NEW result \in {"sent", "failed"}, Return(result),
             pc \notin {"new", "idle", "dead"}
      PROVE  /\ pc' \in Phase
             /\ message' \in Message \union {NoMessage}
             /\ pc' \in {"new", "idle", "dead"} <=> message' = NoMessage
             /\ status' \in [Message -> Contract!Status]
  BY <1>4 DEF Return, TypeOK, Phase, Contract!Status
<1>5. CASE PostFails \/ ConnectionBreaks \/ RequestTimesOut
  BY <1>4, <1>5 DEF PostFails, ConnectionBreaks, RequestTimesOut, GiveUp,
                    TypeOK, Reply
<1>6. CASE ReceiveCreated
  BY <1>4, <1>6 DEF ReceiveCreated, TypeOK, Reply
<1>7. CASE ReceiveUnauthorized
  BY <1>7 DEF ReceiveUnauthorized, TypeOK, Phase, Reply, history
<1>8. CASE ReceiveUnexpectedStatus
  BY <1>4, <1>8 DEF ReceiveUnexpectedStatus, TypeOK, Reply
<1>9. CASE RefreshSucceeds
  BY <1>9, DelayAssumption DEF RefreshSucceeds, TokenIssued, TypeOK, Phase, history
<1>10. CASE RefreshFails
  <2>1. NextDelay \in Nat
    BY DEF NextDelay, TypeOK
  <2>2. UNCHANGED <<serviceLog, waited, arrived>> /\ TokenRefreshmentDelay' \in Nat
    BY <1>10, <2>1 DEF RefreshFails
  <2>3. CASE Return("failed")
    BY <1>4, <1>10, <2>2, <2>3 DEF RefreshFails, TypeOK, serviceLog
  <2>4. CASE pc' = "sleep" /\ UNCHANGED <<message, status>>
    BY <1>10, <2>2, <2>4 DEF RefreshFails, TypeOK, serviceLog, Phase
  <2> QED
    BY <1>10, <2>3, <2>4 DEF RefreshFails
<1>11. CASE Sleep
  BY <1>11 DEF Sleep, TypeOK, Phase, serviceLog, history
<1> QED
  BY <1>1, <1>2, <1>3, <1>5, <1>6, <1>7, <1>8, <1>9, <1>10, <1>11,
     EnvironmentType DEF Next, CallStep

\* Every variable keeps its type; a message is in hand exactly during a call.
THEOREM ServiceLogTypeCorrect == Spec => []TypeOK
<1>1. Init => TypeOK
  <2> SUFFICES ASSUME Init PROVE TypeOK
    OBVIOUS
  <2>1. tokenAccepted \in BOOLEAN
    BY Zenon DEF Init
  <2> QED
    BY <2>1, DelayAssumption, MessageAssumption
       DEF Init, Contract!Init, Contract!Status, TypeOK, Phase, Reply
<1>2. TypeOK /\ [Next]_vars => TypeOK'
  <2>1. TypeOK /\ UNCHANGED vars => TypeOK'
    BY DEF vars, serviceLog, history, TypeOK
  <2> QED
    BY <2>1, NextType
<1> QED
  BY <1>1, <1>2, PTL DEF Spec

-----------------------------------------------------------------------------
(***************************************************************************)
(* The pauses.                                                             *)
(***************************************************************************)

\* The time slept and the delay it was slept in.
LEMMA PausesInvariance == Spec => []PausesInv
<1>1. Init => PausesInv
  BY DelayAssumption DEF Init, PausesInv, PausesAreBounded
<1>2. TypeOK /\ PausesInv /\ [Next]_vars => PausesInv'
  <2> SUFFICES ASSUME TypeOK, PausesInv, [Next]_vars PROVE PausesInv'
    OBVIOUS
  <2> USE DelayAssumption DEF TypeOK, PausesInv, PausesAreBounded
  <2>1. ASSUME UNCHANGED <<TokenRefreshmentDelay, waited>>,
               pc' = pc \/ pc' \in {"idle", "post", "dead"}
        PROVE  PausesInv'
    BY <2>1
  <2>2. CASE New \/ ReceiveCreated \/ ReceiveUnexpectedStatus
    BY <2>1, <2>2 DEF New, ReceiveCreated, ReceiveUnexpectedStatus, Return
  <2>11. CASE PostFails \/ ConnectionBreaks \/ RequestTimesOut
    BY <2>1, <2>11 DEF PostFails, ConnectionBreaks, RequestTimesOut, GiveUp,
                       Return
  <2>3. CASE \E m \in Message : ProduceMessage(m) \/ HandleRequest(m)
    BY <2>1, <2>3 DEF ProduceMessage, HandleRequest
  <2>4. CASE ExpireToken
    BY <2>1, <2>4 DEF ExpireToken
  <2>5. CASE Post
    BY <2>5 DEF Post
  <2>6. CASE ReceiveUnauthorized
    BY <2>6 DEF ReceiveUnauthorized
  <2>7. CASE RefreshSucceeds
    BY <2>7 DEF RefreshSucceeds
  <2>8. CASE RefreshFails
    BY <2>8 DEF RefreshFails, NextDelay, Return
  <2>9. CASE Sleep
    BY <2>9 DEF Sleep
  <2>10. CASE UNCHANGED vars
    BY <2>10 DEF vars
  <2> QED
    BY <2>2, <2>3, <2>4, <2>5, <2>6, <2>7, <2>8, <2>9, <2>10, <2>11
       DEF Next, CallStep
<1> QED
  BY <1>1, <1>2, ServiceLogTypeCorrect, PTL DEF Spec

\* The pauses between two requests of one message add up to less than twice
\* the threshold (ProduceMessage stops once the delay has reached it), with any
\* delay an earlier call left behind.
THEOREM PausesBounded == Spec => []PausesAreBounded
<1>1. PausesInv => PausesAreBounded
  BY DEF PausesInv
<1> QED
  BY <1>1, PausesInvariance, PTL

-----------------------------------------------------------------------------
(***************************************************************************)
(* The time a refresh is given.                                            *)
(***************************************************************************)

\* A call that has failed is not called again.
LEMMA FailureStays ==
  ASSUME TypeOK, [Next]_vars, NEW m \in Message, m # message, status[m] = "failed"
  PROVE  status'[m] = "failed" /\ m # message'
<1> USE MessageAssumption DEF TypeOK
<1>1. CASE \E n \in Message : ProduceMessage(n)
  <2>1. PICK n \in Message : ProduceMessage(n)
    BY <1>1
  <2>2. /\ status[n] = "new" /\ message' = n
        /\ status' = [status EXCEPT ![n] = "calling"]
    BY <2>1 DEF ProduceMessage, Contract!ProduceMessage
  <2> QED
    BY <2>2
<1>2. CASE \E n \in Message : HandleRequest(n)
  BY <1>2 DEF HandleRequest
<1>3. CASE New \/ ExpireToken \/ ConnectionBreaks \/ UNCHANGED vars
  BY <1>3 DEF New, ExpireToken, ConnectionBreaks, GiveUp, Return, history, vars
<1>4. CASE CallStep
  BY <1>4 DEF CallStep, Post, PostFails, RequestTimesOut, ReceiveCreated,
      ReceiveUnauthorized, ReceiveUnexpectedStatus, RefreshSucceeds, RefreshFails,
      Sleep, GiveUp, Return, history
<1> QED
  BY <1>1, <1>2, <1>3, <1>4 DEF Next

\* A call that returns an error leaves its message among the failed ones.
LEMMA FailedReturn ==
  ASSUME TypeOK, message \in Message, Return("failed")
  PROVE  \E m \in Message \ {message'} : status'[m] = "failed"
BY MessageAssumption DEF TypeOK, Return

LEMMA DelayStep == TypeOK /\ PausesInv /\ DelayInv /\ [Next]_vars => DelayInv'
<1> SUFFICES ASSUME TypeOK, PausesInv, DelayInv, [Next]_vars,
                    \A m \in Message \ {message'} : status'[m] # "failed"
             PROVE  /\ pc' \notin {"sleep", "retry"} =>
                         TokenRefreshmentDelay' = TokenRefreshmentStartDelay
                    /\ pc' = "sleep" =>
                         TokenRefreshmentDelay' = waited' + TokenRefreshmentStartDelay
                    /\ pc' = "retry" =>
                         2 * TokenRefreshmentDelay' = waited' + TokenRefreshmentStartDelay
  BY DEF DelayInv
<1> USE DelayAssumption
<1>1. \A m \in Message \ {message} : status[m] # "failed"
  <2> SUFFICES ASSUME NEW m \in Message, m # message, status[m] = "failed"
               PROVE  FALSE
    OBVIOUS
  <2>1. status'[m] = "failed" /\ m # message'
    BY FailureStays
  <2> QED
    BY <2>1
<1>2. /\ pc \notin {"sleep", "retry"} =>
           TokenRefreshmentDelay = TokenRefreshmentStartDelay
      /\ pc = "sleep" => TokenRefreshmentDelay = waited + TokenRefreshmentStartDelay
      /\ pc = "retry" => 2 * TokenRefreshmentDelay = waited + TokenRefreshmentStartDelay
  BY <1>1 DEF DelayInv
<1>3. pc \notin {"new", "idle", "dead"} => message \in Message /\ ~Return("failed")
  BY FailedReturn DEF TypeOK
<1>4. CASE New \/ ExpireToken
           \/ \E m \in Message : ProduceMessage(m) \/ HandleRequest(m)
  BY <1>2, <1>4 DEF New, ExpireToken, ProduceMessage, HandleRequest
<1>5. CASE PostFails \/ ConnectionBreaks \/ RequestTimesOut
           \/ ReceiveUnexpectedStatus
  BY <1>3, <1>5 DEF PostFails, ConnectionBreaks, RequestTimesOut, GiveUp,
                    ReceiveUnexpectedStatus
<1>6. CASE Post \/ ReceiveCreated \/ ReceiveUnauthorized
  BY <1>2, <1>6 DEF Post, ReceiveCreated, ReceiveUnauthorized, Return
<1>7. CASE RefreshSucceeds
  BY <1>7 DEF RefreshSucceeds
<1>8. CASE RefreshFails
  <2>1. pc' = "sleep" /\ UNCHANGED waited
    BY <1>3, <1>8 DEF RefreshFails
  <2>2. CASE pc = "refresh"
    <3>1. waited = 0 /\ TokenRefreshmentDelay' = TokenRefreshmentDelay
      BY <1>8, <2>2 DEF PausesInv, RefreshFails, NextDelay
    <3> QED
      BY <1>2, <2>1, <2>2, <3>1 DEF TypeOK
  <2>3. CASE pc = "retry"
    <3>1. TokenRefreshmentDelay' = 2 * TokenRefreshmentDelay
      BY <1>8, <2>3 DEF RefreshFails, NextDelay
    <3> QED
      BY <1>2, <2>1, <2>3, <3>1
  <2> QED
    BY <1>8, <2>2, <2>3 DEF RefreshFails
<1>9. CASE Sleep
  <2>1. /\ pc = "sleep" /\ pc' = "retry" /\ UNCHANGED TokenRefreshmentDelay
        /\ waited' = waited + TokenRefreshmentDelay
    BY <1>9 DEF Sleep
  <2> QED
    BY <1>2, <2>1 DEF TypeOK
<1>10. CASE UNCHANGED vars
  BY <1>2, <1>10 DEF vars
<1> QED
  BY <1>4, <1>5, <1>6, <1>7, <1>8, <1>9, <1>10 DEF Next, CallStep

\* A call that cannot get a new token does not give up before its pauses, with the
\* first one once more, add up to the threshold, unless an earlier call failed;
\* for any start delay and threshold.
THEOREM RefreshHasTime == Spec => RefreshIsGivenTime
<1>1. Init => DelayInv
  BY DEF Init, DelayInv
<1>2. TypeOK /\ PausesInv /\ DelayInv /\ RefreshFails /\ pc' = "idle" =>
        \/ waited + TokenRefreshmentStartDelay >= TokenRefreshmentThreshold
        \/ \E m \in Message \ {message} : status[m] = "failed"
  <2> SUFFICES ASSUME TypeOK, PausesInv, DelayInv, RefreshFails, pc' = "idle",
                      \A m \in Message \ {message} : status[m] # "failed"
               PROVE  waited + TokenRefreshmentStartDelay >= TokenRefreshmentThreshold
    OBVIOUS
  <2>1. NextDelay >= TokenRefreshmentThreshold
    BY DEF RefreshFails
  <2>2. NextDelay = waited + TokenRefreshmentStartDelay
    BY DelayAssumption DEF NextDelay, RefreshFails, DelayInv, PausesInv, TypeOK
  <2> QED
    BY <2>1, <2>2
<1> QED
  BY <1>1, <1>2, DelayStep, PausesInvariance, ServiceLogTypeCorrect, PTL
  DEF Spec, RefreshIsGivenTime

-----------------------------------------------------------------------------
(***************************************************************************)
(* The timeout.                                                            *)
(***************************************************************************)

\* The timeouts of config.toml (15 s) and of the deployment (10 s) overflow the
\* 64 bits of time.Duration when they are multiplied by time.Second again, and
\* leave the HTTP client without a timeout.
THEOREM ConfiguredTimeoutIsNone ==
  ASSUME Second = 1000000000,
         MaxDuration = 9223372036854775807,
         Timeout \in {10 * Second, 15 * Second}
  PROVE  ClientTimeout < 0 /\ ~RequestTimesOut
<1>1. ClientTimeout \in {10000000000000000000 - 18446744073709551616,
                        15000000000000000000 - 18446744073709551616}
  <2>1. Second * Timeout \in {10000000000000000000, 15000000000000000000}
    BY SMT
  <2> QED
    BY <2>1, SMT DEF ClientTimeout, AsDuration
<1> QED
  BY <1>1, SMT DEF RequestTimesOut

-----------------------------------------------------------------------------
(***************************************************************************)
(* The contract.                                                           *)
(***************************************************************************)

\* What a returning call leaves of the contract's invariant.
LEMMA ReturnKeepsInv ==
  ASSUME TypeOK, ContractInv, NEW result \in {"sent", "failed"},
         pc \notin {"new", "idle", "dead"}, Return(result),
         UNCHANGED <<requests, arrived>>,
         result = "sent" => message \notin requests
  PROVE  ContractInv'
<1>1. message \in Message /\ status[message] = "calling"
  BY DEF TypeOK, ContractInv, CallInProgress
<1>2. /\ status' = [status EXCEPT ![message] = result]
      /\ message' = NoMessage
      /\ pc' = "idle"
  BY DEF Return
<1>3. CallInProgress'
  BY <1>1, <1>2, MessageAssumption DEF TypeOK, ContractInv, CallInProgress
<1>4. RequestsAreFresh'
  BY <1>1, <1>2 DEF TypeOK, ContractInv, RequestsAreFresh
<1>5. RepostIsSafe'
  BY <1>1, <1>2 DEF TypeOK, ContractInv, RepostIsSafe
<1> QED
  BY <1>3, <1>4, <1>5 DEF ContractInv

\* Service Log handles each request once, and only a message in a call or of a
\* failed one is out.
LEMMA HandleKeepsInv ==
  ASSUME TypeOK, ContractInv, NEW m \in Message, HandleRequest(m)
  PROVE  /\ ContractInv'
         /\ UNCHANGED status
         /\ \/ UNCHANGED arrived
            \/ /\ status[m] \in {"calling", "failed"}
               /\ arrived[m] = 0
               /\ arrived' = [arrived EXCEPT ![m] = 1]
<1>1. /\ m \in requests
      /\ status[m] \in {"calling", "failed"}
      /\ arrived[m] = 0
  BY DEF HandleRequest, ContractInv, RequestsAreFresh
<1>2. /\ UNCHANGED <<pc, message, status>>
      /\ requests' = requests \ {m}
  BY DEF HandleRequest
<1>3. \/ UNCHANGED arrived
      \/ arrived' = [arrived EXCEPT ![m] = 1]
  <2>1. arrived[m] + 1 = 1
    BY <1>1
  <2> QED
    BY <2>1 DEF HandleRequest
<1>4. CallInProgress'
  BY <1>2 DEF ContractInv, CallInProgress
<1>5. RequestsAreFresh'
  BY <1>2, <1>3 DEF TypeOK, ContractInv, RequestsAreFresh
<1>6. RepostIsSafe'
  <2>1. \A n \in Message : status'[n] = "new" => arrived'[n] = 0
    BY <1>1, <1>2, <1>3 DEF TypeOK, ContractInv, RepostIsSafe
  <2>2. ASSUME pc \in {"post", "refresh", "sleep", "retry"}
        PROVE  message \notin requests' /\ arrived'[message] = 0
    BY <1>1, <1>2, <1>3, <2>2 DEF TypeOK, ContractInv, RepostIsSafe
  <2>3. ASSUME pc = "wait"
        PROVE  /\ message \in requests' => reply' = "none"
               /\ reply' = "created" => arrived'[message] = 1
               /\ reply' = "unauthorized" => arrived'[message] = 0
    <3>1. CASE message = m
      <4>1. message \notin requests'
        BY <1>2, <3>1
      <4>2. reply' = "created" => arrived' = [arrived EXCEPT ![m] = arrived[m] + 1]
        BY <2>3, <3>1 DEF HandleRequest
      <4>3. reply' = "unauthorized" => arrived' = arrived
        BY <2>3, <3>1 DEF HandleRequest
      <4> QED
        BY <1>1, <3>1, <4>1, <4>2, <4>3 DEF TypeOK
    <3>2. CASE message # m
      <4>1. reply' = reply
        BY <3>2 DEF HandleRequest
      <4> QED
        BY <1>2, <1>3, <2>3, <3>2, <4>1 DEF TypeOK, ContractInv, RepostIsSafe
    <3> QED
      BY <3>1, <3>2
  <2> QED
    BY <1>2, <2>1, <2>2, <2>3 DEF RepostIsSafe
<1> QED
  BY <1>1, <1>2, <1>3, <1>4, <1>5, <1>6 DEF ContractInv

\* The other steps of the producer.
LEMMA ContractStep ==
  ASSUME TypeOK, ContractInv, Next
  PROVE  ContractInv' /\ [Contract!Next]_(Contract!producerVars)
<1> USE DEF Contract!producerVars
<1>1. CASE New
  BY <1>1 DEF New, history, TypeOK, ContractInv, CallInProgress,
              RequestsAreFresh, RepostIsSafe
<1>2. ASSUME NEW m \in Message, ProduceMessage(m)
      PROVE  ContractInv' /\ Contract!Next
  <2>1. /\ pc = "idle" /\ pc' = "post"
        /\ message = NoMessage /\ message' = m
        /\ status[m] = "new" /\ status' = [status EXCEPT ![m] = "calling"]
        /\ UNCHANGED <<arrived, requests, reply>>
    BY <1>2 DEF ProduceMessage, Contract!ProduceMessage, serviceLog, TypeOK
  <2>2. CallInProgress'
    BY <2>1, MessageAssumption DEF TypeOK, ContractInv, CallInProgress
  <2>3. RequestsAreFresh'
    BY <2>1 DEF TypeOK, ContractInv, RequestsAreFresh
  <2>4. RepostIsSafe'
    BY <2>1 DEF TypeOK, ContractInv, RequestsAreFresh, RepostIsSafe
  <2>5. Contract!Next
    BY <1>2 DEF ProduceMessage, Contract!Next
  <2> QED
    BY <2>2, <2>3, <2>4, <2>5 DEF ContractInv
<1>3. ASSUME NEW m \in Message, HandleRequest(m)
      PROVE  ContractInv' /\ [Contract!Next]_(Contract!producerVars)
  BY <1>3, HandleKeepsInv DEF Contract!Next, Contract!Arrive
<1>4. CASE ExpireToken \/ RefreshSucceeds \/ Sleep \/ ReceiveUnauthorized
  BY <1>4 DEF ExpireToken, RefreshSucceeds, Sleep, ReceiveUnauthorized,
              serviceLog, history, TypeOK, ContractInv, CallInProgress,
              RequestsAreFresh, RepostIsSafe
<1>5. CASE Post
  BY <1>5 DEF Post, history, TypeOK, ContractInv, CallInProgress,
              RequestsAreFresh, RepostIsSafe
<1>6. ASSUME pc \notin {"new", "idle", "dead"}, Return("failed"),
             UNCHANGED <<requests, arrived>>
      PROVE  ContractInv' /\ Contract!Next
  <2>1. ContractInv'
    BY <1>6, ReturnKeepsInv
  <2>2. message \in Message /\ Contract!ReturnError(message)
    BY <1>6 DEF TypeOK, ContractInv, CallInProgress, Return,
                Contract!ReturnError
  <2> QED
    BY <2>1, <2>2 DEF Contract!Next
<1>7. CASE PostFails \/ ConnectionBreaks \/ RequestTimesOut
           \/ ReceiveUnexpectedStatus
  BY <1>6, <1>7 DEF PostFails, ConnectionBreaks, RequestTimesOut, GiveUp,
                    ReceiveUnexpectedStatus
<1>8. CASE ReceiveCreated
  <2>1. message \notin requests /\ arrived[message] = 1
    BY <1>8 DEF ReceiveCreated, ContractInv, RepostIsSafe
  <2>2. ContractInv'
    BY <1>8, <2>1, ReturnKeepsInv DEF ReceiveCreated
  <2>3. message \in Message /\ Contract!ReturnSuccess(message)
    BY <1>8, <2>1 DEF ReceiveCreated, TypeOK, ContractInv, CallInProgress,
                      Return, Contract!ReturnSuccess
  <2> QED
    BY <2>2, <2>3 DEF Contract!Next
<1>9. CASE RefreshFails
  <2>1. CASE Return("failed")
    BY <1>6, <1>9, <2>1 DEF RefreshFails, serviceLog
  <2>2. CASE pc' = "sleep" /\ UNCHANGED <<message, status>>
    BY <1>9, <2>2 DEF RefreshFails, serviceLog, TypeOK, ContractInv,
                      CallInProgress, RequestsAreFresh, RepostIsSafe
  <2> QED
    BY <1>9, <2>1, <2>2 DEF RefreshFails
<1> QED
  BY <1>1, <1>2, <1>3, <1>4, <1>5, <1>7, <1>8, <1>9 DEF Next, CallStep

\* The producer keeps the contract the differ relies on: ProduceMessage delivers
\* no entry twice, in spite of the second request after a 401, and returns
\* without an error only if the entry was created.
THEOREM ServiceLogKeepsContract == Spec => KeepsContract
<1>1. Init => ContractInv /\ Contract!Init
  BY MessageAssumption DEF Init, Contract!Init, ContractInv, CallInProgress,
                           RequestsAreFresh, RepostIsSafe
<1>2. /\ TypeOK /\ ContractInv /\ [Next]_vars
      => ContractInv' /\ [Contract!Next]_(Contract!producerVars)
  <2>1. ASSUME TypeOK, ContractInv, UNCHANGED vars
        PROVE  ContractInv' /\ UNCHANGED Contract!producerVars
    BY <2>1 DEF vars, serviceLog, history, ContractInv, CallInProgress,
                RequestsAreFresh, RepostIsSafe, Contract!producerVars
  <2> QED
    BY <2>1, ContractStep
<1> QED
  BY <1>1, <1>2, ServiceLogTypeCorrect, PTL DEF Spec, KeepsContract, Contract!Spec
=============================================================================
