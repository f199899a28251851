------------------------- MODULE ServiceLogProducer -------------------------
(***************************************************************************)
(* The Service Log producer: ProduceMessage posts a message, waits for the *)
(* answer (until the HTTP client's timeout, if that is one), and when it is *)
(* refused for its access token asks OCM for another one, with growing     *)
(* pauses, before it posts the message again.  Service Log, OCM and the    *)
(* network between are the environment.                                    *)
(***************************************************************************)
EXTENDS Integers

CONSTANTS
  Message,        \* the log entries the differ asks to be sent
  NoMessage,      \* no call is in progress
  TokenRefreshmentStartDelay,   \* seconds
  TokenRefreshmentThreshold,
  Second,         \* time.Second, in units of time.Duration
  Timeout,        \* the timeout of the configuration, in the same units
  MaxDuration,    \* the largest time.Duration, 2^63 - 1 in Go
  FreshTokensAccepted,   \* Service Log accepts the token GetTokens returns
  MaxExpiries            \* bound: how often a token expires

ASSUME MessageAssumption == NoMessage \notin Message
ASSUME DelayAssumption ==
  /\ TokenRefreshmentStartDelay \in Nat \ {0}
  /\ TokenRefreshmentThreshold \in Nat \ {0}
ASSUME TimeoutAssumption ==
  /\ Second \in Nat
  /\ Timeout \in Nat
  /\ MaxDuration \in Nat
ASSUME ServiceAssumption ==
  /\ FreshTokensAccepted \in BOOLEAN
  /\ MaxExpiries \in Nat

VARIABLES
  pc,               \* what the producer does next
  message,          \* the message of the call in progress
  TokenRefreshmentDelay,
  tokenAccepted,    \* whether Service Log accepts the AccessToken in hand
  requests,         \* the messages whose request Service Log has yet to handle
  reply,            \* the answer to the request the producer waits for
  expiries,         \* how often a token has expired so far
  waited,           \* history: time slept since the last request
  status, arrived   \* history: what Producer says of each call

serviceLog == <<tokenAccepted, requests, reply, expiries>>
history == <<status, arrived>>
vars == <<pc, message, TokenRefreshmentDelay, serviceLog, waited, history>>

Contract == INSTANCE Producer

Phase == {"new", "idle", "post", "wait", "refresh", "sleep", "retry", "dead"}

Reply == {"none", "created", "unauthorized", "other"}

Init ==
  /\ pc = "new"
  /\ message = NoMessage
  /\ TokenRefreshmentDelay = TokenRefreshmentStartDelay
  /\ tokenAccepted = FALSE
  /\ requests = {}
  /\ reply = "none"
  /\ expiries = 0
  /\ waited = 0
  /\ Contract!Init

-----------------------------------------------------------------------------
(***************************************************************************)
(* The environment.                                                        *)
(***************************************************************************)

\* Service Log handles a request.  One with a token it does not accept is
\* answered 401; any other is answered 201 once the entry is created, or
\* something else, with or without an entry.  The answer is lost unless the
\* producer still waits for it; whether the token of a request the producer
\* gave up was accepted is left open.
HandleRequest(m) ==
  LET awaited == pc = "wait" /\ message = m
      Answer(status_code) ==
        reply' = IF awaited THEN status_code ELSE reply
  IN
  /\ m \in requests
  /\ requests' = requests \ {m}
  /\ \/ /\ ~awaited \/ tokenAccepted
        /\ arrived' = [arrived EXCEPT ![m] = @ + 1]
        /\ Answer("created")
     \/ /\ ~awaited \/ ~tokenAccepted
        /\ Answer("unauthorized")
        /\ UNCHANGED arrived
     \/ /\ Answer("other")
        /\ \/ UNCHANGED arrived
           \/ /\ ~awaited \/ tokenAccepted
              /\ arrived' = [arrived EXCEPT ![m] = @ + 1]
  /\ UNCHANGED <<pc, message, TokenRefreshmentDelay, tokenAccepted, expiries,
                 waited, status>>

ExpireToken ==
  /\ tokenAccepted
  /\ expiries < MaxExpiries
  /\ tokenAccepted' = FALSE
  /\ expiries' = expiries + 1
  /\ UNCHANGED <<pc, message, TokenRefreshmentDelay, requests, reply, waited,
                 history>>

-----------------------------------------------------------------------------
(***************************************************************************)
(* The producer.                                                           *)
(***************************************************************************)

\* OCM issues a token: refreshToken returns without an error.
TokenIssued ==
  IF FreshTokensAccepted THEN tokenAccepted' = TRUE
                         ELSE tokenAccepted' \in BOOLEAN

\* New: without a first token there is no producer and the run ends.
New ==
  /\ pc = "new"
  /\ \/ TokenIssued /\ pc' = "idle"
     \/ UNCHANGED tokenAccepted /\ pc' = "dead"
  /\ UNCHANGED <<message, TokenRefreshmentDelay, requests, reply, expiries,
                 waited, history>>

\* The differ calls ProduceMessage.
ProduceMessage(m) ==
  /\ pc = "idle"
  /\ Contract!ProduceMessage(m)
  /\ message' = m
  /\ pc' = "post"
  /\ UNCHANGED <<TokenRefreshmentDelay, serviceLog, waited>>

\* The request goes out, with the token in hand.
Post ==
  /\ pc = "post"
  /\ requests' = requests \union {message}
  /\ reply' = "none"
  /\ waited' = 0
  /\ pc' = "wait"
  /\ UNCHANGED <<message, TokenRefreshmentDelay, tokenAccepted, expiries,
                 history>>

\* Faulty variant: the message is not let go.
Return_KeepsMessage(result) ==
  /\ status' = [status EXCEPT ![message] = result]
  /\ UNCHANGED message
  /\ pc' = "idle"

\* The call returns; what became of it is known to the caller.
Return(result) ==
  /\ status' = [status EXCEPT ![message] = result]
  /\ message' = NoMessage
  /\ pc' = "idle"

\* What Go's 64 bits make of a product of durations.
AsDuration(n) ==
  ((n + MaxDuration + 1) % (2 * (MaxDuration + 1))) - (MaxDuration + 1)

\* Faulty variant: the timeout of the client is not set.
ClientTimeout_Unset == 0

\* time.Second * Configuration.Timeout: a product of two durations.
ClientTimeout == AsDuration(Second * Timeout)

GiveUp ==
  /\ Return("failed")
  /\ reply' = "none"
  /\ UNCHANGED <<TokenRefreshmentDelay, tokenAccepted, requests, expiries,
                 waited, arrived>>

\* The request cannot be made or sent.
PostFails ==
  /\ pc = "post"
  /\ GiveUp

\* The connection is lost; Service Log may still handle the request.
ConnectionBreaks ==
  /\ pc = "wait"
  /\ GiveUp

\* http.Client takes a timeout that is not positive for no timeout.  Here too
\* Service Log may still handle the request.
RequestTimesOut ==
  /\ pc = "wait"
  /\ ClientTimeout > 0
  /\ GiveUp

ReceiveCreated ==
  /\ pc = "wait"
  /\ reply = "created"
  /\ Return("sent")
  /\ reply' = "none"
  /\ UNCHANGED <<TokenRefreshmentDelay, tokenAccepted, requests, expiries,
                 waited, arrived>>

\* Faulty variant: any answer but 201 is treated like 401.
ReceiveUnauthorized_AnyStatus ==
  /\ pc = "wait"
  /\ reply \in {"unauthorized", "other"}
  /\ pc' = "refresh"
  /\ reply' = "none"
  /\ UNCHANGED <<message, TokenRefreshmentDelay, tokenAccepted, requests,
                 expiries, waited, history>>

ReceiveUnauthorized ==
  /\ pc = "wait"
  /\ reply = "unauthorized"
  /\ pc' = "refresh"
  /\ reply' = "none"
  /\ UNCHANGED <<message, TokenRefreshmentDelay, tokenAccepted, requests,
                 expiries, waited, history>>

ReceiveUnexpectedStatus ==
  /\ pc = "wait"
  /\ reply = "other"
  /\ Return("failed")
  /\ reply' = "none"
  /\ UNCHANGED <<TokenRefreshmentDelay, tokenAccepted, requests, expiries,
                 waited, arrived>>

\* Faulty variant: the delay does not start over.
RefreshSucceeds_KeepsDelay ==
  /\ pc \in {"refresh", "retry"}
  /\ TokenIssued
  /\ UNCHANGED TokenRefreshmentDelay
  /\ pc' = "post"
  /\ UNCHANGED <<message, requests, reply, expiries, waited, history>>

\* A new token: the delay starts over and the message is produced once more.
RefreshSucceeds ==
  /\ pc \in {"refresh", "retry"}
  /\ TokenIssued
  /\ TokenRefreshmentDelay' = TokenRefreshmentStartDelay
  /\ pc' = "post"
  /\ UNCHANGED <<message, requests, reply, expiries, waited, history>>

\* Faulty variant: the delay does not grow.
NextDelay_Constant == TokenRefreshmentDelay

\* The delay doubles after every attempt but the first.
NextDelay ==
  IF pc = "retry" THEN 2 * TokenRefreshmentDelay ELSE TokenRefreshmentDelay

\* No new token: try again after a pause, unless the delay has reached the
\* threshold.  A call that gives up leaves the delay where it is.
RefreshFails ==
  /\ pc \in {"refresh", "retry"}
  /\ TokenRefreshmentDelay' = NextDelay
  /\ \/ /\ NextDelay >= TokenRefreshmentThreshold
        /\ Return("failed")
     \/ /\ NextDelay < TokenRefreshmentThreshold
        /\ pc' = "sleep"
        /\ UNCHANGED <<message, status>>
  /\ UNCHANGED <<serviceLog, waited, arrived>>

Sleep ==
  /\ pc = "sleep"
  /\ waited' = waited + TokenRefreshmentDelay
  /\ pc' = "retry"
  /\ UNCHANGED <<message, TokenRefreshmentDelay, serviceLog, history>>

-----------------------------------------------------------------------------

\* The steps of a call in progress.
CallStep ==
  \/ Post
  \/ PostFails
  \/ RequestTimesOut
  \/ ReceiveCreated
  \/ ReceiveUnauthorized
  \/ ReceiveUnexpectedStatus
  \/ RefreshSucceeds
  \/ RefreshFails
  \/ Sleep

Next ==
  \/ New
  \/ \E m \in Message : ProduceMessage(m) \/ HandleRequest(m)
  \/ ExpireToken
  \/ ConnectionBreaks
  \/ CallStep

Spec == Init /\ [][Next]_vars

\* The process is scheduled, a timeout that is set expires and OCM answers, so a
\* call goes on; nothing is assumed of Service Log.
FairSpec == Spec /\ WF_vars(CallStep)

-----------------------------------------------------------------------------
(***************************************************************************)
(* Properties.                                                             *)
(***************************************************************************)

\* Every variable has its type, and a message is in hand during a call.
TypeOK ==
  /\ pc \in Phase
  /\ message \in Message \union {NoMessage}
  /\ pc \in {"new", "idle", "dead"} <=> message = NoMessage
  /\ TokenRefreshmentDelay \in Nat
  /\ tokenAccepted \in BOOLEAN
  /\ requests \subseteq Message
  /\ reply \in Reply
  /\ expiries \in Nat
  /\ waited \in Nat
  /\ status \in [Message -> Contract!Status]
  /\ arrived \in [Message -> Nat]

\* The producer keeps the contract of Producer: 401 and a new token never
\* deliver an entry twice, and a call that says so has delivered its entry.
KeepsContract == Contract!Spec

\* The pauses between two requests of one message add up to less than twice the
\* threshold, whatever delay earlier calls left behind.
PausesAreBounded == waited < 2 * TokenRefreshmentThreshold

\* A call that cannot get a new token does not give up before its pauses add up to
\* the threshold, but for the first one, if every earlier call has succeeded: a
\* long refresh must not take its time away from a later message.  After a call
\* that gave up it does: the delay stays at the threshold
\* (service_log_producer.go:98), and the next refresh is tried once.
RefreshIsGivenTime ==
  [][RefreshFails /\ pc' = "idle" =>
       \/ waited + TokenRefreshmentStartDelay >= TokenRefreshmentThreshold
       \/ \E m \in Message \ {message} : status[m] = "failed"]_vars

\* Every call returns in the end, though Service Log may never answer, if it
\* accepts the tokens GetTokens returns, tokens do not expire for ever, and the
\* client has a timeout.
CallsReturn ==
  \A m \in Message : status[m] = "calling" ~> status[m] # "calling"

\* What docs/configuration.md:124 says of `timeout`: a request to Service Log
\* comes to an end, answered or not.
RequestsEnd == pc = "wait" ~> pc # "wait"

-----------------------------------------------------------------------------
(***************************************************************************)
(* The inductive invariants.                                               *)
(***************************************************************************)

\* A call in progress is the one of the message in hand.
CallInProgress ==
  \A m \in Message : status[m] = "calling" <=> message = m

\* A request that is out has not delivered its entry, nor has any other of that
\* message.
RequestsAreFresh ==
  \A m \in requests : status[m] \in {"calling", "failed"} /\ arrived[m] = 0

\* A message that is (or may be) posted again has not been delivered; an answer
\* 201 was given once the entry arrived.
RepostIsSafe ==
  /\ \A m \in Message : status[m] = "new" => arrived[m] = 0
  /\ pc \in {"post", "refresh", "sleep", "retry"}
       => message \notin requests /\ arrived[message] = 0
  /\ pc = "wait" =>
       /\ message \in requests => reply = "none"
       /\ reply = "created" => arrived[message] = 1
       /\ reply = "unauthorized" => arrived[message] = 0

ContractInv == CallInProgress /\ RequestsAreFresh /\ RepostIsSafe

PausesInv ==
  /\ TokenRefreshmentDelay > 0
  /\ PausesAreBounded
  /\ pc \in {"wait", "refresh"} => waited = 0
  /\ pc \in {"sleep", "retry"} =>
       TokenRefreshmentDelay < TokenRefreshmentThreshold
  /\ pc = "sleep" => waited < TokenRefreshmentDelay
  /\ pc = "retry" => waited < 2 * TokenRefreshmentDelay

\* Until a call fails, the delay tells how long the refresh in progress has waited,
\* and is the first one outside of a refresh.
DelayInv ==
  (\A m \in Message \ {message} : status[m] # "failed") =>
    /\ pc \notin {"sleep", "retry"} =>
         TokenRefreshmentDelay = TokenRefreshmentStartDelay
    /\ pc = "sleep" =>
         TokenRefreshmentDelay = waited + TokenRefreshmentStartDelay
    /\ pc = "retry" =>
         2 * TokenRefreshmentDelay = waited + TokenRefreshmentStartDelay
=============================================================================
