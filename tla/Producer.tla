------------------------------ MODULE Producer ------------------------------
(***************************************************************************)
(* What the differ relies on when it calls ProduceMessage of a producer    *)
(* (producer/producer.go): one call per message, one at a time; a call     *)
(* that returns without an error has delivered the message, a call that    *)
(* returns an error may have delivered it all the same, even later; no     *)
(* call delivers its message twice.  ProduceMessageSucceeds and            *)
(* ProduceMessageFails of Differ are the two ways a call returns.          *)
(***************************************************************************)
EXTENDS Naturals

CONSTANT Message   \* the messages the differ asks the producer to send

VARIABLES
  status,    \* per message: what its call has come to
  arrived    \* per message: how often it reached the target

producerVars == <<status, arrived>>

Status == {"new", "calling", "sent", "failed"}

Init ==
  /\ status = [m \in Message |-> "new"]
  /\ arrived = [m \in Message |-> 0]

ProduceMessage(m) ==
  /\ \A n \in Message : status[n] # "calling"
  /\ status[m] = "new"
  /\ status' = [status EXCEPT ![m] = "calling"]
  /\ UNCHANGED arrived

Arrive(m) ==
  /\ status[m] \in {"calling", "failed"}
  /\ arrived[m] = 0
  /\ arrived' = [arrived EXCEPT ![m] = 1]
  /\ UNCHANGED status

ReturnSuccess(m) ==
  /\ status[m] = "calling"
  /\ arrived[m] = 1
  /\ status' = [status EXCEPT ![m] = "sent"]
  /\ UNCHANGED arrived

ReturnError(m) ==
  /\ status[m] = "calling"
  /\ status' = [status EXCEPT ![m] = "failed"]
  /\ UNCHANGED arrived

Next ==
  \E m \in Message :
    \/ ProduceMessage(m)
    \/ Arrive(m)
    \/ ReturnSuccess(m)
    \/ ReturnError(m)

Spec == Init /\ [][Next]_producerVars
=============================================================================
