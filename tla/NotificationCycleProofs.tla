---------------------- MODULE NotificationCycleProofs ----------------------
(***************************************************************************)
(* What holds of every run of NotificationCycle, for any issues, uploads   *)
(* and cool down: the safety that PersistentIssuesAreTold and              *)
(* SteadyReportsAreRepeated rest on.                                       *)
(***************************************************************************)
EXTENDS NotificationCycle, TLAPS

TypeOK ==
  /\ target \in Target
  /\ newest \in Uploads
  /\ last \in [report : SUBSET Issue, age : 0 .. Cooldown]
  /\ pc \in {"idle", "readPrevious", "process", "send", "record"}
  /\ listed \in SUBSET Issue
  /\ baseline \in SUBSET Issue
  /\ pending \in SUBSET Issue
  /\ outcome \in {"same", "sent", "error"}
  /\ age \in 0 .. Cooldown
  /\ told \in SUBSET Issue

\* Kafka: what is remembered, in the table or in the run, has been told, and a run
\* that is going to write a sent record has told the rest of its report.
ToldInv ==
  target = "NotificationBackend" =>
    /\ last.report \subseteq told
    /\ baseline \subseteq told
    /\ pc = "send" => listed \ pending \subseteq told
    /\ pc = "record" /\ outcome = "sent" => listed \subseteq told

\* Only what is not in the baseline is sent, and there is something to send; an
\* outcome is "sent" only after the news of such an issue.
NewsInv ==
  /\ pc = "send" => pending # {} /\ pending \subseteq listed \ baseline
  /\ pc \in {"send", "record"} /\ outcome = "sent" =>
       \E issue \in listed : issue \notin baseline /\ issue \in told

IInv == TypeOK /\ ToldInv /\ NewsInv

-----------------------------------------------------------------------------
(***************************************************************************)
(* Every action keeps the invariant.                                       *)
(***************************************************************************)

\* Nothing is remembered at first.
LEMMA InitInv == Init => IInv
<1> SUFFICES ASSUME Init PROVE IInv
  OBVIOUS
<1>1. last \in [report : SUBSET Issue, age : 0 .. Cooldown] /\ last.report = {}
  BY CycleAssumption DEF Init, NoRecord
<1>2. TypeOK
  BY <1>1, CycleAssumption DEF Init, TypeOK
<1> QED
  BY <1>1, <1>2 DEF Init, IInv, ToldInv, NewsInv

\* Time, other reports and cleanups take nothing back that the customer was told.
LEMMA EnvironmentInv ==
  ASSUME IInv, Tick \/ ReportChanges \/ RecordIsCleanedUp
  PROVE  IInv'
<1> USE DEF IInv
<1>1. CASE Tick
  <2>1. \A n \in 0 .. Cooldown : OlderBy1(n) \in 0 .. Cooldown
    BY CycleAssumption DEF OlderBy1
  <2>2. /\ last' = [report |-> last.report, age |-> OlderBy1(last.age)]
        /\ age' \in {age, OlderBy1(age)}
        /\ UNCHANGED <<target, newest, pc, listed, baseline, pending, outcome, told>>
    BY <1>1 DEF Tick, TypeOK
  <2>3. TypeOK'
    BY <2>1, <2>2 DEF TypeOK
  <2> QED
    BY <2>2, <2>3 DEF ToldInv, NewsInv
<1>2. CASE ReportChanges
  BY <1>2 DEF ReportChanges, memory, TypeOK, ToldInv, NewsInv
<1>3. CASE RecordIsCleanedUp
  <2>1. /\ last' \in [report : SUBSET Issue, age : 0 .. Cooldown] /\ last'.report = {}
        /\ UNCHANGED <<target, newest, pc, listed, baseline, pending, outcome, age, told>>
    BY <1>3, CycleAssumption DEF RecordIsCleanedUp, NoRecord, memory
  <2> QED
    BY <2>1 DEF TypeOK, ToldInv, NewsInv
<1> QED
  BY <1>1, <1>2, <1>3

\* What a run reads has been told, and what it decides to send is not in it.
LEMMA ReadingInv ==
  ASSUME IInv,
         ReadClusterList \/ RetrievePreviouslyReported \/ PrepareNotification
           \/ RenderingFails \/ AbortRun
  PROVE  IInv'
<1> USE DEF IInv
<1>1. CASE ReadClusterList
  BY <1>1, CycleAssumption DEF ReadClusterList, TypeOK, ToldInv, NewsInv
<1>2. CASE RetrievePreviouslyReported
  BY <1>2 DEF RetrievePreviouslyReported, TypeOK, ToldInv, NewsInv
<1>3. CASE PrepareNotification
  <2>1. /\ pending' = listed \ baseline /\ outcome' = "same" /\ age' = 0
        /\ UNCHANGED <<target, newest, last, listed, baseline, told>>
        /\ \/ pc' = "record"
           \/ pc' = "send" /\ ~(listed \subseteq baseline)
    BY <1>3 DEF PrepareNotification
  <2>2. TypeOK'
    BY <2>1, CycleAssumption DEF TypeOK
  <2>3. ToldInv'
    BY <2>1 DEF TypeOK, ToldInv
  <2>4. NewsInv'
    BY <2>1 DEF NewsInv
  <2> QED
    BY <2>2, <2>3, <2>4
<1>4. CASE RenderingFails
  BY <1>4, CycleAssumption DEF RenderingFails, TypeOK, ToldInv, NewsInv
<1>5. CASE AbortRun
  BY <1>5, CycleAssumption DEF AbortRun, NoMemory, TypeOK, ToldInv, NewsInv
<1> QED
  BY <1>1, <1>2, <1>3, <1>4, <1>5

\* A message is some of the issues to be sent; for Kafka it is all of them.
LEMMA MessageOfPending ==
  ASSUME IInv, pc = "send", NEW message \in Messages
  PROVE  /\ message # {} /\ message \subseteq pending
         /\ target = "NotificationBackend" => message = pending
BY DEF IInv, TypeOK, NewsInv, Messages, Target

\* A message that is accepted is news; one that is not is no reason to write a sent
\* record.
LEMMA SendingInv ==
  ASSUME IInv, (\E issue \in Issue : Succeeds(issue)) \/ Fails
  PROVE  IInv'
<1> USE DEF IInv
<1>1. PICK message \in Messages :
        ProduceMessageSucceeds(message) \/ ProduceMessageFails(message)
  BY DEF Succeeds, Fails
<1>2. /\ pc = "send"
      /\ pending' = pending \ message
      /\ pc' = IF pending = message THEN "record" ELSE "send"
      /\ UNCHANGED <<target, newest, last, listed, baseline, age>>
  BY <1>1 DEF ProduceMessageSucceeds, ProduceMessageFails, MessageDone
<1>3. /\ message # {} /\ message \subseteq pending
      /\ target = "NotificationBackend" => message = pending
  BY <1>2, MessageOfPending
<1>4. pc' = "send" => pending' # {} /\ pending' \subseteq listed' \ baseline'
  BY <1>2, <1>3 DEF NewsInv
<1>5. CASE ProduceMessageSucceeds(message)
  <2>1. outcome' = "sent" /\ told' = told \union message
    BY <1>5 DEF ProduceMessageSucceeds
  <2>2. TypeOK'
    BY <1>2, <1>3, <2>1 DEF TypeOK
  <2>3. ToldInv'
    BY <1>2, <1>3, <2>1 DEF ToldInv
  <2>4. NewsInv'
    BY <1>2, <1>3, <1>4, <2>1 DEF NewsInv
  <2> QED
    BY <2>2, <2>3, <2>4
<1>6. CASE ProduceMessageFails(message)
  <2>1. /\ outcome' = IF target = "ServiceLog" THEN outcome ELSE "error"
        /\ told' \in {told, told \union message}
    BY <1>6 DEF ProduceMessageFails
  <2>2. TypeOK'
    BY <1>2, <1>3, <2>1 DEF TypeOK
  <2>3. ToldInv'
    BY <1>2, <1>3, <2>1 DEF ToldInv
  <2>4. NewsInv'
    BY <1>2, <1>4, <2>1 DEF NewsInv
  <2> QED
    BY <2>2, <2>3, <2>4
<1> QED
  BY <1>1, <1>5, <1>6

\* A sent record holds what has been told.
LEMMA RecordingInv ==
  ASSUME IInv, updateNotificationRecordState
  PROVE  IInv'
<1> USE DEF IInv
<1>1. /\ pc = "record" /\ pc' = "idle"
      /\ listed' = {} /\ baseline' = {} /\ pending' = {} /\ outcome' = "same" /\ age' = 0
      /\ UNCHANGED <<target, newest>>
  BY DEF updateNotificationRecordState, NoMemory
<1>2. CASE UNCHANGED <<last, told>>
  BY <1>1, <1>2, CycleAssumption DEF TypeOK, ToldInv, NewsInv
<1>3. CASE ~ UNCHANGED <<last, told>>
  <2>1. /\ outcome = "sent"
        /\ last' = [report |-> listed, age |-> age]
        /\ told' = told \intersect listed
    BY <1>3 DEF updateNotificationRecordState
  <2>2. last' \in [report : SUBSET Issue, age : 0 .. Cooldown] /\ last'.report = listed
    BY <2>1 DEF TypeOK
  <2>3. TypeOK'
    BY <1>1, <2>1, <2>2, CycleAssumption DEF TypeOK
  <2>4. ToldInv' /\ NewsInv'
    BY <1>1, <2>1, <2>2 DEF ToldInv, NewsInv
  <2> QED
    BY <2>3, <2>4
<1> QED
  BY <1>2, <1>3

-----------------------------------------------------------------------------
(***************************************************************************)
(* The theorems.                                                           *)
(***************************************************************************)

\* The inductive invariant.  Fairness is not needed for it.
THEOREM Invariance == Spec => []IInv
<1>1. Init => IInv
  BY InitInv
<1>2. IInv /\ [Next]_vars => IInv'
  <2> SUFFICES ASSUME IInv, [Next]_vars PROVE IInv'
    OBVIOUS
  <2>1. CASE Next
    BY <2>1, EnvironmentInv, ReadingInv, SendingInv, RecordingInv DEF Next
  <2>2. CASE UNCHANGED vars
    BY <2>2 DEF vars, memory, IInv, TypeOK, ToldInv, NewsInv
  <2> QED
    BY <2>1, <2>2
<1> QED
  BY <1>1, <1>2, PTL DEF Spec

\* Kafka: the cool down silences only what the customer has been told of, for any
\* issues, any order of uploads, cleanups, crashes, failed inserts and errors of the
\* broker, and any cool down.
THEOREM SilencedWereTold == Spec => []SilencedIssuesAreTold
<1>1. IInv => SilencedIssuesAreTold
  BY DEF IInv, ToldInv, SilencedIssuesAreTold
<1> QED
  BY <1>1, Invariance, PTL

\* Both targets: a cool down starts again only with news, even if the news is not of
\* all the issues it will silence (finding 3 of the README).
THEOREM SilenceIsRenewed == Spec => SilenceIsRenewedByNews
<1> DEFINE Renewed ==
      last'.age < last.age
        => \E issue \in last'.report : issue \notin baseline /\ issue \in told'
<1>1. IInv /\ [Next]_vars => [Renewed]_vars
  <2> SUFFICES ASSUME IInv, Next, last'.age < last.age
               PROVE  \E issue \in last'.report : issue \notin baseline /\ issue \in told'
    BY DEF vars
  <2>1. last.age \in 0 .. Cooldown
    BY DEF IInv, TypeOK
  <2>2. last' # last
    BY <2>1
  <2>3. ~Tick
    BY <2>1, CycleAssumption DEF Tick, OlderBy1, IInv, TypeOK
  <2>4. ~RecordIsCleanedUp
    BY <2>1, CycleAssumption DEF RecordIsCleanedUp, NoRecord
  <2>5. updateNotificationRecordState
    BY <2>2, <2>3, <2>4
    DEF Next, ReportChanges, ReadClusterList, RetrievePreviouslyReported,
        PrepareNotification, RenderingFails, Succeeds, Fails, ProduceMessageSucceeds,
        ProduceMessageFails, MessageDone, AbortRun
  <2>6. /\ pc = "record" /\ outcome = "sent"
        /\ last'.report = listed
        /\ told' = told \intersect listed
    BY <2>2, <2>5 DEF updateNotificationRecordState
  <2> QED
    BY <2>6 DEF IInv, NewsInv
<1> QED
  BY <1>1, Invariance, PTL DEF Spec, SilenceIsRenewedByNews
=============================================================================
