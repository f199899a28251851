------------------------- MODULE NotificationProofs -------------------------
(***************************************************************************)
(* The promise of Notification about repeats, for any clusters, issues and *)
(* cool down.                                                              *)
(***************************************************************************)
EXTENDS Notification, TLAPS

\* Initially nothing is remembered and nothing has been delivered.
LEMMA InitRepeats == Init => NotificationInv
BY DEF Init, NotificationInv, SentIsTyped, SentRecordsAreComplete, SentIsOrdered,
       LastRecordExists, RepeatsAreExplained

\* A new delivery repeats a recorded one only if the last record of the
\* cluster, which does not silence it, is a newer one without the issue.
LEMMA NotifyRepeats ==
  ASSUME Cooldown \in Nat, NotificationInv, Notify
  PROVE  NotificationInv'
<1>1. delivered' \subseteq Delivery
  BY DEF NotificationInv, Notify
<1>2. sent' = sent
  BY DEF Notify
<1>3. SentRecordsAreComplete'
  <2> SUFFICES ASSUME NEW r \in sent, NEW d \in delivered',
                      SameNotification(d, r)
               PROVE  d.issue \in r.report
    BY <1>2 DEF SentRecordsAreComplete, SameNotification
  <2>1. CASE d \in delivered
    BY <2>1 DEF NotificationInv, SentRecordsAreComplete
  <2>2. CASE d \notin delivered
    <3>1. r.notified_at < d.notified_at
      BY <2>2 DEF Notify, SameCluster, SameNotification
    <3>2. r.notified_at \in Nat /\ d.notified_at = r.notified_at
      BY DEF NotificationInv, SentIsTyped, IsSentRecord, SameNotification
    <3> QED
      BY <3>1, <3>2
  <2> QED
    BY <2>1, <2>2
<1>4. RepeatsAreExplained'
  <2> SUFFICES ASSUME NEW d1 \in delivered', NEW d2 \in delivered',
                      RepeatedWithinCooldown(d1, d2),
                      ~Unrecorded(d1)
               PROVE  Superseded(d1, d2)
    BY <1>2 DEF RepeatsAreExplained, RepeatedWithinCooldown, SameIssue,
                Unrecorded, Superseded, SameNotification, SameCluster
  <2>1. /\ d1.notified_at \in Nat /\ d2.notified_at \in Nat
        /\ d1.notified_at < d2.notified_at
        /\ d2.notified_at < d1.notified_at + Cooldown
        /\ d1.target = d2.target /\ d1.entry = d2.entry /\ d1.issue = d2.issue
    BY <1>1 DEF Delivery, RepeatedWithinCooldown, SameIssue
  <2>2. CASE d1 \in delivered /\ d2 \in delivered
    BY <2>2 DEF NotificationInv, RepeatsAreExplained
  <2>3. CASE d1 \notin delivered
    <3>1. d2.notified_at =< d1.notified_at
      BY <2>1, <2>3 DEF Notify, SameCluster
    <3> QED
      BY <2>1, <3>1
  <2>4. CASE d1 \in delivered /\ d2 \notin delivered
    <3>1. PICK r \in sent : SameNotification(r, d1)
      BY DEF Unrecorded
    <3>2. PICK s \in sent : SameCluster(s, r) /\ IsLast(s)
      BY DEF NotificationInv, LastRecordExists
    <3>3. d1.issue \in r.report
      BY <2>4, <3>1 DEF NotificationInv, SentRecordsAreComplete, SameNotification
    <3>4. SameCluster(s, d2) /\ SameCluster(s, d1) /\ SameCluster(r, s)
      BY <2>1, <3>1, <3>2 DEF SameCluster, SameNotification
    <3>5. s.notified_at < d2.notified_at /\ ~Silences(s, d2)
      BY <2>4, <3>4 DEF Notify
    <3>6. r.notified_at = d1.notified_at /\ r.entry = d1.entry
      BY <3>1 DEF SameNotification
    <3>7. /\ s.notified_at \in Nat /\ r.notified_at \in Nat
          /\ r.notified_at =< s.notified_at
      BY <3>2, <3>4 DEF NotificationInv, SentIsTyped, IsSentRecord, IsLast
    <3>8. d2.notified_at < s.notified_at + Cooldown
      BY <2>1, <3>6, <3>7
    <3>9. ~(s.entry = d1.entry /\ d1.issue \in s.report)
      BY <2>1, <3>2, <3>4, <3>5, <3>8 DEF Silences
    <3>10. d1.notified_at < s.notified_at
      <4>1. r.notified_at = s.notified_at => r = s
        BY <3>4 DEF NotificationInv, SentIsOrdered
      <4> QED
        BY <3>3, <3>6, <3>7, <3>9, <4>1
    <3> QED
      BY <3>4, <3>5, <3>9, <3>10 DEF Superseded
  <2> QED
    BY <2>2, <2>3, <2>4
<1>5. SentIsTyped' /\ SentIsOrdered' /\ LastRecordExists'
  BY <1>2 DEF NotificationInv, SentIsTyped, IsSentRecord, SentIsOrdered,
              SameCluster, LastRecordExists, IsLast
<1> QED
  BY <1>1, <1>3, <1>4, <1>5 DEF NotificationInv

\* The new record is the last of its cluster, and no delivery is later.
LEMMA RememberRepeats ==
  ASSUME NotificationInv, Remember
  PROVE  NotificationInv'
<1>1. PICK r \in sent' \ sent :
        /\ sent' = sent \union {r}
        /\ IsSentRecord(r)
        /\ \A d \in delivered :
             /\ SameNotification(d, r) => d.issue \in r.report
             /\ SameCluster(d, r) => d.notified_at =< r.notified_at
        /\ \A s \in sent :
             SameCluster(s, r) => /\ s.notified_at < r.notified_at
                                  /\ s.updated_at =< r.updated_at
  BY DEF Remember
<1>2. delivered' = delivered
  BY DEF Remember
<1>3. SentIsTyped'
  BY <1>1 DEF NotificationInv, SentIsTyped, IsSentRecord
<1>4. SentRecordsAreComplete'
  BY <1>1, <1>2 DEF NotificationInv, SentRecordsAreComplete, SameNotification
<1>5. SentIsOrdered'
  BY <1>1 DEF NotificationInv, SentIsOrdered, SentIsTyped, IsSentRecord,
              SameCluster
<1>6. LastRecordExists'
  <2> SUFFICES ASSUME NEW s \in sent'
               PROVE  \E m \in sent' : SameCluster(m, s) /\ IsLast(m)'
    BY DEF LastRecordExists, SameCluster
  <2>1. CASE SameCluster(r, s)
    <3>1. IsLast(r)'
      BY <1>1 DEF IsLast, NotificationInv, SentIsTyped, IsSentRecord, SameCluster
    <3> QED
      BY <2>1, <3>1
  <2>2. CASE ~SameCluster(r, s)
    <3>1. s \in sent
      BY <1>1, <2>2 DEF SameCluster
    <3>2. PICK m \in sent : SameCluster(m, s) /\ IsLast(m)
      BY <3>1 DEF NotificationInv, LastRecordExists
    <3>3. IsLast(m)'
      BY <1>1, <2>2, <3>2 DEF IsLast, SameCluster
    <3> QED
      BY <1>1, <3>2, <3>3
  <2> QED
    BY <2>1, <2>2
<1>7. RepeatsAreExplained'
  <2> SUFFICES ASSUME NEW d1 \in delivered, NEW d2 \in delivered,
                      RepeatedWithinCooldown(d1, d2)
               PROVE  Unrecorded(d1)' \/ Superseded(d1, d2)'
    BY <1>2 DEF RepeatsAreExplained, RepeatedWithinCooldown, SameIssue
  <2>1. ~SameNotification(r, d1)
    <3>1. SameNotification(r, d1) => /\ SameCluster(d2, r)
                                     /\ r.notified_at = d1.notified_at
      BY DEF SameNotification, SameCluster, RepeatedWithinCooldown, SameIssue
    <3>2. d1.notified_at \in Nat /\ d2.notified_at \in Nat
      BY DEF NotificationInv, Delivery
    <3>3. d1.notified_at < d2.notified_at
      BY DEF RepeatedWithinCooldown
    <3> QED
      BY <1>1, <3>1, <3>2, <3>3
  <2>2. Unrecorded(d1) \/ Superseded(d1, d2)
    BY DEF NotificationInv, RepeatsAreExplained
  <2> QED
    BY <1>1, <2>1, <2>2 DEF Unrecorded, Superseded, SameNotification, SameCluster
<1> QED
  BY <1>2, <1>3, <1>4, <1>5, <1>6, <1>7 DEF NotificationInv

\* What supersedes a record is forgotten only together with it.
LEMMA ForgetRepeats ==
  ASSUME NotificationInv, Forget
  PROVE  NotificationInv'
<1>1. /\ sent' \subseteq sent
      /\ delivered' = delivered
      /\ \A r \in sent \ sent', s \in sent' : r.updated_at < s.updated_at
  BY DEF Forget
<1>2. \A r \in sent : r.updated_at \in Nat /\ r.notified_at \in Nat
  BY DEF NotificationInv, SentIsTyped, IsSentRecord
<1>3. SentIsTyped' /\ SentRecordsAreComplete' /\ SentIsOrdered'
  BY <1>1 DEF NotificationInv, SentIsTyped, IsSentRecord, SentRecordsAreComplete,
              SameNotification, SentIsOrdered, SameCluster
<1>4. ASSUME NEW r \in sent', NEW s \in sent, SameCluster(r, s),
             r.notified_at < s.notified_at
      PROVE  s \in sent'
  <2>1. r.updated_at =< s.updated_at
    BY <1>1, <1>4 DEF NotificationInv, SentIsOrdered
  <2> QED
    BY <1>1, <1>2, <2>1
<1>5. LastRecordExists'
  <2> SUFFICES ASSUME NEW r \in sent'
               PROVE  \E s \in sent' : SameCluster(s, r) /\ IsLast(s)'
    BY DEF LastRecordExists, SameCluster
  <2>1. PICK s \in sent : SameCluster(s, r) /\ IsLast(s)
    BY <1>1 DEF NotificationInv, LastRecordExists
  <2>2. SameCluster(r, s) /\ r.notified_at =< s.notified_at
    BY <1>1, <2>1 DEF SameCluster, IsLast
  <2>3. s \in sent'
    <3>1. r.notified_at = s.notified_at => r = s
      BY <1>1, <2>2 DEF NotificationInv, SentIsOrdered
    <3> QED
      BY <1>1, <1>2, <1>4, <2>2, <3>1
  <2>4. IsLast(s)'
    BY <1>1, <2>1 DEF IsLast, SameCluster
  <2> QED
    BY <2>1, <2>3, <2>4
<1>6. RepeatsAreExplained'
  <2> SUFFICES ASSUME NEW d1 \in delivered, NEW d2 \in delivered,
                      RepeatedWithinCooldown(d1, d2),
                      NEW r \in sent', SameNotification(r, d1)
               PROVE  Superseded(d1, d2)'
    BY <1>1 DEF RepeatsAreExplained, RepeatedWithinCooldown, SameIssue,
                Unrecorded, SameNotification
  <2>1. PICK s \in sent : /\ SameCluster(s, d1)
                          /\ d1.notified_at < s.notified_at
                          /\ s.notified_at < d2.notified_at
                          /\ ~(s.entry = d1.entry /\ d1.issue \in s.report)
    BY <1>1 DEF NotificationInv, RepeatsAreExplained, Unrecorded, Superseded
  <2>2. s \in sent'
    BY <1>4, <2>1 DEF SameCluster, SameNotification
  <2> QED
    BY <2>1, <2>2 DEF Superseded, SameCluster
<1> QED
  BY <1>1, <1>3, <1>5, <1>6 DEF NotificationInv

\* Every step keeps the invariant, for any cool down.
LEMMA NextRepeats ==
  ASSUME Cooldown \in Nat, NotificationInv, [Next]_notificationVars
  PROVE  NotificationInv'
<1>1. CASE Tick \/ UNCHANGED notificationVars
  <2>1. UNCHANGED <<sent, delivered>>
    BY <1>1 DEF Tick, notificationVars
  <2> QED
    BY <2>1 DEF NotificationInv, SentIsTyped, IsSentRecord, SentRecordsAreComplete,
       SameNotification, SentIsOrdered, SameCluster, LastRecordExists, IsLast,
       RepeatsAreExplained, RepeatedWithinCooldown, SameIssue, Unrecorded,
       Superseded
<1> QED
  BY <1>1, NotifyRepeats, RememberRepeats, ForgetRepeats DEF Next

\* Whatever implements Notification repeats an issue within its cool down only
\* for one of the two reasons.
THEOREM PromiseAboutRepeats ==
  ASSUME Cooldown \in Nat
  PROVE  Spec => []RepeatsAreExplained
<1>1. Init => NotificationInv
  BY InitRepeats
<1>2. NotificationInv /\ [Next]_notificationVars => NotificationInv'
  BY NextRepeats
<1>3. NotificationInv => RepeatsAreExplained
  BY DEF NotificationInv
<1> QED
  BY <1>1, <1>2, <1>3, PTL DEF Spec
=============================================================================
