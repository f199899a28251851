------------------------ MODULE DifferPromiseProofs ------------------------
(***************************************************************************)
(* The jobs implement Notification, whatever the clusters, issues, bounds  *)
(* and interleavings are, as long as the result sets they read are whole:  *)
(* PromiseInv is inductive, and under it every step is a step of           *)
(* Notification or changes nothing Notification speaks of.                 *)
(***************************************************************************)
EXTENDS DifferClaimsProofs

\* Types of the fields the invariant compares.
LEMMA FieldTypes ==
  ASSUME TypeOK
  PROVE  /\ now \in Nat
         /\ \A r \in newReports : r.updated_at \in Nat
         /\ \A r \in SentRecords : /\ r \in reported
                                   /\ r.target \in Target
                                   /\ r.updated_at \in Nat
                                   /\ r.notified_at \in Nat
         /\ \A d \in delivered : d.target \in Target /\ d.notified_at \in Nat
         /\ \A t \in Target : lastRun[t] \in Nat
         /\ \A t \in Target : \A e \in todo[t] : e.updated_at \in Nat
         /\ \A t \in Target : InHand(t) => /\ current[t] \in Work
                                           /\ current[t].updated_at \in Nat
                                           /\ current[t].notified_at \in Nat
BY DEF TypeOK, NewReport, SentRecords, NotificationRecord, Delivery, InHand,
       Work, ClusterEntry

\* Steps that move jobs between phases before the loop, at most.
LEMMA PromiseFrame ==
  ASSUME PromiseInv,
         UNCHANGED <<now, newReports, reported, delivered, lastRun, todo,
                     previous, current>>,
         \A t \in Target :
           \/ pc'[t] = pc[t]
           \/ ~InLoop(t) /\ ~InLoop(t)' /\ lastRun[t] < now
  PROVE  PromiseInv'
<1>1. \A t \in Target : /\ InLoop(t)' = InLoop(t)
                        /\ InHand(t)' = InHand(t)
                        /\ pc'[t] # "idle" => lastRun[t] < now
  BY DEF InLoop, InHand, PromiseInv, ClockInv
<1>2. UNCHANGED SentRecords
  BY DEF SentRecords
<1>3. ClockInv' /\ OncePerRun'
  BY <1>1, <1>2 DEF PromiseInv, ClockInv, OncePerRun
<1>4. UntouchedInv' /\ WorkSoFar'
  BY <1>1, <1>2 DEF PromiseInv, UntouchedInv, Untouched, WorkSoFar
<1>5. ReportsAdvance'
  BY <1>1, <1>2 DEF PromiseInv, ReportsAdvance, IsRecent
<1>6. (Promise!SentIsOrdered)'
  BY <1>2 DEF PromiseInv, Promise!SentIsOrdered, Promise!SameCluster
<1>7. BaselineIsCurrent'
  BY <1>1, <1>2 DEF PromiseInv, BaselineIsCurrent, Promise!IsLast,
                    Promise!SameCluster
<1> QED
  BY <1>3, <1>4, <1>5, <1>6, <1>7 DEF PromiseInv

LEMMA TickPromise ==
  ASSUME TypeOK, PromiseInv, Tick
  PROVE  PromiseInv'
<1>1. /\ now' = now + 1
      /\ UNCHANGED <<newReports, reported, delivered, lastRun, todo, previous,
                     current, pc>>
  BY DEF Tick, tables, memory
<1>2. UNCHANGED SentRecords
  BY <1>1 DEF SentRecords
<1>3. ClockInv' /\ OncePerRun'
  BY <1>1, <1>2, FieldTypes DEF PromiseInv, ClockInv, OncePerRun, InHand
<1>4. UntouchedInv' /\ WorkSoFar'
  BY <1>1, <1>2 DEF PromiseInv, UntouchedInv, Untouched, WorkSoFar, InHand, InLoop
<1>5. ReportsAdvance'
  BY <1>1, <1>2, FieldTypes DEF PromiseInv, ReportsAdvance, IsRecent, InHand
<1>6. (Promise!SentIsOrdered)'
  BY <1>2 DEF PromiseInv, Promise!SentIsOrdered, Promise!SameCluster
<1>7. BaselineIsCurrent'
  <2>1. \A r \in SentRecords : now + 1 < r.notified_at + Cooldown
                                 => now < r.notified_at + Cooldown
    BY FieldTypes, CooldownAssumption
  <2> QED
    BY <1>1, <1>2, <2>1 DEF PromiseInv, BaselineIsCurrent, Promise!IsLast,
                            Promise!SameCluster, InHand, InLoop
<1> QED
  BY <1>3, <1>4, <1>5, <1>6, <1>7 DEF PromiseInv

LEMMA InsertPromise ==
  ASSUME TypeOK, PromiseInv, NEW entry, NEW report, InsertReport(entry, report)
  PROVE  PromiseInv'
<1> DEFINE row == [entry |-> entry, updated_at |-> now, report |-> report]
<1>1. /\ newReports' = newReports \union {row}
      /\ UNCHANGED <<now, reported, delivered, lastRun, todo, previous, current,
                     pc>>
      /\ \A r \in newReports :
           r.entry.cluster = entry.cluster => r.updated_at # now
  BY DEF InsertReport, memory
<1>2. UNCHANGED SentRecords
  BY <1>1 DEF SentRecords
<1>3. ClockInv'
  BY <1>1, <1>2, FieldTypes DEF PromiseInv, ClockInv, InHand
<1>4. OncePerRun'
  BY <1>1 DEF PromiseInv, OncePerRun, InHand
<1>5. UntouchedInv' /\ WorkSoFar'
  BY <1>1, <1>2 DEF PromiseInv, UntouchedInv, Untouched, WorkSoFar, InHand, InLoop
<1>6. ReportsAdvance'
  <2>1. ASSUME NEW cluster, NEW time, IsRecent(cluster, time)
        PROVE  IsRecent(cluster, time)'
    BY <1>1, <2>1 DEF IsRecent
  <2> QED
    BY <1>1, <1>2, <2>1 DEF PromiseInv, ReportsAdvance, InHand
<1>7. (Promise!SentIsOrdered)'
  BY <1>2 DEF PromiseInv, Promise!SentIsOrdered, Promise!SameCluster
<1>8. BaselineIsCurrent'
  BY <1>1, <1>2 DEF PromiseInv, BaselineIsCurrent, Promise!IsLast,
                    Promise!SameCluster, InHand, InLoop
<1> QED
  BY <1>3, <1>4, <1>5, <1>6, <1>7, <1>8 DEF PromiseInv

LEMMA ExitPromise ==
  ASSUME TypeOK, PromiseInv, NEW t \in Target, pc[t] # "idle", Exit(t),
         UNCHANGED <<now, newReports, reported, delivered>>
  PROVE  PromiseInv'
<1>1. /\ pc'[t] = "idle" /\ lastRun'[t] = now /\ todo'[t] = {}
      /\ \A u \in Target \ {t} : /\ pc'[u] = pc[u]
                                 /\ lastRun'[u] = lastRun[u]
                                 /\ todo'[u] = todo[u]
                                 /\ previous'[u] = previous[u]
                                 /\ current'[u] = current[u]
  BY DEF Exit, TypeOK
<1>2. UNCHANGED SentRecords
  BY DEF SentRecords
<1>3. ~InLoop(t)' /\ ~InHand(t)'
  BY <1>1 DEF InLoop, InHand
<1>4. \A u \in Target \ {t} : InLoop(u)' = InLoop(u) /\ InHand(u)' = InHand(u)
  BY <1>1 DEF InLoop, InHand
<1>5. ClockInv'
  BY <1>1, <1>2, <1>3, <1>4, FieldTypes DEF PromiseInv, ClockInv
<1>6. OncePerRun'
  BY <1>1, <1>3, <1>4 DEF PromiseInv, OncePerRun
<1>7. UntouchedInv'
  <2>1. \A cluster \in Cluster : Untouched(t, cluster)'
    BY <1>1, <1>2 DEF PromiseInv, ClockInv, Untouched
  <2> QED
    BY <1>1, <1>2, <1>3, <1>4, <2>1 DEF PromiseInv, UntouchedInv, Untouched
<1>8. WorkSoFar'
  BY <1>1, <1>2, <1>3, <1>4 DEF PromiseInv, WorkSoFar
<1>9. ReportsAdvance'
  BY <1>1, <1>2, <1>3, <1>4 DEF PromiseInv, ReportsAdvance, IsRecent
<1>10. (Promise!SentIsOrdered)'
  BY <1>2 DEF PromiseInv, Promise!SentIsOrdered, Promise!SameCluster
<1>11. BaselineIsCurrent'
  BY <1>1, <1>2, <1>3, <1>4 DEF PromiseInv, BaselineIsCurrent, Promise!IsLast,
                                Promise!SameCluster
<1> QED
  BY <1>5, <1>6, <1>7, <1>8, <1>9, <1>10, <1>11 DEF PromiseInv

LEMMA NewReportsCleanupPromise ==
  ASSUME TypeOK, PromiseInv, NEW t \in Target, performNewReportsCleanup(t)
  PROVE  PromiseInv'
<1>1. /\ pc[t] = "cleanNewReports"
      /\ newReports' = {r \in newReports : r.updated_at + MaxAge >= now}
      /\ UNCHANGED <<now, reported, delivered, lastRun, todo, previous, current>>
  BY DEF performNewReportsCleanup, Cleanup, memory
<1>2. UNCHANGED SentRecords
  BY <1>1 DEF SentRecords
<1>3. \A u \in Target : /\ InLoop(u)' = InLoop(u)
                        /\ InHand(u)' = InHand(u)
                        /\ pc'[u] # "idle" => pc[u] # "idle"
  BY <1>1 DEF performNewReportsCleanup, TypeOK, InLoop, InHand
<1>4. ClockInv' /\ OncePerRun'
  BY <1>1, <1>2, <1>3 DEF PromiseInv, ClockInv, OncePerRun
<1>5. UntouchedInv' /\ WorkSoFar'
  BY <1>1, <1>2, <1>3 DEF PromiseInv, UntouchedInv, Untouched, WorkSoFar
<1>6. ReportsAdvance'
  <2>1. ASSUME NEW cluster, NEW time \in Nat, IsRecent(cluster, time)
        PROVE  IsRecent(cluster, time)'
    <3> SUFFICES ASSUME NEW r \in newReports', r.entry.cluster = cluster
                 PROVE  \E s \in newReports' : /\ s.entry.cluster = cluster
                                               /\ time =< s.updated_at
      BY <1>1, <2>1 DEF IsRecent
    <3>1. PICK s \in newReports : s.entry.cluster = cluster /\ time =< s.updated_at
      BY <1>1, <2>1 DEF IsRecent
    <3>2. CASE s \in newReports'
      BY <3>1, <3>2
    <3>3. CASE s \notin newReports'
      <4>1. s.updated_at =< r.updated_at
        BY <1>1, <3>3, FieldTypes, MaxAgeAssumption
      <4>2. time =< r.updated_at
        BY <1>1, <3>1, <4>1, FieldTypes
      <4> QED
        BY <4>2
    <3> QED
      BY <3>2, <3>3
  <2> QED
    BY <1>1, <1>2, <1>3, <2>1, FieldTypes DEF PromiseInv, ReportsAdvance
<1>7. (Promise!SentIsOrdered)'
  BY <1>2 DEF PromiseInv, Promise!SentIsOrdered, Promise!SameCluster
<1>8. BaselineIsCurrent'
  BY <1>1, <1>2, <1>3 DEF PromiseInv, BaselineIsCurrent, Promise!IsLast,
                          Promise!SameCluster
<1> QED
  BY <1>4, <1>5, <1>6, <1>7, <1>8 DEF PromiseInv

\* What a cleanup of `reported` leaves is the end of each cluster's history.
LEMMA CleanupForgetsTheOldest ==
  ASSUME TypeOK, PromiseInv, NEW t \in Target, performOldReportsCleanup(t)
  PROVE  /\ SentRecords' \subseteq SentRecords
         /\ \A r \in SentRecords \ SentRecords', s \in SentRecords' :
              r.updated_at < s.updated_at
         /\ \A r \in SentRecords' : (Promise!IsLast(r))' => Promise!IsLast(r)
<1>1. SentRecords' = {r \in SentRecords : r.updated_at + MaxAge >= now}
  BY DEF performOldReportsCleanup, Cleanup, SentRecords
<1>2. \A r \in SentRecords \ SentRecords', s \in SentRecords' :
        r.updated_at < s.updated_at
  BY <1>1, FieldTypes, MaxAgeAssumption
<1>3. ASSUME NEW r \in SentRecords', (Promise!IsLast(r))'
      PROVE  Promise!IsLast(r)
  <2> SUFFICES ASSUME NEW s \in SentRecords, Promise!SameCluster(s, r),
                      ~(s.notified_at =< r.notified_at)
               PROVE  FALSE
    BY DEF Promise!IsLast
  <2>1. r \in SentRecords /\ r.notified_at < s.notified_at
    BY <1>1, FieldTypes
  <2>2. r.updated_at =< s.updated_at
    BY <2>1 DEF PromiseInv, Promise!SentIsOrdered, Promise!SameCluster
  <2>3. s \in SentRecords'
    BY <1>2, <2>1, <2>2, FieldTypes
  <2> QED
    BY <1>3, <2>3 DEF Promise!IsLast, Promise!SameCluster
<1> QED
  BY <1>1, <1>2, <1>3

LEMMA OldReportsCleanupPromise ==
  ASSUME TypeOK, PromiseInv, NEW t \in Target, performOldReportsCleanup(t)
  PROVE  PromiseInv'
<1>1. /\ pc[t] = "cleanReported"
      /\ pc' = [pc EXCEPT ![t] = FirstRead]
      /\ UNCHANGED <<now, newReports, delivered, lastRun, todo, previous, current>>
  BY DEF performOldReportsCleanup, memory
<1>2. SentRecords' \subseteq SentRecords
  BY CleanupForgetsTheOldest
<1>3. \A u \in Target : /\ InLoop(u)' = InLoop(u)
                        /\ InHand(u)' = InHand(u)
                        /\ pc'[u] # "idle" => pc[u] # "idle"
  BY <1>1 DEF FirstRead, TypeOK, InLoop, InHand
<1>4. ClockInv' /\ OncePerRun'
  BY <1>1, <1>2, <1>3 DEF PromiseInv, ClockInv, OncePerRun
<1>5. UntouchedInv' /\ WorkSoFar'
  BY <1>1, <1>2, <1>3 DEF PromiseInv, UntouchedInv, Untouched, WorkSoFar
<1>6. ReportsAdvance'
  BY <1>1, <1>2, <1>3 DEF PromiseInv, ReportsAdvance, IsRecent
<1>7. (Promise!SentIsOrdered)'
  BY <1>2 DEF PromiseInv, Promise!SentIsOrdered, Promise!SameCluster
<1>8. BaselineIsCurrent'
  BY <1>1, <1>2, <1>3, CleanupForgetsTheOldest DEF PromiseInv, BaselineIsCurrent
<1> QED
  BY <1>4, <1>5, <1>6, <1>7, <1>8 DEF PromiseInv

\* The list a run starts with has the newest report of every cluster, once.
LEMMA ClusterListPromise ==
  ASSUME TypeOK, PromiseInv, ~BrokenStreams, NEW t \in Target, ReadClusterList(t)
  PROVE  PromiseInv'
<1> DEFINE entries == filterClusterList(NewestPerCluster(newReports))
<1>1. /\ pc[t] = "readClusterList"
      /\ UNCHANGED <<now, newReports, reported, delivered>>
      /\ \/ Exit(t)
         \/ /\ todo' = [todo EXCEPT ![t] = entries]
            /\ pc' = [pc EXCEPT ![t] = "readPrevious"]
            /\ UNCHANGED <<lastRun, previous, current>>
  BY DEF ReadClusterList, Received, tables
<1>2. CASE Exit(t)
  BY <1>1, <1>2, ExitPromise
<1>3. CASE /\ todo' = [todo EXCEPT ![t] = entries]
           /\ pc' = [pc EXCEPT ![t] = "readPrevious"]
           /\ UNCHANGED <<lastRun, previous, current>>
  <2>1. UNCHANGED SentRecords
    BY <1>1 DEF SentRecords
  <2>2. /\ todo'[t] = entries /\ pc'[t] = "readPrevious"
        /\ \A u \in Target \ {t} : todo'[u] = todo[u]
        /\ \A u \in Target : /\ InLoop(u)' = InLoop(u)
                             /\ InHand(u)' = InHand(u)
                             /\ pc'[u] # "idle" => pc[u] # "idle"
        /\ ~InLoop(t)' /\ ~InHand(t)'
    BY <1>1, <1>3 DEF TypeOK, InLoop, InHand
  <2>3. \A e \in entries :
          \E r \in newReports :
            /\ e = KeyOf(r)
            /\ \A s \in newReports : s.entry.cluster = r.entry.cluster
                                       => s.updated_at =< r.updated_at
    BY DEF filterClusterList, NewestPerCluster
  <2>4. \A e, f \in entries : e.entry.cluster = f.entry.cluster => e = f
    <3> SUFFICES ASSUME NEW e \in entries, NEW f \in entries,
                        e.entry.cluster = f.entry.cluster
                 PROVE  e = f
      OBVIOUS
    <3>1. PICK r \in newReports :
            /\ e = KeyOf(r)
            /\ \A s \in newReports : s.entry.cluster = r.entry.cluster
                                       => s.updated_at =< r.updated_at
      BY <2>3
    <3>2. PICK s \in newReports :
            /\ f = KeyOf(s)
            /\ \A q \in newReports : q.entry.cluster = s.entry.cluster
                                       => q.updated_at =< s.updated_at
      BY <2>3
    <3>3. r.entry.cluster = s.entry.cluster
      BY <3>1, <3>2 DEF KeyOf
    <3>4. r.updated_at = s.updated_at
      BY <3>1, <3>2, <3>3, FieldTypes
    <3> QED
      BY <3>1, <3>2, <3>3, <3>4 DEF PromiseInv, OncePerRun
  <2>5. \A e \in entries :
          /\ IsRecent(e.entry.cluster, e.updated_at)
          /\ \A r \in SentRecords : r.entry.cluster = e.entry.cluster
                                      => r.updated_at =< e.updated_at
    <3> SUFFICES ASSUME NEW e \in entries
                 PROVE  /\ IsRecent(e.entry.cluster, e.updated_at)
                        /\ \A r \in SentRecords :
                             r.entry.cluster = e.entry.cluster
                               => r.updated_at =< e.updated_at
      OBVIOUS
    <3>1. PICK s \in newReports :
            /\ e = KeyOf(s)
            /\ \A q \in newReports : q.entry.cluster = s.entry.cluster
                                       => q.updated_at =< s.updated_at
      BY <2>3
    <3>2. e.entry = s.entry /\ e.updated_at = s.updated_at
      BY <3>1 DEF KeyOf
    <3>3. IsRecent(e.entry.cluster, e.updated_at)
      BY <3>2, FieldTypes DEF IsRecent, PromiseInv, ClockInv
    <3>4. ASSUME NEW r \in SentRecords, r.entry.cluster = e.entry.cluster
          PROVE  r.updated_at =< e.updated_at
      <4>1. PICK q \in newReports : /\ q.entry.cluster = e.entry.cluster
                                    /\ r.updated_at =< q.updated_at
        BY <3>2, <3>4 DEF PromiseInv, ReportsAdvance, IsRecent
      <4>2. q.updated_at =< s.updated_at
        BY <3>1, <3>2, <4>1
      <4> QED
        BY <3>2, <4>1, <4>2, FieldTypes
    <3> QED
      BY <3>3, <3>4
  <2>6. ClockInv'
    BY <1>1, <1>3, <2>1, <2>2 DEF PromiseInv, ClockInv
  <2>7. OncePerRun'
    BY <1>1, <1>3, <2>2, <2>4 DEF PromiseInv, OncePerRun
  <2>8. UntouchedInv' /\ WorkSoFar'
    BY <1>1, <1>3, <2>1, <2>2 DEF PromiseInv, UntouchedInv, Untouched, WorkSoFar
  <2>9. ReportsAdvance'
    BY <1>1, <1>3, <2>1, <2>2, <2>5 DEF PromiseInv, ReportsAdvance, IsRecent
  <2>10. (Promise!SentIsOrdered)'
    BY <2>1 DEF PromiseInv, Promise!SentIsOrdered, Promise!SameCluster
  <2>11. BaselineIsCurrent'
    BY <1>1, <1>3, <2>1, <2>2 DEF PromiseInv, BaselineIsCurrent, Promise!IsLast,
                                  Promise!SameCluster
  <2> QED
    BY <2>6, <2>7, <2>8, <2>9, <2>10, <2>11 DEF PromiseInv
<1> QED
  BY <1>1, <1>2, <1>3

\* The baseline has the last sent record of every cluster in cool down.
LEMMA PreviousPromise ==
  ASSUME TypeOK, PromiseInv, ~BrokenStreams, NEW t \in Target,
         RetrievePreviouslyReportedForEventTarget(t)
  PROVE  PromiseInv'
<1>1. /\ pc[t] = "readPrevious"
      /\ pc' = [pc EXCEPT ![t] = "process"]
      /\ previous' = [previous EXCEPT ![t] =
           ReadLastNotifiedRecordForClusterList(t, reported, todo[t], now)]
      /\ UNCHANGED <<now, newReports, reported, delivered, lastRun, todo, current>>
  BY DEF RetrievePreviouslyReportedForEventTarget, Received, tables
<1>2. UNCHANGED SentRecords
  BY <1>1 DEF SentRecords
<1>3. /\ previous'[t] =
           ReadLastNotifiedRecordForClusterList(t, reported, todo[t], now)
      /\ ~InLoop(t) /\ ~InHand(t) /\ InLoop(t)' /\ ~InHand(t)'
      /\ \A u \in Target \ {t} : previous'[u] = previous[u]
      /\ \A u \in Target \ {t} : InLoop(u)' = InLoop(u)
      /\ \A u \in Target : /\ InHand(u)' = InHand(u)
                           /\ pc'[u] # "idle" => pc[u] # "idle"
  BY <1>1 DEF TypeOK, InLoop, InHand
<1>4. ClockInv' /\ OncePerRun'
  BY <1>1, <1>2, <1>3 DEF PromiseInv, ClockInv, OncePerRun
<1>5. UntouchedInv'
  <2>1. \A e \in todo[t] : e.entry.cluster \in Cluster
    BY DEF TypeOK, ClusterEntry, Entry
  <2> QED
    BY <1>1, <1>2, <1>3, <2>1 DEF PromiseInv, UntouchedInv, Untouched
<1>6. WorkSoFar' /\ ReportsAdvance'
  BY <1>1, <1>2, <1>3 DEF PromiseInv, WorkSoFar, ReportsAdvance, IsRecent
<1>7. (Promise!SentIsOrdered)'
  BY <1>2 DEF PromiseInv, Promise!SentIsOrdered, Promise!SameCluster
<1>8. BaselineIsCurrent'
  <2>1. ASSUME NEW r \in SentRecords, r.target = t, Promise!IsLast(r),
               NEW e \in todo[t], r.entry = e.entry,
               now < r.notified_at + Cooldown
        PROVE  r \in previous'[t]
    <3>1. r \in SentTo(t, reported, todo[t])
      BY <2>1 DEF SentTo, SentRecords
    <3>2. \A s \in SentTo(t, reported, todo[t]) :
            s.entry.cluster = r.entry.cluster => s.notified_at =< r.notified_at
      BY <2>1 DEF SentTo, SentRecords, Promise!IsLast, Promise!SameCluster
    <3>3. r.notified_at + Cooldown > now
      BY <2>1, FieldTypes, CooldownAssumption
    <3> QED
      BY <1>3, <3>1, <3>2, <3>3
         DEF ReadLastNotifiedRecordForClusterList, LastPerCluster
  <2> QED
    BY <1>1, <1>2, <1>3, <2>1 DEF PromiseInv, BaselineIsCurrent, Promise!IsLast,
                                  Promise!SameCluster
<1> QED
  BY <1>4, <1>5, <1>6, <1>7, <1>8 DEF PromiseInv

LEMMA StartupPromise ==
  ASSUME TypeOK, PromiseInv, ~BrokenStreams, NEW t \in Target, Startup(t)
  PROVE  PromiseInv'
<1>1. CASE StartRun(t)
  <2>1. \A u \in Target : \/ pc'[u] = pc[u]
                          \/ ~InLoop(u) /\ ~InLoop(u)' /\ lastRun[u] < now
    BY <1>1 DEF StartRun, FirstRead, TypeOK, InLoop
  <2> QED
    BY <1>1, <2>1, PromiseFrame DEF StartRun, tables, memory
<1>2. CASE performNewReportsCleanup(t)
  BY <1>2, NewReportsCleanupPromise
<1>3. CASE performOldReportsCleanup(t)
  BY <1>3, OldReportsCleanupPromise
<1>4. CASE ReadClusterRuleToggles(t) \/ ReadOrgRuleDisables(t)
  <2>1. \A u \in Target : \/ pc'[u] = pc[u]
                          \/ ~InLoop(u) /\ ~InLoop(u)' /\ lastRun[u] < now
    BY <1>4 DEF ReadClusterRuleToggles, ReadOrgRuleDisables, TypeOK, InLoop,
                PromiseInv, ClockInv
  <2> QED
    BY <1>4, <2>1, PromiseFrame
       DEF ReadClusterRuleToggles, ReadOrgRuleDisables, tables
<1>5. CASE ReadClusterList(t)
  BY <1>5, ClusterListPromise
<1>6. CASE RetrievePreviouslyReportedForEventTarget(t)
  BY <1>6, PreviousPromise
<1> QED
  BY <1>1, <1>2, <1>3, <1>4, <1>5, <1>6 DEF Startup

\* A cluster is dropped, or its read error is handled.
LEMMA SkipPromise ==
  ASSUME TypeOK, PromiseInv, NEW t \in Target,
         UNCHANGED <<now, newReports, reported, delivered, lastRun, previous>>,
         \A u \in Target : todo'[u] \subseteq todo[u],
         \A u \in Target \ {t} : pc'[u] = pc[u] /\ current'[u] = current[u],
         pc[t] \in {"process", "writeReadError"},
         pc'[t] \in {"process", "writeReadError"}
  PROVE  PromiseInv'
<1>1. UNCHANGED SentRecords
  BY DEF SentRecords
<1>2. /\ \A u \in Target : InLoop(u)' = InLoop(u) /\ InHand(u)' = InHand(u)
      /\ ~InHand(t)
      /\ pc[t] # "idle"
  BY DEF InLoop, InHand
<1>3. ClockInv' /\ OncePerRun'
  BY <1>1, <1>2 DEF PromiseInv, ClockInv, OncePerRun
<1>4. UntouchedInv' /\ WorkSoFar'
  BY <1>1, <1>2 DEF PromiseInv, UntouchedInv, Untouched, WorkSoFar
<1>5. ReportsAdvance'
  BY <1>1, <1>2 DEF PromiseInv, ReportsAdvance, IsRecent
<1>6. (Promise!SentIsOrdered)'
  BY <1>1 DEF PromiseInv, Promise!SentIsOrdered, Promise!SameCluster
<1>7. BaselineIsCurrent'
  BY <1>1, <1>2 DEF PromiseInv, BaselineIsCurrent, Promise!IsLast,
                    Promise!SameCluster
<1> QED
  BY <1>3, <1>4, <1>5, <1>6, <1>7 DEF PromiseInv

\* What is prepared has been neither notified nor recorded in this run, and
\* leaves out what the last sent record silences.
LEMMA PreparePromise ==
  ASSUME TypeOK, PromiseInv, NEW t \in Target, NEW r \in newReports,
         PrepareNotification(t, r)
  PROVE  PromiseInv'
<1> DEFINE e == KeyOf(r)
           work == current'[t]
<1>1. /\ pc[t] = "process" /\ e \in todo[t]
      /\ todo' = [todo EXCEPT ![t] = todo[t] \ {e}]
      /\ UNCHANGED <<now, newReports, reported, delivered, lastRun, previous>>
  BY DEF PrepareNotification, tables
<1>2. /\ e.entry = r.entry /\ e.updated_at = r.updated_at
      /\ work.entry = r.entry /\ work.updated_at = r.updated_at
      /\ work.notified_at = now
  BY DEF PrepareNotification, KeyOf, TypeOK
<1>3. /\ work.pending \subseteq work.stored
      /\ \A i \in work.pending : ShouldNotify(previous[t], r.entry, i)
  BY DEF PrepareNotification, getReportsWithIssuesToNotify,
         filterDisabledRulesFromReport, TypeOK
<1>4. /\ pc'[t] \in {"send", "record"}
      /\ \A u \in Target \ {t} : pc'[u] = pc[u] /\ current'[u] = current[u]
  BY PreparedWork
<1>5. UNCHANGED SentRecords
  BY <1>1 DEF SentRecords
<1>6. /\ InLoop(t) /\ ~InHand(t) /\ InLoop(t)' /\ InHand(t)'
      /\ \A u \in Target \ {t} : InLoop(u)' = InLoop(u) /\ InHand(u)' = InHand(u)
  BY <1>1, <1>4 DEF InLoop, InHand
<1>7. /\ todo'[t] = todo[t] \ {e}
      /\ \A u \in Target : todo'[u] \subseteq todo[u]
  BY <1>1 DEF TypeOK
<1>8. lastRun[t] < now /\ Untouched(t, r.entry.cluster)
  BY <1>1, <1>2, <1>6 DEF PromiseInv, ClockInv, UntouchedInv
<1>9. ClockInv'
  BY <1>1, <1>2, <1>4, <1>5, <1>6, <1>8, FieldTypes DEF PromiseInv, ClockInv
<1>10. OncePerRun'
  BY <1>1, <1>2, <1>4, <1>6, <1>7 DEF PromiseInv, OncePerRun
<1>11. UntouchedInv'
  BY <1>1, <1>4, <1>5, <1>6, <1>7 DEF PromiseInv, UntouchedInv, Untouched
<1>12. WorkSoFar'
  BY <1>1, <1>2, <1>3, <1>4, <1>5, <1>6, <1>8 DEF PromiseInv, WorkSoFar, Untouched
<1>13. ReportsAdvance'
  BY <1>1, <1>2, <1>4, <1>5, <1>6, <1>7 DEF PromiseInv, ReportsAdvance, IsRecent
<1>14. (Promise!SentIsOrdered)'
  BY <1>5 DEF PromiseInv, Promise!SentIsOrdered, Promise!SameCluster
<1>15. BaselineIsCurrent'
  <2>1. ASSUME NEW s \in SentRecords, s.target = t, Promise!IsLast(s),
               s.entry = work.entry, work.notified_at < s.notified_at + Cooldown
        PROVE  s.report \intersect work.pending = {}
    <3>1. s \in previous[t]
      BY <1>1, <1>2, <1>6, <2>1 DEF PromiseInv, BaselineIsCurrent
    <3> QED
      BY <1>2, <1>3, <2>1, <3>1 DEF ShouldNotify, IssueNotInReport
  <2> QED
    BY <1>1, <1>4, <1>5, <1>6, <1>7, <2>1 DEF PromiseInv, BaselineIsCurrent,
                                         Promise!IsLast, Promise!SameCluster
<1> QED
  BY <1>9, <1>10, <1>11, <1>12, <1>13, <1>14, <1>15 DEF PromiseInv

\* What a sending step may do.
LEMMA SendingStep ==
  ASSUME TypeOK, NEW t \in Target,
         ProduceMessageSucceeds(t) \/ ProduceMessageFails(t)
  PROVE  /\ pc[t] = "send" /\ pc'[t] \in {"send", "record"}
         /\ \A u \in Target \ {t} : pc'[u] = pc[u] /\ current'[u] = current[u]
         /\ current[t] \in Work /\ current'[t] \in Work
         /\ current'[t].entry = current[t].entry
         /\ current'[t].stored = current[t].stored
         /\ current'[t].updated_at = current[t].updated_at
         /\ current'[t].notified_at = current[t].notified_at
         /\ current'[t].pending \subseteq current[t].pending
         /\ UNCHANGED <<now, newReports, reported, lastRun, todo, previous>>
         /\ delivered \subseteq delivered'
         /\ \A d \in delivered' \ delivered :
              /\ d \in Delivery
              /\ d.target = t
              /\ d.entry = current[t].entry
              /\ d.issue \in current[t].pending
              /\ d.notified_at = current[t].notified_at
<1>1. pc[t] = "send" /\ current[t] \in Work
  BY DEF ProduceMessageSucceeds, ProduceMessageFails, TypeOK
<1>2. PICK message \in Messages(t) : \E outcome \in State :
        /\ MessageDone(t, message, outcome)
        /\ delivered' \in {delivered, delivered \union Deliveries(t, message)}
  <2>1. current[t].outcome \in State
    BY <1>1 DEF Work
  <2> QED
    BY <2>1 DEF ProduceMessageSucceeds, ProduceMessageFails, State
<1>3. PICK outcome \in State : MessageDone(t, message, outcome)
  BY <1>2
<1>4. /\ message \subseteq current[t].pending
      /\ Deliveries(t, message) \subseteq Delivery
      /\ current'[t] = [current[t] EXCEPT !.pending = current[t].pending \ message,
                                          !.outcome = outcome]
      /\ current'[t] \in Work
      /\ \A u \in Target \ {t} : current'[u] = current[u]
      /\ pc'[t] = IF current[t].pending \ message = {} THEN "record" ELSE "send"
      /\ \A u \in Target \ {t} : pc'[u] = pc[u]
  <2>1. pc[t] = "send" /\ MessageDone(t, message, outcome)
    BY <1>1, <1>3
  <2>2. message \subseteq current[t].pending /\ Deliveries(t, message) \subseteq Delivery
    BY <2>1, MessageDoneType
  <2>3. current'[t] = [current[t] EXCEPT !.pending = current[t].pending \ message,
                                         !.outcome = outcome]
    <3>1. t \in DOMAIN current
      BY DEF TypeOK
    <3> QED
      BY <2>1, <3>1 DEF MessageDone
  <2>4. current'[t] \in Work
    BY <2>1, MessageDoneType
  <2>5. \A u \in Target \ {t} : current'[u] = current[u] /\ pc'[u] = pc[u]
    BY <2>1, MessageDoneType
  <2>6. pc'[t] = IF current[t].pending \ message = {} THEN "record" ELSE "send"
    BY <2>1, MessageDoneType
  <2> QED
    BY <2>2, <2>3, <2>4, <2>5, <2>6, Zenon
<1>5. \A d \in delivered' \ delivered :
        /\ d \in Delivery
        /\ d.target = t
        /\ d.entry = current[t].entry
        /\ d.issue \in current[t].pending
        /\ d.notified_at = current[t].notified_at
  BY <1>2, <1>4 DEF Deliveries
<1>6. UNCHANGED <<now, newReports, reported, lastRun, todo, previous>>
  BY DEF ProduceMessageSucceeds, ProduceMessageFails, tables
<1> QED
  BY <1>1, <1>2, <1>4, <1>5, <1>6 DEF Work

\* The cluster in hand is not among those still to be processed, so what is
\* sent of it leaves them untouched.
LEMMA SendPromise ==
  ASSUME TypeOK, PromiseInv, NEW t \in Target,
         ProduceMessageSucceeds(t) \/ ProduceMessageFails(t)
  PROVE  PromiseInv'
<1> DEFINE work == current[t]
<1>1. /\ pc[t] = "send" /\ pc'[t] \in {"send", "record"}
      /\ \A u \in Target \ {t} : pc'[u] = pc[u] /\ current'[u] = current[u]
      /\ current'[t].entry = work.entry
      /\ current'[t].stored = work.stored
      /\ current'[t].updated_at = work.updated_at
      /\ current'[t].notified_at = work.notified_at
      /\ current'[t].pending \subseteq work.pending
      /\ UNCHANGED <<now, newReports, reported, lastRun, todo, previous>>
      /\ delivered \subseteq delivered'
      /\ \A d \in delivered' \ delivered : /\ d.target = t
                                           /\ d.entry = work.entry
                                           /\ d.issue \in work.pending
                                           /\ d.notified_at = work.notified_at
  BY SendingStep
<1>2. UNCHANGED SentRecords
  BY <1>1 DEF SentRecords
<1>3. /\ \A u \in Target : /\ InLoop(u)' = InLoop(u)
                           /\ InHand(u)' = InHand(u)
                           /\ pc'[u] # "idle" => pc[u] # "idle"
      /\ InHand(t) /\ InLoop(t)
  BY <1>1 DEF InLoop, InHand
<1>4. /\ lastRun[t] < work.notified_at /\ work.notified_at =< now
      /\ work.pending \subseteq work.stored
      /\ \A e \in todo[t] : e.entry.cluster # work.entry.cluster
  BY <1>3 DEF PromiseInv, ClockInv, WorkSoFar, OncePerRun
<1>5. ClockInv'
  BY <1>1, <1>2, <1>3, <1>4 DEF PromiseInv, ClockInv
<1>6. OncePerRun'
  BY <1>1, <1>3 DEF PromiseInv, OncePerRun
<1>7. UntouchedInv'
  BY <1>1, <1>2, <1>3, <1>4 DEF PromiseInv, UntouchedInv, Untouched
<1>8. WorkSoFar'
  BY <1>1, <1>2, <1>3, <1>4 DEF PromiseInv, WorkSoFar
<1>9. ReportsAdvance'
  BY <1>1, <1>2, <1>3 DEF PromiseInv, ReportsAdvance, IsRecent
<1>10. (Promise!SentIsOrdered)'
  BY <1>2 DEF PromiseInv, Promise!SentIsOrdered, Promise!SameCluster
<1>11. BaselineIsCurrent'
  BY <1>1, <1>2, <1>3 DEF PromiseInv, BaselineIsCurrent, Promise!IsLast,
                          Promise!SameCluster
<1> QED
  BY <1>5, <1>6, <1>7, <1>8, <1>9, <1>10, <1>11 DEF PromiseInv

\* A new sent record is the last of its cluster.
LEMMA NewSentRecord ==
  ASSUME TypeOK, PromiseInv, NEW t \in Target, updateNotificationRecordState(t),
         SentRecords' # SentRecords
  PROVE  /\ SentRecords' = SentRecords \union {RecordOf(t)}
         /\ RecordOf(t) \notin SentRecords
         /\ current[t].outcome = "sent"
         /\ \A s \in SentRecords :
              s.target = t /\ s.entry.cluster = current[t].entry.cluster
                => /\ s.notified_at < current[t].notified_at
                   /\ s.updated_at =< current[t].updated_at
<1>1. pc[t] = "record" /\ InHand(t)
  BY DEF updateNotificationRecordState, InHand
<1>2. \A s \in SentRecords :
        s.target = t /\ s.entry.cluster = current[t].entry.cluster
          => /\ s.notified_at < current[t].notified_at
             /\ s.updated_at =< current[t].updated_at
  BY <1>1, FieldTypes DEF PromiseInv, ClockInv, WorkSoFar, ReportsAdvance
<1>3. /\ RecordOf(t).target = t
      /\ RecordOf(t).entry = current[t].entry
      /\ RecordOf(t).notified_at = current[t].notified_at
      /\ RecordOf(t).state = current[t].outcome
  BY DEF RecordOf
<1>4. RecordOf(t) \notin SentRecords
  BY <1>1, <1>2, <1>3, FieldTypes
<1>5. reported' = reported \union {RecordOf(t)} \/ reported' = reported
  BY DEF updateNotificationRecordState
<1>6. /\ SentRecords' = SentRecords \union {RecordOf(t)}
      /\ RecordOf(t).state = "sent"
  BY <1>5 DEF SentRecords
<1> QED
  BY <1>2, <1>3, <1>4, <1>6

LEMMA RecordPromise ==
  ASSUME TypeOK, PromiseInv, NEW t \in Target, updateNotificationRecordState(t)
  PROVE  PromiseInv'
<1> DEFINE work == current[t]
<1>1. /\ pc[t] = "record" /\ pc'[t] = "process"
      /\ \A u \in Target \ {t} : pc'[u] = pc[u] /\ current'[u] = current[u]
      /\ UNCHANGED <<now, newReports, delivered, lastRun, todo, previous>>
  BY DEF updateNotificationRecordState, TypeOK
<1>2. CASE SentRecords' = SentRecords
  <2>1. /\ \A u \in Target \ {t} : InHand(u)' = InHand(u)
        /\ \A u \in Target : InLoop(u)' = InLoop(u)
        /\ InHand(t) /\ ~InHand(t)'
        /\ \A u \in Target : pc'[u] # "idle" => pc[u] # "idle"
    BY <1>1 DEF InHand, InLoop
  <2>2. ClockInv' /\ OncePerRun'
    BY <1>1, <1>2, <2>1 DEF PromiseInv, ClockInv, OncePerRun
  <2>3. UntouchedInv' /\ WorkSoFar'
    BY <1>1, <1>2, <2>1 DEF PromiseInv, UntouchedInv, Untouched, WorkSoFar
  <2>4. ReportsAdvance'
    BY <1>1, <1>2, <2>1 DEF PromiseInv, ReportsAdvance, IsRecent
  <2>5. (Promise!SentIsOrdered)'
    BY <1>2 DEF PromiseInv, Promise!SentIsOrdered, Promise!SameCluster
  <2>6. BaselineIsCurrent'
    BY <1>1, <1>2, <2>1 DEF PromiseInv, BaselineIsCurrent, Promise!IsLast,
                            Promise!SameCluster
  <2> QED
    BY <2>2, <2>3, <2>4, <2>5, <2>6 DEF PromiseInv
<1>3. CASE SentRecords' # SentRecords
  <2>1. /\ \A u \in Target \ {t} : InHand(u)' = InHand(u)
        /\ \A u \in Target : InLoop(u)' = InLoop(u)
        /\ InHand(t) /\ ~InHand(t)'
        /\ \A u \in Target : pc'[u] # "idle" => pc[u] # "idle"
    BY <1>1 DEF InHand, InLoop
  <2> DEFINE new == RecordOf(t)
  <2>2. /\ new.target = t
        /\ new.entry = work.entry
        /\ new.updated_at = work.updated_at
        /\ new.notified_at = work.notified_at
    BY DEF RecordOf
  <2>3. /\ SentRecords' = SentRecords \union {new}
        /\ \A s \in SentRecords :
             s.target = t /\ s.entry.cluster = new.entry.cluster
               => /\ s.notified_at < new.notified_at
                  /\ s.updated_at =< new.updated_at
    BY <1>3, <2>2, NewSentRecord
  <2> HIDE DEF new
  <2>4. /\ new.notified_at =< now
        /\ \A e \in todo[t] : e.entry.cluster # new.entry.cluster
        /\ IsRecent(new.entry.cluster, new.updated_at)
    BY <2>1, <2>2 DEF PromiseInv, ClockInv, OncePerRun, ReportsAdvance
  <2>5. ClockInv' /\ OncePerRun'
    BY <1>1, <2>1, <2>3, <2>4 DEF PromiseInv, ClockInv, OncePerRun
  <2>6. UntouchedInv'
    <3>1. \A u \in Target : \A cluster :
            /\ Untouched(u, cluster)
            /\ u = t => cluster # new.entry.cluster
            => Untouched(u, cluster)'
      BY <1>1, <2>2, <2>3 DEF Untouched
    <3>2. \A u \in Target \ {t} : \A cluster :
            Untouched(u, cluster) => Untouched(u, cluster)'
      BY <3>1
    <3>3. \A cluster : /\ Untouched(t, cluster)
                       /\ cluster # new.entry.cluster
                       => Untouched(t, cluster)'
      BY <3>1
    <3>4. ASSUME NEW u \in Target \ {t}
          PROVE  /\ ~InLoop(u) => \A cluster \in Cluster : Untouched(u, cluster)'
                 /\ InLoop(u) => \A e \in todo[u] : Untouched(u, e.entry.cluster)'
      BY <3>2 DEF PromiseInv, UntouchedInv
    <3>5. InLoop(t) /\ \A e \in todo[t] : Untouched(t, e.entry.cluster)'
      BY <1>1, <2>4, <3>3 DEF PromiseInv, UntouchedInv, InLoop
    <3> QED
      BY <1>1, <2>1, <3>4, <3>5 DEF UntouchedInv, Untouched
  <2>7. WorkSoFar'
    BY <1>1, <2>1, <2>2, <2>3 DEF PromiseInv, WorkSoFar
  <2>8. ReportsAdvance'
    BY <1>1, <2>1, <2>2, <2>3, <2>4 DEF PromiseInv, ReportsAdvance, IsRecent
  <2>9. (Promise!SentIsOrdered)'
    BY <2>2, <2>3, FieldTypes, <2>1
       DEF PromiseInv, Promise!SentIsOrdered, Promise!SameCluster
  <2>10. BaselineIsCurrent'
    <3>1. \A r \in SentRecords : (Promise!IsLast(r))' => Promise!IsLast(r)
      BY <2>3 DEF Promise!IsLast, Promise!SameCluster
    <3> QED
      BY <1>1, <2>1, <2>2, <2>3, <2>4, <3>1 DEF PromiseInv, BaselineIsCurrent
  <2> QED
    BY <2>5, <2>6, <2>7, <2>8, <2>9, <2>10 DEF PromiseInv
<1> QED
  BY <1>2, <1>3

LEMMA ProcessPromise ==
  ASSUME TypeOK, PromiseInv, NEW t \in Target, processReportsByCluster(t)
  PROVE  PromiseInv'
<1>1. CASE \/ \E e \in todo[t] : SkipCluster(t, e) \/ ReadReportFails(t, e)
           \/ WriteReadError(t)
  <2>1. UNCHANGED <<now, newReports, reported, delivered, lastRun, previous>>
    BY <1>1 DEF SkipCluster, ReadReportFails, WriteReadError, tables
  <2>2. \A u \in Target : todo'[u] \subseteq todo[u]
    BY <1>1 DEF SkipCluster, ReadReportFails, WriteReadError, TypeOK
  <2>3. /\ pc[t] \in {"process", "writeReadError"}
        /\ pc'[t] \in {"process", "writeReadError"}
        /\ \A u \in Target \ {t} : pc'[u] = pc[u] /\ current'[u] = current[u]
    BY <1>1 DEF SkipCluster, ReadReportFails, WriteReadError, TypeOK
  <2> QED
    BY <2>1, <2>2, <2>3, SkipPromise
<1> QED
  BY <1>1, PreparePromise, SendPromise, RecordPromise DEF processReportsByCluster

LEMMA InitPromise == Init => PromiseInv
BY DEF Init, PromiseInv, ClockInv, OncePerRun, UntouchedInv, Untouched, WorkSoFar,
       Promise!SentIsOrdered, ReportsAdvance, BaselineIsCurrent, SentRecords,
       InLoop, InHand

LEMMA NextPromise ==
  ASSUME ~BrokenStreams, TypeOK, PromiseInv, [Next]_vars
  PROVE  PromiseInv'
<1>1. CASE Tick
  BY <1>1, TickPromise
<1>2. ASSUME NEW entry \in Entry, NEW report \in Uploads,
             InsertReport(entry, report)
      PROVE  PromiseInv'
  BY <1>2, InsertPromise
<1>3. CASE CustomerDisablesRule \/ CustomerEnablesRule
  BY <1>3, PromiseFrame
     DEF CustomerDisablesRule, CustomerEnablesRule, tables, memory
<1>4. ASSUME NEW t \in Target, FinishRun(t) \/ AbortRun(t)
      PROVE  PromiseInv'
  <2>1. /\ Exit(t)
        /\ pc[t] # "idle"
        /\ UNCHANGED <<now, newReports, reported, delivered>>
    BY <1>4 DEF FinishRun, AbortRun, tables
  <2> QED
    BY <2>1, ExitPromise
<1>5. CASE UNCHANGED vars
  BY <1>5, PromiseFrame DEF vars
<1> QED
  BY <1>1, <1>2, <1>3, <1>4, <1>5, StartupPromise, ProcessPromise
     DEF Next, Environment, Job

-----------------------------------------------------------------------------
(***************************************************************************)
(* The steps of the jobs as steps of Notification.                         *)
(***************************************************************************)

\* What is sent has not been notified or recorded in this run yet, and the last
\* sent record of the cluster does not silence it.
LEMMA SendNotifies ==
  ASSUME TypeOK, PromiseInv, NEW t \in Target,
         ProduceMessageSucceeds(t) \/ ProduceMessageFails(t)
  PROVE  Promise!Notify
<1> DEFINE work == current[t]
<1>1. /\ InHand(t)
      /\ UNCHANGED <<now, reported>>
      /\ delivered \subseteq delivered'
      /\ \A d \in delivered' \ delivered :
           /\ d \in Delivery
           /\ d.target = t
           /\ d.entry = work.entry
           /\ d.issue \in work.pending
           /\ d.notified_at = work.notified_at
  BY SendingStep DEF InHand
<1>2. UNCHANGED SentRecords
  BY <1>1 DEF SentRecords
<1>3. /\ lastRun[t] < work.notified_at /\ work.notified_at =< now
      /\ lastRun[t] \in Nat /\ work.notified_at \in Nat
  BY <1>1, FieldTypes DEF PromiseInv, ClockInv
<1>4. ASSUME NEW d \in delivered' \ delivered
      PROVE  /\ d \in Promise!Delivery
             /\ d.notified_at =< now
             /\ \A e \in delivered' :
                  Promise!SameCluster(e, d) => e.notified_at =< d.notified_at
             /\ \A r \in SentRecords :
                  Promise!SameCluster(r, d) => r.notified_at < d.notified_at
             /\ ~ \E r \in SentRecords : Promise!Silences(r, d)
  <2>1. d \in Promise!Delivery
    BY <1>1 DEF Delivery, Promise!Delivery
  <2>2. \A e \in delivered' :
          Promise!SameCluster(e, d) => e.notified_at =< d.notified_at
    <3> SUFFICES ASSUME NEW e \in delivered', Promise!SameCluster(e, d)
                 PROVE  e.notified_at =< d.notified_at
      OBVIOUS
    <3>1. CASE e \in delivered
      BY <1>1, <1>3, <3>1, FieldTypes
         DEF PromiseInv, WorkSoFar, Promise!SameCluster
    <3>2. CASE e \notin delivered
      BY <1>1, <1>3, <3>2
    <3> QED
      BY <3>1, <3>2
  <2>3. \A r \in SentRecords :
          Promise!SameCluster(r, d) => r.notified_at < d.notified_at
    BY <1>1, <1>3, FieldTypes DEF PromiseInv, WorkSoFar, Promise!SameCluster
  <2>4. \A r \in SentRecords : ~Promise!Silences(r, d)
    BY <1>1 DEF PromiseInv, BaselineIsCurrent, Promise!Silences,
                Promise!SameCluster
  <2> QED
    BY <1>1, <1>3, <2>1, <2>2, <2>3, <2>4
<1> QED
  BY <1>1, <1>2, <1>4 DEF Promise!Notify

\* What is recorded as sent has been notified by this run, and last.
LEMMA RecordRemembers ==
  ASSUME TypeOK, SentInv, PromiseInv, NEW t \in Target,
         updateNotificationRecordState(t), SentRecords' # SentRecords
  PROVE  Promise!Remember
<1> DEFINE new == RecordOf(t)
<1>1. /\ pc[t] = "record" /\ InHand(t) /\ current[t] \in Work
      /\ UNCHANGED <<now, delivered>>
  BY DEF updateNotificationRecordState, InHand, TypeOK
<1>2. /\ new.target = t
      /\ new.entry = current[t].entry
      /\ new.report = current[t].stored
      /\ new.updated_at = current[t].updated_at
      /\ new.notified_at = current[t].notified_at
  BY DEF RecordOf
<1>3. /\ SentRecords' = SentRecords \union {new}
      /\ new \notin SentRecords
      /\ current[t].outcome = "sent"
      /\ \A s \in SentRecords :
           s.target = t /\ s.entry.cluster = new.entry.cluster
             => /\ s.notified_at < new.notified_at
                /\ s.updated_at =< new.updated_at
  BY <1>2, NewSentRecord
<1>4. Promise!IsSentRecord(new)
  BY <1>1, <1>2 DEF Promise!IsSentRecord, Work, Report
<1>5. \E d \in delivered : Promise!SameNotification(d, new)
  BY <1>1, <1>2, <1>3
     DEF SentInv, SentWorkHasDelivery, HasDelivery, Promise!SameNotification
<1>6. ASSUME NEW d \in delivered
      PROVE  /\ Promise!SameNotification(d, new) => d.issue \in new.report
             /\ Promise!SameCluster(d, new) => d.notified_at =< new.notified_at
  <2>1. /\ lastRun[t] < new.notified_at
        /\ lastRun[t] \in Nat /\ new.notified_at \in Nat /\ d.notified_at \in Nat
    BY <1>1, <1>2, FieldTypes DEF PromiseInv, ClockInv
  <2>2. d.target = t /\ d.entry.cluster = new.entry.cluster
          => \/ d.notified_at =< lastRun[t]
             \/ d.notified_at = new.notified_at /\ d.issue \in new.report
    BY <1>1, <1>2 DEF PromiseInv, WorkSoFar
  <2> QED
    BY <1>2, <2>1, <2>2 DEF Promise!SameNotification, Promise!SameCluster
<1>7. \A s \in SentRecords : Promise!SameCluster(s, new) =>
        s.notified_at < new.notified_at /\ s.updated_at =< new.updated_at
  BY <1>2, <1>3 DEF Promise!SameCluster
<1> QED
  BY <1>1, <1>3, <1>4, <1>5, <1>6, <1>7 DEF Promise!Remember

LEMMA StepKeepsPromise ==
  ASSUME TypeOK, SentInv, PromiseInv, [Next]_vars
  PROVE  [Promise!Next]_(Promise!notificationVars)
<1>1. CASE Tick
  BY <1>1 DEF Tick, tables, SentRecords, Promise!Next, Promise!Tick
<1>2. ASSUME UNCHANGED <<now, reported, delivered>>
      PROVE  UNCHANGED Promise!notificationVars
  BY <1>2 DEF SentRecords, Promise!notificationVars
<1>3. CASE Environment /\ ~Tick
  BY <1>2, <1>3 DEF Environment, InsertReport, CustomerDisablesRule,
                    CustomerEnablesRule, tables
<1>4. ASSUME NEW t \in Target, Startup(t)
      PROVE  [Promise!Next]_(Promise!notificationVars)
  <2>1. CASE performOldReportsCleanup(t)
    <3>1. Promise!Forget
      BY <2>1, CleanupForgetsTheOldest DEF Promise!Forget, performOldReportsCleanup
    <3> QED
      BY <3>1 DEF Promise!Next
  <2>2. CASE ~performOldReportsCleanup(t)
    BY <1>2, <1>4, <2>2
       DEF Startup, StartRun, performNewReportsCleanup, ReadClusterRuleToggles,
           ReadOrgRuleDisables, ReadClusterList,
           RetrievePreviouslyReportedForEventTarget, tables
  <2> QED
    BY <2>1, <2>2
<1>5. ASSUME NEW t \in Target, processReportsByCluster(t)
      PROVE  [Promise!Next]_(Promise!notificationVars)
  <2>1. CASE ProduceMessageSucceeds(t) \/ ProduceMessageFails(t)
    BY <2>1, SendNotifies DEF Promise!Next
  <2>2. CASE updateNotificationRecordState(t)
    <3>1. CASE SentRecords' # SentRecords
      BY <2>2, <3>1, RecordRemembers DEF Promise!Next
    <3>2. CASE SentRecords' = SentRecords
      BY <2>2, <3>2 DEF updateNotificationRecordState, Promise!notificationVars
    <3> QED
      BY <3>1, <3>2
  <2>3. ASSUME ~(ProduceMessageSucceeds(t) \/ ProduceMessageFails(t)),
               ~updateNotificationRecordState(t)
        PROVE  UNCHANGED <<now, reported, delivered>>
    BY <1>5, <2>3 DEF processReportsByCluster, SkipCluster, ReadReportFails,
                      WriteReadError, PrepareNotification, tables
  <2> QED
    BY <1>2, <2>1, <2>2, <2>3
<1>6. ASSUME NEW t \in Target, FinishRun(t) \/ AbortRun(t)
      PROVE  UNCHANGED <<now, reported, delivered>>
  BY <1>6 DEF FinishRun, AbortRun, tables
<1>7. CASE UNCHANGED vars
  BY <1>2, <1>7 DEF vars
<1> QED
  BY <1>1, <1>2, <1>3, <1>4, <1>5, <1>6, <1>7 DEF Next, Job

LEMMA PromiseInvariant ==
  ASSUME ~BrokenStreams
  PROVE  Spec => []PromiseInv
<1>1. TypeOK /\ PromiseInv /\ [Next]_vars => PromiseInv'
  BY NextPromise
<1> QED
  BY <1>1, InitPromise, TypeCorrect, PTL DEF Spec

\* The jobs implement Notification, for any number of clusters, organizations
\* and issues and both jobs at once: however old the baseline in memory is when
\* it is used, nothing is sent that the last sent record of the cluster
\* silences, and what is recorded as sent was sent.
THEOREM JobsKeepPromise ==
  ASSUME ~BrokenStreams
  PROVE  Spec => KeepsPromise
<1>1. Init => Promise!Init
  BY DEF Init, SentRecords, Promise!Init
<1>2. TypeOK /\ SentInv /\ PromiseInv /\ [Next]_vars
        => [Promise!Next]_(Promise!notificationVars)
  BY StepKeepsPromise
<1> QED
  BY <1>1, <1>2, TypeCorrect, SentInvariant, PromiseInvariant, PTL
     DEF Spec, KeepsPromise, Promise!Spec

About == INSTANCE NotificationProofs WITH sent <- SentRecords

\* An issue is repeated within its cool down only for one of the two reasons
\* RepeatsAreExplained names, whatever the clusters, bounds and interleavings.
THEOREM JobsExplainRepeats ==
  ASSUME ~BrokenStreams
  PROVE  Spec => []RepeatsAreExplained
<1>1. Promise!Init => About!Init
  BY DEF Promise!Init, About!Init
<1>2. [Promise!Next]_(Promise!notificationVars)
        => [About!Next]_(About!notificationVars)
  BY DEF Promise!notificationVars, About!notificationVars,
         Promise!Next, Promise!Tick, Promise!Notify, Promise!Remember,
         Promise!Forget, Promise!Delivery, Promise!SameCluster,
         Promise!Silences, Promise!IsLast, Promise!IsSentRecord,
         Promise!SameNotification,
         About!Next, About!Tick, About!Notify, About!Remember,
         About!Forget, About!Delivery, About!SameCluster,
         About!Silences, About!IsLast, About!IsSentRecord,
         About!SameNotification
<1>3. About!RepeatsAreExplained => RepeatsAreExplained
  BY DEF RepeatsAreExplained,
         Promise!RepeatsAreExplained, Promise!RepeatedWithinCooldown,
         Promise!SameIssue, Promise!Unrecorded, Promise!SameNotification,
         Promise!Superseded, Promise!SameCluster,
         About!RepeatsAreExplained, About!RepeatedWithinCooldown,
         About!SameIssue, About!Unrecorded, About!SameNotification,
         About!Superseded, About!SameCluster
<1>4. About!Spec => []About!RepeatsAreExplained
  BY CooldownAssumption, About!PromiseAboutRepeats
<1> QED
  BY <1>1, <1>2, <1>3, <1>4, JobsKeepPromise, PTL
     DEF KeepsPromise, Promise!Spec, About!Spec
=============================================================================
