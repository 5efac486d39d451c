-------------------------- MODULE Notifications_proofs --------------------------
(***************************************************************************)
(* The distance between alerts, and how often a message is repeated, for   *)
(* any number of notifications, failures and restarts and any stock.       *)
(* What the check of an alert saw is still so when it is inserted, since   *)
(* only the automation loop inserts alerts; and what the loop remembers to *)
(* have announced is the last stock alert of this process, older than      *)
(* which none is within its cooldown when it is not itself.  A message is  *)
(* repeated only when the commit after it did not take place, since the    *)
(* row stays locked until then.                                            *)
(***************************************************************************)
EXTENDS Notifications, FiniteSetTheorems, TLAPS

RowType == [status : {"pending", "delivered", "failed"}, kind : {"notice", "balance", "stock"},
            recent : BOOLEAN, volume : Nat, epoch : Nat]

\* Stock alerts of this process.
Ours(n) == rows[n].kind = "stock" /\ rows[n].epoch = restarts

\* Of two stock alerts the older one leaves its cooldown first.
OlderFirst ==
    \A n, m \in DOMAIN rows :
        n < m /\ rows[n].kind = "stock" /\ rows[m].kind = "stock" /\ rows[n].recent
            => rows[m].recent

\* What is announced is the last stock alert of this process.
AnnouncedIsLast ==
    /\ announced # None => announced \in DOMAIN rows /\ Ours(announced)
    /\ \A n \in DOMAIN rows : rows[n].epoch <= restarts
    /\ \A n \in DOMAIN rows : Ours(n) => announced # None /\ n <= announced

HistoryInv ==
    /\ rows \in Seq(RowType)
    /\ restarts \in Nat
    /\ AnnouncedIsLast
    /\ OlderFirst
    /\ AlertsAreSpaced
    /\ StockAlertsAreSpaced

JobOK(job, known) ==
    /\ "pc" \in DOMAIN job
    /\ job.pc \in {"send", "commit"} => job.row \in known /\ "status" \in DOMAIN job
    /\ job.pc = "commit" => job.status \in {"delivered", "failed"}

NoBalanceRecent == ~ \E n \in DOMAIN rows : rows[n].kind = "balance" /\ rows[n].recent

PassInv ==
    /\ DOMAIN pass = Deliverers
    /\ \A d \in Deliverers : JobOK(pass[d], DOMAIN rows)
    /\ pass["operator"].pc # "alert"
    /\ pass["automation"].pc = "alert" => NoBalanceRecent

AlertInv == HistoryInv /\ PassInv

LEMMA IdleIsOK == (\A known : JobOK(Idle, known)) /\ Idle.pc = "idle"
BY DEF JobOK, Idle

LEMMA InitAlert == Init => AlertInv
<1> SUFFICES ASSUME Init PROVE AlertInv
  OBVIOUS
<1>1. rows = << >> /\ DOMAIN rows = {} /\ rows \in Seq(RowType)
  BY DEF Init
<1>2. HistoryInv
  BY <1>1 DEF Init, HistoryInv, AnnouncedIsLast, OlderFirst, AlertsAreSpaced,
              StockAlertsAreSpaced, None
<1>3. PassInv
  BY <1>1, IdleIsOK DEF Init, PassInv, Deliverers, NoBalanceRecent
<1> QED BY <1>2, <1>3 DEF AlertInv

-----------------------------------------------------------------------------
(***************************************************************************)
(* The ways a step changes rows, and the ways it changes passes            *)
(***************************************************************************)
LEMMA AppendedRow ==
    ASSUME rows \in Seq(RowType), NEW r \in RowType, rows' = Append(rows, r)
    PROVE  /\ rows' \in Seq(RowType)
           /\ Len(rows) \in Nat /\ DOMAIN rows = 1 .. Len(rows)
           /\ DOMAIN rows' = 1 .. Len(rows) + 1
           /\ \A n \in DOMAIN rows : rows'[n] = rows[n]
           /\ rows'[Len(rows) + 1] = r
OBVIOUS

\* Rows keep what alerts go by.
LEMMA AlikeRows ==
    ASSUME HistoryInv, rows' \in Seq(RowType), DOMAIN rows' = DOMAIN rows,
           \A n \in DOMAIN rows :
               /\ rows'[n].kind = rows[n].kind /\ rows'[n].recent = rows[n].recent
               /\ rows'[n].volume = rows[n].volume /\ rows'[n].epoch = rows[n].epoch,
           UNCHANGED <<announced, restarts>>
    PROVE  HistoryInv' /\ NoBalanceRecent' = NoBalanceRecent
<1>1. AnnouncedIsLast'
  BY DEF HistoryInv, AnnouncedIsLast, Ours
<1>2. OlderFirst' /\ AlertsAreSpaced'
  BY DEF HistoryInv, OlderFirst, AlertsAreSpaced
<1>3. StockAlertsAreSpaced'
  BY DEF HistoryInv, StockAlertsAreSpaced, HasGrown
<1>4. NoBalanceRecent' = NoBalanceRecent
  BY DEF NoBalanceRecent
<1> QED BY <1>1, <1>2, <1>3, <1>4 DEF HistoryInv

\* A pass goes on to a job that is in order.
LEMMA NextJob ==
    ASSUME PassInv, NEW d \in Deliverers, NEW job, Goto(d, job), JobOK(job, DOMAIN rows'),
           job.pc # "alert",
           DOMAIN rows \subseteq DOMAIN rows',
           NoBalanceRecent => NoBalanceRecent'
    PROVE  PassInv'
<1>1. pass' = [pass EXCEPT ![d] = job] /\ DOMAIN pass = Deliverers
  BY DEF Goto, PassInv
<1>2. ASSUME NEW e \in Deliverers PROVE JobOK(pass'[e], DOMAIN rows')
  <2>1. e = d => pass'[e] = job
    BY <1>1
  <2>2. e # d => pass'[e] = pass[e] /\ JobOK(pass[e], DOMAIN rows)
    BY <1>1 DEF PassInv
  <2>3. JobOK(pass[e], DOMAIN rows) => JobOK(pass[e], DOMAIN rows') \/ e = d
    BY <2>2 DEF JobOK
  <2> QED BY <2>1, <2>2, <2>3 DEF JobOK
<1>3. pass'["operator"].pc # "alert"
  BY <1>1 DEF PassInv, Deliverers
<1>4. pass'["automation"].pc = "alert" => NoBalanceRecent'
  BY <1>1 DEF PassInv, Deliverers
<1> QED BY <1>1, <1>2, <1>3, <1>4 DEF PassInv

\* No pass moves.
LEMMA SameJobs ==
    ASSUME PassInv, UNCHANGED pass, DOMAIN rows \subseteq DOMAIN rows',
           NoBalanceRecent => NoBalanceRecent'
    PROVE  PassInv'
<1>1. \A e \in Deliverers : JobOK(pass'[e], DOMAIN rows')
  BY DEF PassInv, JobOK
<1> QED BY <1>1 DEF PassInv

-----------------------------------------------------------------------------
LEMMA StepQueue == AlertInv /\ Queue => AlertInv'
<1> SUFFICES ASSUME AlertInv, Queue PROVE AlertInv'
  OBVIOUS
<1> DEFINE r == Row("notice", 0)
           L == Len(rows)
<1>1. /\ rows' = Append(rows, r) /\ UNCHANGED <<pass, announced, restarts>>
      /\ r \in RowType /\ r.kind = "notice" /\ ~r.recent /\ HistoryInv /\ PassInv
      /\ r.epoch = restarts
  BY DEF Queue, Insert, Row, RowType, AlertInv, HistoryInv
<1> HIDE DEF r
<1>2. /\ rows' \in Seq(RowType) /\ L \in Nat /\ DOMAIN rows = 1 .. L
      /\ DOMAIN rows' = 1 .. L + 1 /\ (\A n \in DOMAIN rows : rows'[n] = rows[n])
      /\ rows'[L + 1] = r
  BY <1>1, AppendedRow DEF HistoryInv
<1> HIDE DEF L
<1>3. \A n \in DOMAIN rows' : n \in DOMAIN rows \/ n = L + 1
  BY <1>2
<1>4. AnnouncedIsLast'
  BY <1>1, <1>2, <1>3 DEF HistoryInv, AnnouncedIsLast, Ours
<1>5. OlderFirst'
  BY <1>1, <1>2, <1>3 DEF HistoryInv, OlderFirst
<1>6. AlertsAreSpaced' /\ (NoBalanceRecent => NoBalanceRecent')
  BY <1>1, <1>2, <1>3 DEF HistoryInv, AlertsAreSpaced, NoBalanceRecent
<1>7. StockAlertsAreSpaced'
  BY <1>1, <1>2, <1>3 DEF HistoryInv, StockAlertsAreSpaced, HasGrown
<1>8. HistoryInv'
  BY <1>1, <1>2, <1>4, <1>5, <1>6, <1>7 DEF HistoryInv
<1>9. PassInv'
  BY <1>1, <1>2, <1>6, SameJobs
<1> QED BY <1>8, <1>9 DEF AlertInv

LEMMA StepAlertCheck == AlertInv /\ AlertCheck => AlertInv'
<1> SUFFICES ASSUME AlertInv, AlertCheck PROVE AlertInv'
  OBVIOUS
<1> DEFINE job == [pc |-> "alert"]
<1>1. /\ pass' = [pass EXCEPT !["automation"] = job] /\ NoBalanceRecent
      /\ UNCHANGED <<rows, announced, restarts>> /\ HistoryInv /\ PassInv
      /\ DOMAIN pass = Deliverers
  BY DEF AlertCheck, Goto, AlertInv, NoBalanceRecent, PassInv
<1>2. HistoryInv'
  BY <1>1 DEF HistoryInv, AnnouncedIsLast, OlderFirst, AlertsAreSpaced, StockAlertsAreSpaced,
              Ours, HasGrown
<1>3. NoBalanceRecent'
  BY <1>1 DEF NoBalanceRecent
<1>4. pass'["operator"] = pass["operator"] /\ pass'["automation"] = job
  BY <1>1 DEF Deliverers
<1>5. JobOK(job, DOMAIN rows')
  BY DEF JobOK
<1>6. JobOK(pass["operator"], DOMAIN rows')
  BY <1>1 DEF PassInv, JobOK, Deliverers
<1>7. \A e \in Deliverers : JobOK(pass'[e], DOMAIN rows')
  BY <1>4, <1>5, <1>6 DEF Deliverers, JobOK
<1>8. PassInv'
  BY <1>1, <1>3, <1>4, <1>7 DEF PassInv, Deliverers
<1> QED BY <1>2, <1>8 DEF AlertInv

LEMMA StepAlertCommit == AlertInv /\ AlertCommit => AlertInv'
<1> SUFFICES ASSUME AlertInv, AlertCommit PROVE AlertInv'
  OBVIOUS
<1> DEFINE r == Row("balance", 0)
           L == Len(rows)
<1>1. /\ rows' = Append(rows, r) /\ UNCHANGED <<announced, restarts>>
      /\ Goto("automation", Idle) /\ NoBalanceRecent
      /\ r \in RowType /\ r.kind = "balance" /\ r.recent /\ HistoryInv /\ PassInv
      /\ r.epoch = restarts
  BY DEF AlertCommit, Insert, Row, RowType, AlertInv, HistoryInv, PassInv
<1> HIDE DEF r
<1>2. /\ rows' \in Seq(RowType) /\ L \in Nat /\ DOMAIN rows = 1 .. L
      /\ DOMAIN rows' = 1 .. L + 1 /\ (\A n \in DOMAIN rows : rows'[n] = rows[n])
      /\ rows'[L + 1] = r
  BY <1>1, AppendedRow DEF HistoryInv
<1> HIDE DEF L
<1>3. \A n \in DOMAIN rows' : n \in DOMAIN rows \/ n = L + 1
  BY <1>2
<1>4. AnnouncedIsLast'
  BY <1>1, <1>2, <1>3 DEF HistoryInv, AnnouncedIsLast, Ours
<1>5. OlderFirst'
  BY <1>1, <1>2, <1>3 DEF HistoryInv, OlderFirst
<1>6. AlertsAreSpaced'
  BY <1>1, <1>2, <1>3 DEF HistoryInv, AlertsAreSpaced, NoBalanceRecent
<1>7. StockAlertsAreSpaced'
  BY <1>1, <1>2, <1>3 DEF HistoryInv, StockAlertsAreSpaced, HasGrown
<1>8. HistoryInv'
  BY <1>1, <1>2, <1>4, <1>5, <1>6, <1>7 DEF HistoryInv
<1>9. pass' = [pass EXCEPT !["automation"] = Idle] /\ DOMAIN pass = Deliverers
  BY <1>1 DEF Goto, PassInv
<1>10. pass'["operator"] = pass["operator"] /\ pass'["automation"] = Idle
  BY <1>9 DEF Deliverers
<1>11. JobOK(pass["operator"], DOMAIN rows')
  BY <1>1, <1>2 DEF PassInv, JobOK, Deliverers
<1>12. \A e \in Deliverers : JobOK(pass'[e], DOMAIN rows')
  BY <1>10, <1>11, IdleIsOK DEF Deliverers, JobOK
<1>13. PassInv'
  BY <1>1, <1>9, <1>10, <1>12, IdleIsOK DEF PassInv, Deliverers
<1> QED BY <1>8, <1>13 DEF AlertInv

LEMMA StepStockAlert ==
    ASSUME MaxVolume \in Nat, AlertInv, NEW volume \in 1 .. MaxVolume, StockAlert(volume)
    PROVE  AlertInv'
<1> DEFINE r == Row("stock", volume)
           L == Len(rows)
<1>1. /\ rows' = Append(rows, r) /\ UNCHANGED <<pass, restarts>>
      /\ announced' = Len(rows) + 1 /\ WorthAnnouncing(volume) /\ volume \in Nat
      /\ r \in RowType /\ r.kind = "stock" /\ r.recent /\ HistoryInv /\ PassInv
      /\ r.epoch = restarts /\ r.volume = volume
  <2>1. HistoryInv /\ PassInv /\ restarts \in Nat /\ volume \in Nat
    BY DEF AlertInv, HistoryInv
  <2>2. /\ r \in RowType /\ r.kind = "stock" /\ r.recent
        /\ r.epoch = restarts /\ r.volume = volume
    BY <2>1 DEF Row, RowType
  <2> QED BY <2>1, <2>2 DEF StockAlert, Insert
<1> HIDE DEF r
<1>2. /\ rows' \in Seq(RowType) /\ L \in Nat /\ DOMAIN rows = 1 .. L
      /\ DOMAIN rows' = 1 .. L + 1 /\ (\A n \in DOMAIN rows : rows'[n] = rows[n])
      /\ rows'[L + 1] = r /\ announced' = L + 1
  BY <1>1, AppendedRow DEF HistoryInv
<1> HIDE DEF L
<1>3. \A n \in DOMAIN rows' : n \in DOMAIN rows \/ n = L + 1
  BY <1>2
<1>4. AnnouncedIsLast'
  BY <1>1, <1>2, <1>3 DEF HistoryInv, AnnouncedIsLast, Ours, None
<1>5. OlderFirst'
  BY <1>1, <1>2, <1>3 DEF HistoryInv, OlderFirst
<1>6. AlertsAreSpaced' /\ (NoBalanceRecent => NoBalanceRecent')
  BY <1>1, <1>2, <1>3 DEF HistoryInv, AlertsAreSpaced, NoBalanceRecent
<1>7. ASSUME NEW n \in DOMAIN rows, Ours(n), rows[n].recent
      PROVE  HasGrown(rows[n].volume, volume)
  <2>0. announced # None /\ announced \in DOMAIN rows /\ Ours(announced) /\ n <= announced
    BY <1>1, <1>7 DEF HistoryInv, AnnouncedIsLast
  <2>00. rows[n] \in RowType /\ rows[announced] \in RowType
    BY <1>1, <2>0 DEF HistoryInv
  <2>1. /\ announced # None /\ announced \in DOMAIN rows /\ Ours(announced) /\ n <= announced
        /\ rows[n].volume \in Nat /\ rows[announced].volume \in Nat
    BY <2>0, <2>00 DEF RowType
  <2>2. rows[announced].recent
    BY <1>1, <1>2, <1>7, <2>1 DEF HistoryInv, OlderFirst, Ours
  <2>3. HasGrown(rows[announced].volume, volume)
    BY <1>1, <2>1, <2>2 DEF WorthAnnouncing
  <2>4. CASE n = announced
    BY <2>3, <2>4
  <2>5. CASE n # announced
    <3>1. n < announced
      BY <1>2, <2>1, <2>5
    <3>2. HasGrown(rows[n].volume, rows[announced].volume)
      BY <1>1, <1>7, <2>1, <2>2, <3>1 DEF HistoryInv, StockAlertsAreSpaced, Ours
    <3> QED BY <1>1, <2>1, <2>3, <3>2 DEF HasGrown
  <2> QED BY <2>4, <2>5
<1>8. StockAlertsAreSpaced'
  <2> SUFFICES ASSUME NEW n \in DOMAIN rows', NEW m \in DOMAIN rows',
                      n < m, rows'[n].epoch = rows'[m].epoch,
                      rows'[n].kind = "stock", rows'[n].recent,
                      rows'[m].kind = "stock", rows'[m].recent
               PROVE  HasGrown(rows'[n].volume, rows'[m].volume)
    BY DEF StockAlertsAreSpaced, HasGrown
  <2>1. n \in DOMAIN rows /\ rows'[n] = rows[n]
    BY <1>2, <1>3
  <2>2. CASE m \in DOMAIN rows
    BY <1>1, <1>2, <2>1, <2>2 DEF HistoryInv, StockAlertsAreSpaced
  <2>3. CASE m = L + 1
    BY <1>1, <1>2, <1>7, <2>1, <2>3 DEF Ours
  <2> QED BY <1>3, <2>2, <2>3
<1>9. HistoryInv'
  BY <1>1, <1>2, <1>4, <1>5, <1>6, <1>8 DEF HistoryInv
<1>10. PassInv'
  BY <1>1, <1>2, <1>6, SameJobs
<1> QED BY <1>9, <1>10 DEF AlertInv

LEMMA StepAge == ASSUME AlertInv, NEW n \in DOMAIN rows, Age(n) PROVE AlertInv'
<1>1. /\ HistoryInv /\ PassInv /\ rows \in Seq(RowType)
      /\ rows' = [rows EXCEPT ![n].recent = FALSE]
      /\ UNCHANGED <<pass, announced, restarts>>
      /\ \A m \in 1 .. n - 1 : rows[m].kind = rows[n].kind => ~rows[m].recent
  BY DEF Age, AlertInv, HistoryInv
<1>2. rows[n] \in RowType
  BY <1>1
<1>3. [rows[n] EXCEPT !.recent = FALSE] \in RowType
  BY <1>2 DEF RowType
<1>4. rows' \in Seq(RowType) /\ DOMAIN rows' = DOMAIN rows
  BY <1>1, <1>3
<1>5. \A k \in DOMAIN rows :
        /\ rows'[k].kind = rows[k].kind /\ rows'[k].volume = rows[k].volume
        /\ rows'[k].epoch = rows[k].epoch
        /\ k # n => rows'[k].recent = rows[k].recent
        /\ rows'[k].recent => rows[k].recent
        /\ ~rows'[n].recent
  BY <1>1, <1>2 DEF RowType
<1>6. \A m \in DOMAIN rows : m < n /\ rows[m].kind = rows[n].kind => ~rows[m].recent
  BY <1>1
<1>7. AnnouncedIsLast'
  BY <1>1, <1>4, <1>5 DEF HistoryInv, AnnouncedIsLast, Ours
<1>8. OlderFirst'
  BY <1>1, <1>4, <1>5, <1>6 DEF HistoryInv, OlderFirst
<1>9. AlertsAreSpaced' /\ (NoBalanceRecent => NoBalanceRecent')
  BY <1>1, <1>4, <1>5 DEF HistoryInv, AlertsAreSpaced, NoBalanceRecent
<1>10. StockAlertsAreSpaced'
  BY <1>1, <1>4, <1>5 DEF HistoryInv, StockAlertsAreSpaced, HasGrown
<1>11. HistoryInv'
  BY <1>1, <1>4, <1>7, <1>8, <1>9, <1>10 DEF HistoryInv
<1>12. PassInv'
  BY <1>1, <1>4, <1>9, SameJobs
<1> QED BY <1>11, <1>12 DEF AlertInv

\* Every step of a delivery but the last leaves the rows alone.
LEMMA StepDeliver == ASSUME AlertInv, NEW d \in Deliverers, Deliver(d) PROVE AlertInv'
<1>0. HistoryInv /\ PassInv /\ JobOK(pass[d], DOMAIN rows) /\ rows \in Seq(RowType)
  BY DEF AlertInv, HistoryInv, PassInv
<1>1. ASSUME UNCHANGED <<rows, announced, restarts>>
      PROVE  /\ HistoryInv' /\ DOMAIN rows \subseteq DOMAIN rows'
             /\ NoBalanceRecent => NoBalanceRecent'
  BY <1>0, <1>1, AlikeRows
<1>2. CASE DeliverBegin(d)
  <2> DEFINE job == [pc |-> "deliver", batch |-> Newest(Pending)]
  <2>1. Goto(d, job) /\ UNCHANGED <<rows, announced, restarts>> /\ job.pc = "deliver"
    BY <1>2 DEF DeliverBegin
  <2>2. JobOK(job, DOMAIN rows')
    BY DEF JobOK
  <2> HIDE DEF job
  <2> QED BY <1>0, <1>1, <2>1, <2>2, NextJob DEF AlertInv
<1>3. CASE DeliverNext(d)
  <2> DEFINE n == Max(pass[d].batch)
             rest == pass[d].batch \ {n}
             sending == [pc |-> "send", batch |-> rest, row |-> n, status |-> "pending"]
             passing == [pc |-> "deliver", batch |-> rest]
             job == IF n \in Pending THEN sending ELSE passing
  <2>1. Goto(d, job) /\ UNCHANGED <<rows, announced, restarts>>
    BY <1>3 DEF DeliverNext
  <2>2. job.pc # "alert"
    OBVIOUS
  <2>3. n \in Pending => n \in DOMAIN rows'
    BY <2>1 DEF Pending
  <2>4. n \in Pending => JobOK(sending, DOMAIN rows')
    BY <2>3 DEF JobOK
  <2>5. JobOK(passing, DOMAIN rows')
    BY DEF JobOK
  <2>6. JobOK(job, DOMAIN rows')
    BY <2>1, <2>4, <2>5 DEF JobOK
  <2> HIDE DEF job
  <2> QED BY <1>0, <1>1, <2>1, <2>2, <2>6, NextJob DEF AlertInv
<1>4. CASE DeliverEnd(d)
  <2>1. Goto(d, Idle) /\ UNCHANGED <<rows, announced, restarts>>
    BY <1>4 DEF DeliverEnd
  <2> QED BY <1>0, <1>1, <2>1, IdleIsOK, NextJob DEF AlertInv
<1>5. ASSUME NEW result \in {"delivered", "failed"}, pass[d].pc = "send",
             Goto(d, [pass[d] EXCEPT !.pc = "commit", !.status = result]),
             UNCHANGED <<rows, announced, restarts>>
      PROVE  AlertInv'
  <2> DEFINE job == [pass[d] EXCEPT !.pc = "commit", !.status = result]
  <2>1. job.pc = "commit" /\ job.status = result /\ job.row = pass[d].row
        /\ DOMAIN job = DOMAIN pass[d]
    BY <1>0, <1>5 DEF JobOK
  <2>2. job.row \in DOMAIN rows' /\ {"pc", "status"} \subseteq DOMAIN job
    BY <1>0, <1>5, <2>1 DEF JobOK
  <2> HIDE DEF job
  <2>3. JobOK(job, DOMAIN rows')
    BY <2>1, <2>2 DEF JobOK
  <2>4. Goto(d, job)
    BY <1>5 DEF job
  <2> QED BY <1>0, <1>1, <1>5, <2>1, <2>3, <2>4, NextJob DEF AlertInv
<1>6. CASE SendSucceeds(d)
  BY <1>5, <1>6 DEF SendSucceeds
<1>7. CASE SendFails(d)
  BY <1>5, <1>7 DEF SendFails
<1>8. CASE DeliverCommit(d)
  <2> DEFINE job == [pc |-> "deliver", batch |-> pass[d].batch]
             k == pass[d].row
  <2>1. /\ rows' = [rows EXCEPT ![k].status = pass[d].status]
        /\ Goto(d, job) /\ UNCHANGED <<announced, restarts>> /\ job.pc = "deliver"
        /\ k \in DOMAIN rows /\ pass[d].status \in {"delivered", "failed"}
    BY <1>0, <1>8 DEF DeliverCommit, JobOK
  <2>2. rows[k] \in RowType
    BY <1>0, <2>1
  <2>3. [rows[k] EXCEPT !.status = pass[d].status] \in RowType
    BY <2>1, <2>2 DEF RowType
  <2>4. rows' \in Seq(RowType) /\ DOMAIN rows' = DOMAIN rows
    BY <1>0, <2>1, <2>3
  <2>5. \A n \in DOMAIN rows :
          /\ rows'[n].kind = rows[n].kind /\ rows'[n].recent = rows[n].recent
          /\ rows'[n].volume = rows[n].volume /\ rows'[n].epoch = rows[n].epoch
    BY <2>1, <2>2 DEF RowType
  <2>6. HistoryInv' /\ NoBalanceRecent' = NoBalanceRecent
    BY <1>0, <2>1, <2>4, <2>5, AlikeRows
  <2>7. JobOK(job, DOMAIN rows')
    BY DEF JobOK
  <2> HIDE DEF job
  <2> QED BY <1>0, <2>1, <2>4, <2>6, <2>7, NextJob DEF AlertInv
<1> QED BY <1>2, <1>3, <1>4, <1>6, <1>7, <1>8 DEF Deliver

LEMMA StepCommitFails == ASSUME AlertInv, NEW d \in Deliverers, CommitFails(d) PROVE AlertInv'
<1>1. /\ Goto(d, Idle) /\ UNCHANGED <<rows, announced, restarts>> /\ HistoryInv /\ PassInv
      /\ rows \in Seq(RowType)
  BY DEF CommitFails, AlertInv, HistoryInv
<1>2. HistoryInv' /\ NoBalanceRecent' = NoBalanceRecent /\ DOMAIN rows' = DOMAIN rows
  BY <1>1, AlikeRows
<1> QED BY <1>1, <1>2, IdleIsOK, NextJob DEF AlertInv

LEMMA StepRestart == AlertInv /\ Restart => AlertInv'
<1> SUFFICES ASSUME AlertInv, Restart PROVE AlertInv'
  OBVIOUS
<1>1. /\ HistoryInv /\ rows' = rows /\ restarts' = restarts + 1 /\ restarts \in Nat
      /\ announced' = None /\ pass' = [d \in Deliverers |-> Idle]
      /\ rows \in Seq(RowType)
  BY DEF AlertInv, HistoryInv, Restart
<1>2. \A n \in DOMAIN rows : rows[n].epoch \in Nat /\ rows[n].epoch <= restarts
  <2>1. \A n \in DOMAIN rows : rows[n] \in RowType
    BY <1>1
  <2>2. \A n \in DOMAIN rows : rows[n].epoch \in Nat
    BY <2>1 DEF RowType
  <2> QED BY <1>1, <2>2 DEF HistoryInv, AnnouncedIsLast
<1>3. \A n \in DOMAIN rows : rows[n].epoch <= restarts + 1 /\ rows[n].epoch # restarts + 1
  BY <1>1, <1>2
<1>4. AnnouncedIsLast'
  BY <1>1, <1>3 DEF AnnouncedIsLast, Ours
<1>5. OlderFirst' /\ AlertsAreSpaced' /\ StockAlertsAreSpaced'
  BY <1>1 DEF HistoryInv, OlderFirst, AlertsAreSpaced, StockAlertsAreSpaced, HasGrown
<1>6. HistoryInv'
  BY <1>1, <1>4, <1>5 DEF HistoryInv
<1>7. \A d \in Deliverers : JobOK(pass'[d], DOMAIN rows')
  BY <1>1, IdleIsOK DEF JobOK
<1>8. PassInv'
  BY <1>1, <1>7, IdleIsOK DEF PassInv, Deliverers
<1> QED BY <1>6, <1>8 DEF AlertInv

\* Alerts keep their distance in every reachable state: what the loop remembers and what it
\* looked up are still true when it inserts (notifications.py, automation_loop.py).
THEOREM AlertsInvariant == Spec => []AlertInv
<1>1. MaxVolume \in Nat
  BY BoundsAssumption
<1>2. AlertInv /\ [Next]_vars => AlertInv'
  <2> SUFFICES ASSUME AlertInv, [Next]_vars PROVE AlertInv'
    OBVIOUS
  <2>1. CASE UNCHANGED vars
    <3>1. UNCHANGED <<rows, pass, announced, restarts>> /\ HistoryInv /\ PassInv
          /\ rows \in Seq(RowType)
      BY <2>1 DEF vars, AlertInv, HistoryInv
    <3>2. HistoryInv' /\ NoBalanceRecent' = NoBalanceRecent /\ DOMAIN rows' = DOMAIN rows
      BY <3>1, AlikeRows
    <3> QED BY <3>1, <3>2, SameJobs DEF AlertInv
  <2>2. CASE Next
    BY <1>1, <2>2, StepQueue, StepAlertCheck, StepAlertCommit, StepRestart, StepStockAlert,
       StepAge, StepDeliver, StepCommitFails DEF Next
  <2> QED BY <2>1, <2>2
<1> QED BY <1>2, InitAlert, PTL DEF Spec

\* However the loop is interrupted, no balance alert is inserted within the cooldown of
\* another (queue_once).
THEOREM BalanceAlertsKeepDistance == Spec => []AlertsAreSpaced
<1>1. AlertInv => AlertsAreSpaced
  BY DEF AlertInv, HistoryInv
<1> QED BY <1>1, AlertsInvariant, PTL

\* A stock alert follows another within its cooldown only if the stock grew by the factor,
\* compared with every such alert and not only the last (_queue_stock_notifications).
THEOREM StockAlertsKeepDistance == Spec => []StockAlertsAreSpaced
<1>1. AlertInv => StockAlertsAreSpaced
  BY DEF AlertInv, HistoryInv
<1> QED BY <1>1, AlertsInvariant, PTL

-----------------------------------------------------------------------------
(***************************************************************************)
(* Repeats.  A message that was sent is owed until a commit settles it:    *)
(* Unsettled holds, for each notification, a pair for each message the     *)
(* operator received of it, but for the one that the pass at work, or a    *)
(* committed one, accounts for.  Sending leaves it as it is, a commit that *)
(* fails adds at most a pair, a restart one for each pass.                 *)
(***************************************************************************)
Sending(d) == pass[d].pc \in {"send", "commit"}

\* A row that a pass has locked is pending, and no other pass has it.
RowsAreLocked ==
    /\ \A d \in Deliverers : Sending(d) => pass[d].row \in Pending
    /\ \A d, e \in Deliverers : Sending(d) /\ Sending(e) /\ pass[d].row = pass[e].row => d = e

Settled(n) ==
    n \notin Pending \/ \E d \in Deliverers : pass[d].pc = "commit" /\ pass[d].row = n

\* How many messages of a notification are not accounted for.
Owed == [n \in DOMAIN rows |-> received[n] - (IF Settled(n) THEN 1 ELSE 0)]

Pairs(count) == UNION {{n} \X (1 .. count[n]) : n \in DOMAIN count}

RepeatInv ==
    /\ received \in Seq(Nat) /\ Len(received) = Len(rows)
    /\ failures \in Nat
    /\ RowsAreLocked
    /\ Cardinality(Pairs(Owed)) <= failures + 2 * restarts

LEMMA PairIn ==
    ASSUME NEW count, NEW u
    PROVE  u \in Pairs(count) <=> \E n \in DOMAIN count : \E i \in 1 .. count[n] : u = <<n, i>>
BY DEF Pairs

LEMMA PairsFinite ==
    ASSUME NEW S, IsFiniteSet(S), NEW count \in [S -> Int]
    PROVE  IsFiniteSet(Pairs(count)) /\ Cardinality(Pairs(count)) \in Nat
<1> DEFINE T == {{n} \X (1 .. count[n]) : n \in S}
           f == [n \in S |-> {n} \X (1 .. count[n])]
<1>1. f \in Surjection(S, T)
  BY DEF Surjection
<1>2. IsFiniteSet(T)
  <2> HIDE DEF f, T
  <2> QED BY <1>1, FS_Surjection
<1>3. \A U \in T : IsFiniteSet(U)
  <2> SUFFICES ASSUME NEW n \in S PROVE IsFiniteSet({n} \X (1 .. count[n]))
    OBVIOUS
  <2>1. IsFiniteSet({n})
    BY FS_Singleton
  <2>2. count[n] \in Int
    OBVIOUS
  <2>3. IsFiniteSet(1 .. count[n])
    BY <2>2, FS_Interval
  <2> QED BY <2>1, <2>3, FS_Product
<1>4. IsFiniteSet(UNION T)
  <2> HIDE DEF f, T
  <2> QED BY <1>2, <1>3, FS_UNION
<1>5. Pairs(count) = UNION T
  BY DEF Pairs
<1> QED BY <1>4, <1>5, FS_CardinalityType

\* One more pair at most.
LEMMA OnePairMore ==
    ASSUME NEW A, NEW B, NEW u, IsFiniteSet(A), B \subseteq A \cup {u}
    PROVE  /\ IsFiniteSet(B)
           /\ Cardinality(B) \in Nat /\ Cardinality(A) \in Nat
           /\ Cardinality(B) <= Cardinality(A) + 1
<1>1. /\ IsFiniteSet(A \cup {u}) /\ Cardinality(A) \in Nat
      /\ Cardinality(A \cup {u}) \in {Cardinality(A), Cardinality(A) + 1}
  <2>1. IsFiniteSet(A \cup {u})
        /\ Cardinality(A \cup {u}) = IF u \in A THEN Cardinality(A) ELSE Cardinality(A) + 1
    BY FS_AddElement
  <2> QED BY <2>1, FS_CardinalityType
<1>2. IsFiniteSet(B) /\ Cardinality(B) <= Cardinality(A \cup {u})
  BY <1>1, FS_Subset
<1>3. Cardinality(B) \in Nat
  BY <1>2, FS_CardinalityType
<1> QED BY <1>1, <1>2, <1>3

LEMMA OwedIsFinite ==
    ASSUME rows \in Seq(RowType), received \in Seq(Nat), Len(received) = Len(rows)
    PROVE  /\ Owed \in [DOMAIN rows -> Int]
           /\ IsFiniteSet(Pairs(Owed)) /\ Cardinality(Pairs(Owed)) \in Nat
<1>1. DOMAIN rows = 1 .. Len(rows) /\ Len(rows) \in Nat /\ DOMAIN received = DOMAIN rows
  OBVIOUS
<1>2. IsFiniteSet(DOMAIN rows)
  BY <1>1, FS_Interval
<1>3. \A n \in DOMAIN rows : received[n] \in Nat
  BY <1>1
<1>4. Owed \in [DOMAIN rows -> Int]
  BY <1>3 DEF Owed
<1> QED BY <1>2, <1>4, PairsFinite

LEMMA InitRepeat == Init => RepeatInv
<1> SUFFICES ASSUME Init PROVE RepeatInv
  OBVIOUS
<1>1. rows = << >> /\ received = << >> /\ failures = 0 /\ restarts = 0 /\ DOMAIN rows = {}
  BY DEF Init
<1>2. RowsAreLocked
  BY DEF Init, RowsAreLocked, Sending, Idle
<1>3. Pairs(Owed) = {}
  BY <1>1 DEF Pairs, Owed
<1>4. Cardinality(Pairs(Owed)) = 0
  BY <1>3, FS_EmptySet
<1> QED BY <1>1, <1>2, <1>4 DEF RepeatInv

-----------------------------------------------------------------------------
(***************************************************************************)
(* The ways a step changes what is owed                                    *)
(***************************************************************************)
\* What is owed is the same, or less.
LEMMA OwesNoMore ==
    ASSUME HistoryInv, RepeatInv,
           \A n \in DOMAIN Owed' : \A i \in 1 .. Owed'[n] :
               n \in DOMAIN rows /\ i \in 1 .. Owed[n],
           failures' \in Nat, failures' >= failures, restarts' = restarts
    PROVE  Cardinality(Pairs(Owed')) <= failures' + 2 * restarts'
<1> PICK count : count = Owed'
  OBVIOUS
<1>1. IsFiniteSet(Pairs(Owed)) /\ Cardinality(Pairs(Owed)) \in Nat /\ DOMAIN Owed = DOMAIN rows
  BY OwedIsFinite DEF HistoryInv, RepeatInv, Owed
<1>2. Pairs(count) \subseteq Pairs(Owed)
  <2> SUFFICES ASSUME NEW u \in Pairs(count) PROVE u \in Pairs(Owed)
    OBVIOUS
  <2>1. PICK n \in DOMAIN count : \E i \in 1 .. count[n] : u = <<n, i>>
    BY PairIn
  <2> QED BY <1>1, <2>1, PairIn
<1>3. Cardinality(Pairs(count)) <= Cardinality(Pairs(Owed)) /\ Cardinality(Pairs(count)) \in Nat
  BY <1>1, <1>2, FS_Subset, FS_CardinalityType
<1>4. Cardinality(Pairs(count)) <= failures' + 2 * restarts'
  BY <1>1, <1>3 DEF HistoryInv, RepeatInv
<1> QED BY <1>4

\* No row is locked or sent, and no status changes: rows are inserted or get older, passes
\* begin, go past a row, or end.
LEMMA NothingSent ==
    ASSUME HistoryInv, RepeatInv,
           rows' \in Seq(RowType), received' \in Seq(Nat), Len(received') = Len(rows'),
           DOMAIN rows \subseteq DOMAIN rows',
           \A n \in DOMAIN rows : rows'[n].status = rows[n].status /\ received'[n] = received[n],
           \A n \in DOMAIN rows' \ DOMAIN rows : received'[n] = 0,
           \A d \in Deliverers :
               pass'[d].pc \in {"send", "commit"} \/ pass[d].pc = "commit" => pass'[d] = pass[d],
           failures' \in Nat, failures' >= failures, restarts' = restarts
    PROVE  RepeatInv'
<1>1. RowsAreLocked'
  <2>1. \A d \in Deliverers : Sending(d)' => Sending(d) /\ pass'[d] = pass[d]
    BY DEF Sending
  <2>2. \A n \in Pending : n \in Pending'
    BY DEF Pending
  <2> QED BY <2>1, <2>2 DEF RepeatInv, RowsAreLocked
<1>2. ASSUME NEW n \in DOMAIN rows PROVE Settled(n)' = Settled(n)
  <2>1. (n \in Pending)' = (n \in Pending)
    BY DEF Pending
  <2>2. \A d \in Deliverers :
          (pass'[d].pc = "commit" /\ pass'[d].row = n) <=> (pass[d].pc = "commit" /\ pass[d].row = n)
    OBVIOUS
  <2> QED BY <2>1, <2>2 DEF Settled
<1>3. DOMAIN Owed' = DOMAIN rows'
  BY DEF Owed
<1>4. ASSUME NEW n \in DOMAIN rows', NEW i \in 1 .. Owed'[n]
      PROVE  n \in DOMAIN rows /\ i \in 1 .. Owed[n]
  <2>1. CASE n \in DOMAIN rows
    BY <1>2, <1>4, <2>1 DEF Owed
  <2>2. CASE n \notin DOMAIN rows
    <3>1. received'[n] = 0
      BY <2>2
    <3>2. Owed'[n] \in {0, 0 - 1}
      BY <3>1 DEF Owed
    <3> QED BY <1>4, <3>2
  <2> QED BY <2>1, <2>2
<1>5. Cardinality(Pairs(Owed')) <= failures' + 2 * restarts'
  BY <1>3, <1>4, OwesNoMore
<1> QED BY <1>1, <1>5 DEF RepeatInv


LEMMA RepeatInsert ==
    ASSUME HistoryInv, HistoryInv', RepeatInv, NEW r, Insert(r),
           \A d \in Deliverers :
               pass'[d].pc \in {"send", "commit"} \/ pass[d].pc = "commit" => pass'[d] = pass[d],
           UNCHANGED <<failures, restarts>>
    PROVE  RepeatInv'
<1> DEFINE L == Len(rows)
<1>1. /\ rows \in Seq(RowType) /\ rows' \in Seq(RowType) /\ rows' = Append(rows, r)
      /\ received \in Seq(Nat) /\ Len(received) = L /\ received' = Append(received, 0)
      /\ L \in Nat /\ failures' \in Nat /\ failures' >= failures /\ restarts' = restarts
  BY DEF HistoryInv, RepeatInv, Insert
<1>2. /\ DOMAIN rows = 1 .. L /\ DOMAIN rows' = 1 .. L + 1
      /\ \A n \in 1 .. L : rows'[n] = rows[n]
  BY <1>1
<1>3. /\ received' \in Seq(Nat) /\ Len(received') = L + 1 /\ received'[L + 1] = 0
      /\ \A n \in 1 .. L : received'[n] = received[n]
  BY <1>1
<1>4. Len(rows') = L + 1
  BY <1>1
<1>5. \A n \in DOMAIN rows' \ DOMAIN rows : received'[n] = 0
  BY <1>1, <1>2, <1>3
<1> QED BY <1>1, <1>2, <1>3, <1>4, <1>5, NothingSent

\* The same when no row is inserted either.
LEMMA RepeatQuiet ==
    ASSUME HistoryInv, HistoryInv', RepeatInv,
           DOMAIN rows' = DOMAIN rows,
           \A n \in DOMAIN rows : rows'[n].status = rows[n].status,
           \A d \in Deliverers :
               pass'[d].pc \in {"send", "commit"} \/ pass[d].pc = "commit" => pass'[d] = pass[d],
           UNCHANGED <<received, restarts>>, failures' \in Nat, failures' >= failures
    PROVE  RepeatInv'
<1>1. /\ rows \in Seq(RowType) /\ rows' \in Seq(RowType)
      /\ received \in Seq(Nat) /\ Len(received) = Len(rows)
  BY DEF HistoryInv, RepeatInv
<1>2. Len(rows') = Len(rows)
  <2>1. /\ Len(rows) \in Nat /\ DOMAIN rows = 1 .. Len(rows)
        /\ Len(rows') \in Nat /\ DOMAIN rows' = 1 .. Len(rows')
    BY <1>1
  <2> QED BY <2>1
<1> QED BY <1>1, <1>2, NothingSent

\* A pass goes on without locking a row, having not sent what it would leave.
LEMMA PassMoves ==
    ASSUME PassInv, NEW d \in Deliverers, NEW job, Goto(d, job),
           job.pc \notin {"send", "commit"}, pass[d].pc # "commit"
    PROVE  \A e \in Deliverers :
               pass'[e].pc \in {"send", "commit"} \/ pass[e].pc = "commit" => pass'[e] = pass[e]
BY DEF PassInv, Goto

LEMMA RepeatLocks ==
    ASSUME AlertInv, AlertInv', RepeatInv, NEW d \in Deliverers, DeliverNext(d) PROVE RepeatInv'
<1> DEFINE n == Max(pass[d].batch)
           rest == pass[d].batch \ {n}
           sending == [pc |-> "send", batch |-> rest, row |-> n, status |-> "pending"]
           passing == [pc |-> "deliver", batch |-> rest]
<1>1. /\ HistoryInv /\ PassInv /\ HistoryInv' /\ pass[d].pc = "deliver" /\ ~Locked(n)
      /\ Goto(d, IF n \in Pending THEN sending ELSE passing)
      /\ UNCHANGED <<rows, received, failures, restarts>>
      /\ failures' \in Nat /\ failures' >= failures
  BY DEF DeliverNext, AlertInv, RepeatInv
<1>2. CASE n \notin Pending
  <2>1. Goto(d, passing)
    BY <1>1, <1>2
  <2>2. passing.pc \notin {"send", "commit"}
    OBVIOUS
  <2> HIDE DEF passing
  <2>3. \A e \in Deliverers :
            pass'[e].pc \in {"send", "commit"} \/ pass[e].pc = "commit" => pass'[e] = pass[e]
    BY <1>1, <2>1, <2>2, PassMoves
  <2> QED BY <1>1, <2>3, RepeatQuiet
<1>3. CASE n \in Pending
  <2>1. /\ pass'[d] = sending /\ sending.pc = "send" /\ sending.row = n
        /\ \A e \in Deliverers \ {d} : pass'[e] = pass[e]
    BY <1>1, <1>3 DEF PassInv, Goto
  <2> HIDE DEF n, sending
  <2>2. Pending' = Pending
    BY <1>1 DEF Pending
  <2>3. \A e \in Deliverers \ {d} : Sending(e) => pass[e].row # n
    BY <1>1 DEF Locked, Sending
  <2>4. \A e \in Deliverers \ {d} : Sending(e)' = Sending(e)
    BY <2>1 DEF Sending
  <2>5. RowsAreLocked'
    BY <1>3, <2>1, <2>2, <2>3, <2>4 DEF RepeatInv, RowsAreLocked
  <2>6. ASSUME NEW m \in DOMAIN rows PROVE Settled(m)' = Settled(m)
    <3>1. \A e \in Deliverers :
              (pass'[e].pc = "commit" /\ pass'[e].row = m) <=> (pass[e].pc = "commit" /\ pass[e].row = m)
      BY <1>1, <2>1
    <3> QED BY <2>2, <3>1 DEF Settled
  <2>7. Owed' = Owed
    BY <1>1, <2>6 DEF Owed
  <2>8. Cardinality(Pairs(Owed')) <= failures' + 2 * restarts'
    BY <1>1, <2>7 DEF RepeatInv
  <2> QED BY <1>1, <2>5, <2>8 DEF RepeatInv
<1> QED BY <1>2, <1>3

\* Sending a message, whether it arrives or not, leaves what is owed as it is or less: the
\* row is pending and the pass's own.
LEMMA RepeatSends ==
    ASSUME AlertInv, AlertInv', RepeatInv, NEW d \in Deliverers, NEW result,
           pass[d].pc = "send",
           Goto(d, [pass[d] EXCEPT !.pc = "commit", !.status = result]),
           received' = received \/ received' = [received EXCEPT ![pass[d].row] = @ + 1],
           UNCHANGED <<rows, failures, restarts>>
    PROVE  RepeatInv'
<1> DEFINE job == [pass[d] EXCEPT !.pc = "commit", !.status = result]
<1>0. PICK n : n = pass[d].row
  OBVIOUS
<1>1. /\ HistoryInv /\ PassInv /\ rows \in Seq(RowType)
      /\ received \in Seq(Nat) /\ Len(received) = Len(rows)
      /\ failures' \in Nat /\ failures' >= failures /\ restarts' = restarts
  BY DEF AlertInv, HistoryInv, RepeatInv
<1>2. job.pc = "commit" /\ job.row = n
  BY <1>0, <1>1 DEF PassInv, JobOK
<1>3. pass'[d] = job /\ \A e \in Deliverers \ {d} : pass'[e] = pass[e]
  BY <1>1 DEF PassInv, Goto
<1> HIDE DEF job
<1>4. /\ n \in Pending /\ n \in DOMAIN rows
      /\ \A e \in Deliverers \ {d} : Sending(e) => pass[e].row # n
  BY <1>0 DEF RepeatInv, RowsAreLocked, Sending, Pending
<1>5. Pending' = Pending
  BY DEF Pending
<1>6. \A e \in Deliverers : Sending(e)' = Sending(e) /\ (Sending(e) => pass'[e].row = pass[e].row)
  BY <1>0, <1>2, <1>3 DEF Sending
<1>7. RowsAreLocked'
  BY <1>5, <1>6 DEF RepeatInv, RowsAreLocked
<1>8. DOMAIN rows = 1 .. Len(rows) /\ DOMAIN received = DOMAIN rows
  BY <1>1
<1>9. /\ received' \in Seq(Nat) /\ Len(received') = Len(rows')
      /\ received[n] \in Nat /\ received'[n] \in {received[n], received[n] + 1}
      /\ \A m \in DOMAIN rows \ {n} : received'[m] = received[m]
  <2>1. received' = received \/ received' = [received EXCEPT ![n] = @ + 1]
    BY <1>0
  <2>2. received[n] \in Nat
    BY <1>1, <1>4, <1>8
  <2>3. CASE received' = received
    BY <1>1, <2>2, <2>3
  <2>4. CASE received' = [received EXCEPT ![n] = @ + 1]
    BY <1>1, <1>4, <1>8, <2>2, <2>4
  <2> QED BY <2>1, <2>3, <2>4
<1>10. Settled(n)' /\ ~Settled(n)
  <2>1. Settled(n)'
    BY <1>2, <1>3 DEF Settled
  <2>2. ~Settled(n)
    BY <1>0, <1>4 DEF Settled, Sending
  <2> QED BY <2>1, <2>2
<1>11. ASSUME NEW m \in DOMAIN rows \ {n} PROVE Settled(m)' = Settled(m)
  <2>1. \A e \in Deliverers :
            (pass'[e].pc = "commit" /\ pass'[e].row = m) <=> (pass[e].pc = "commit" /\ pass[e].row = m)
    BY <1>0, <1>2, <1>3
  <2> QED BY <1>5, <2>1 DEF Settled
<1>12. DOMAIN Owed' = DOMAIN rows /\ DOMAIN Owed = DOMAIN rows
  BY DEF Owed
<1>13. ASSUME NEW m \in DOMAIN rows, NEW i \in 1 .. Owed'[m] PROVE i \in 1 .. Owed[m]
  <2>1. CASE m # n
    <3>1. Owed'[m] = Owed[m]
      BY <1>9, <1>11, <2>1 DEF Owed
    <3> QED BY <1>13, <3>1
  <2>2. CASE m = n
    <3>1. Owed'[n] = received'[n] - 1 /\ Owed[n] = received[n] - 0
      BY <1>4, <1>10 DEF Owed
    <3> QED BY <1>9, <1>13, <2>2, <3>1
  <2> QED BY <2>1, <2>2
<1>14. Cardinality(Pairs(Owed')) <= failures' + 2 * restarts'
  BY <1>1, <1>12, <1>13, OwesNoMore
<1> QED BY <1>1, <1>7, <1>9, <1>14 DEF RepeatInv

\* The commit of a pass settles its row for good.
LEMMA RepeatCommits ==
    ASSUME AlertInv, AlertInv', RepeatInv, NEW d \in Deliverers, DeliverCommit(d)
    PROVE  RepeatInv'
<1> DEFINE job == [pc |-> "deliver", batch |-> pass[d].batch]
<1>0. PICK n : n = pass[d].row
  OBVIOUS
<1>1. /\ HistoryInv /\ PassInv /\ rows \in Seq(RowType) /\ rows' \in Seq(RowType)
      /\ received \in Seq(Nat) /\ Len(received) = Len(rows) /\ received' = received
      /\ failures' \in Nat /\ failures' >= failures /\ restarts' = restarts
      /\ pass[d].pc = "commit"
  BY DEF AlertInv, HistoryInv, RepeatInv, DeliverCommit
<1>2. /\ pass'[d] = job /\ job.pc = "deliver"
      /\ \A e \in Deliverers \ {d} : pass'[e] = pass[e]
  BY <1>1 DEF DeliverCommit, PassInv, Goto
<1> HIDE DEF job
<1>3. /\ n \in Pending /\ n \in DOMAIN rows /\ pass[d].status # "pending"
      /\ \A e \in Deliverers \ {d} : Sending(e) => pass[e].row # n
  <2>1. n \in Pending /\ n \in DOMAIN rows
        /\ \A e \in Deliverers \ {d} : Sending(e) => pass[e].row # n
    BY <1>0, <1>1 DEF RepeatInv, RowsAreLocked, Sending, Pending
  <2>2. pass[d].status # "pending"
    BY <1>1 DEF PassInv, JobOK
  <2> QED BY <2>1, <2>2
<1>4. /\ DOMAIN rows' = DOMAIN rows /\ Len(rows') = Len(rows)
      /\ rows'[n].status # "pending"
      /\ \A m \in DOMAIN rows \ {n} : rows'[m] = rows[m]
  <2>1. rows' = [rows EXCEPT ![n].status = pass[d].status]
    BY <1>0 DEF DeliverCommit
  <2>2. rows[n] \in RowType
    BY <1>1, <1>3
  <2> QED BY <1>1, <1>3, <2>1, <2>2 DEF RowType
<1>5. Pending' = Pending \ {n}
  BY <1>3, <1>4 DEF Pending
<1>6. RowsAreLocked'
  <2>1. \A e \in Deliverers : Sending(e)' => e # d /\ Sending(e) /\ pass'[e] = pass[e]
    BY <1>2 DEF Sending
  <2> QED BY <1>3, <1>5, <2>1 DEF RepeatInv, RowsAreLocked
<1>7. ASSUME NEW m \in DOMAIN rows PROVE Settled(m)' = Settled(m)
  <2>1. CASE m = n
    <3>1. Settled(n)
      BY <1>0, <1>1 DEF Settled
    <3>2. Settled(n)'
      BY <1>5 DEF Settled
    <3> QED BY <2>1, <3>1, <3>2
  <2>2. CASE m # n
    <3>1. \A e \in Deliverers :
              (pass'[e].pc = "commit" /\ pass'[e].row = m) <=> (pass[e].pc = "commit" /\ pass[e].row = m)
      BY <1>0, <1>2, <2>2
    <3> QED BY <1>5, <2>2, <3>1 DEF Settled
  <2> QED BY <2>1, <2>2
<1>8. Owed' = Owed
  BY <1>1, <1>4, <1>7 DEF Owed
<1>9. Cardinality(Pairs(Owed')) <= failures' + 2 * restarts'
  <2>1. failures' = failures
    BY DEF DeliverCommit
  <2> QED BY <1>1, <1>8, <2>1 DEF RepeatInv
<1> QED BY <1>1, <1>4, <1>6, <1>9 DEF RepeatInv

\* A pass that ends without its commit leaves its row owing one message more.
LEMMA OwesItsMessage ==
    ASSUME HistoryInv, RepeatInv, UNCHANGED <<rows, received>>,
           NEW u \in Pairs(Owed')
    PROVE  u \in Pairs(Owed) \/ \E d \in Deliverers : u = <<pass[d].row, received[pass[d].row]>>
<1> PICK count : count = Owed'
  OBVIOUS
<1>1. /\ DOMAIN count = DOMAIN rows /\ DOMAIN Owed = DOMAIN rows
      /\ \A n \in DOMAIN rows : /\ received[n] \in Nat
                                /\ count[n] \in {received[n], received[n] - 1}
                                /\ Owed[n] = received[n] - (IF Settled(n) THEN 1 ELSE 0)
  <2>1. \A n \in DOMAIN rows : received[n] \in Nat
    BY DEF HistoryInv, RepeatInv
  <2> QED BY <2>1 DEF Owed
<1>2. PICK n \in DOMAIN count : \E i \in 1 .. count[n] : u = <<n, i>>
  BY PairIn
<1>3. PICK i \in 1 .. count[n] : u = <<n, i>>
  BY <1>2
<1>4. CASE i \in 1 .. Owed[n]
  BY <1>1, <1>3, <1>4, PairIn
<1>5. CASE i \notin 1 .. Owed[n]
  <2>1. Settled(n) /\ i = received[n] /\ count[n] = received[n]
    BY <1>1, <1>5
  <2>2. ~Settled(n)'
    <3>1. Settled(n)' => Owed'[n] = received[n] - 1
      BY <1>1, <1>2 DEF Owed
    <3> QED BY <1>1, <1>2, <2>1, <3>1
  <2>3. n \in Pending
    BY <2>2 DEF Settled, Pending
  <2>4. PICK d \in Deliverers : pass[d].row = n
    BY <2>1, <2>3 DEF Settled
  <2> QED BY <1>3, <2>1, <2>4
<1> QED BY <1>4, <1>5

LEMMA RepeatCommitFails ==
    ASSUME AlertInv, AlertInv', RepeatInv, NEW d \in Deliverers, CommitFails(d)
    PROVE  RepeatInv'
<1>1. /\ HistoryInv /\ PassInv /\ HistoryInv' /\ Goto(d, Idle) /\ UNCHANGED <<rows, received, restarts>>
      /\ failures' = failures + 1 /\ failures \in Nat /\ rows \in Seq(RowType)
      /\ received \in Seq(Nat) /\ Len(received) = Len(rows) /\ restarts \in Nat
  BY DEF CommitFails, AlertInv, HistoryInv, RepeatInv
<1>2. /\ pass'[d] = Idle /\ pass'[d].pc = "idle"
      /\ \A e \in Deliverers \ {d} : pass'[e] = pass[e]
  BY <1>1, IdleIsOK DEF PassInv, Goto
<1>3. RowsAreLocked'
  <2>1. \A e \in Deliverers : Sending(e)' => Sending(e) /\ pass'[e] = pass[e]
    BY <1>2 DEF Sending
  <2>2. Pending' = Pending
    BY <1>1 DEF Pending
  <2> QED BY <2>1, <2>2 DEF RepeatInv, RowsAreLocked
<1>4. CASE pass[d].pc = "alert"
  <2>1. \A e \in Deliverers :
            pass'[e].pc \in {"send", "commit"} \/ pass[e].pc = "commit" => pass'[e] = pass[e]
    BY <1>2, <1>4
  <2>2. failures' \in Nat /\ failures' >= failures
    BY <1>1
  <2> QED BY <1>1, <2>1, <2>2, RepeatQuiet
<1>5. CASE pass[d].pc = "commit"
  <2> PICK count : count = Owed'
    OBVIOUS
  <2> PICK owing : owing = <<pass[d].row, received[pass[d].row]>>
    OBVIOUS
  <2>1. ASSUME NEW u \in Pairs(Owed') PROVE u \in Pairs(Owed) \cup {owing}
    <3>1. PICK n \in DOMAIN count : \E i \in 1 .. count[n] : u = <<n, i>>
      BY <2>1, PairIn
    <3>2. PICK i \in 1 .. count[n] : u = <<n, i>>
      BY <3>1
    <3>3. DOMAIN count = DOMAIN rows /\ DOMAIN Owed = DOMAIN rows /\ received[n] \in Nat
      BY <1>1, <3>1 DEF Owed
    <3>4. CASE n = pass[d].row
      <4>1. Settled(n) => Owed[n] = received[n] - 1
        BY <3>1, <3>3 DEF Owed
      <4>2. Settled(n)
        BY <1>5, <3>4 DEF Settled
      <4>3. count[n] \in {received[n], received[n] - 1}
        BY <1>1, <3>1, <3>3 DEF Owed
      <4>4. i \in 1 .. Owed[n] \/ i = received[n]
        BY <3>2, <3>3, <4>1, <4>2, <4>3
      <4> QED BY <3>1, <3>2, <3>3, <3>4, <4>4, PairIn
    <3>5. CASE n # pass[d].row
      <4>1. \A e \in Deliverers :
                (pass'[e].pc = "commit" /\ pass'[e].row = n) <=> (pass[e].pc = "commit" /\ pass[e].row = n)
        BY <1>2, <3>5
      <4>2. Settled(n)' = Settled(n)
        <5>1. Pending' = Pending
          BY <1>1 DEF Pending
        <5> QED BY <4>1, <5>1 DEF Settled
      <4>3. count[n] = Owed[n]
        BY <1>1, <3>1, <3>3, <4>2 DEF Owed
      <4> QED BY <3>1, <3>2, <3>3, <4>3, PairIn
    <3> QED BY <3>4, <3>5
  <2>2. Pairs(count) \subseteq Pairs(Owed) \cup {owing}
    BY <2>1
  <2>3. IsFiniteSet(Pairs(Owed))
    BY <1>1, OwedIsFinite
  <2>4. /\ Cardinality(Pairs(count)) \in Nat /\ Cardinality(Pairs(Owed)) \in Nat
        /\ Cardinality(Pairs(count)) <= Cardinality(Pairs(Owed)) + 1
    BY <2>2, <2>3, OnePairMore
  <2>5. Cardinality(Pairs(Owed)) <= failures + 2 * restarts
    BY DEF RepeatInv
  <2>6. Cardinality(Pairs(count)) <= failures' + 2 * restarts'
    BY <1>1, <2>4, <2>5
  <2> QED BY <1>1, <1>3, <2>6 DEF RepeatInv
<1> QED BY <1>4, <1>5 DEF CommitFails

LEMMA RepeatRestart ==
    ASSUME AlertInv, AlertInv', RepeatInv, Restart
    PROVE  RepeatInv'
<1>1. /\ HistoryInv /\ UNCHANGED <<rows, received, failures>>
      /\ restarts' = restarts + 1 /\ restarts \in Nat /\ failures \in Nat /\ rows \in Seq(RowType)
      /\ received \in Seq(Nat) /\ Len(received) = Len(rows)
      /\ pass' = [d \in Deliverers |-> Idle]
  BY DEF Restart, AlertInv, HistoryInv, RepeatInv
<1>2. RowsAreLocked'
  <2>1. \A e \in Deliverers : ~Sending(e)'
    BY <1>1, IdleIsOK DEF Sending
  <2> QED BY <2>1 DEF RowsAreLocked
<1> PICK count : count = Owed'
  OBVIOUS
<1> PICK one : one = <<pass["automation"].row, received[pass["automation"].row]>>
  OBVIOUS
<1> PICK two : two = <<pass["operator"].row, received[pass["operator"].row]>>
  OBVIOUS
<1>3. Pairs(count) \subseteq (Pairs(Owed) \cup {one}) \cup {two}
  <2> SUFFICES ASSUME NEW u \in Pairs(Owed') PROVE u \in (Pairs(Owed) \cup {one}) \cup {two}
    OBVIOUS
  <2>1. u \in Pairs(Owed) \/ \E d \in Deliverers : u = <<pass[d].row, received[pass[d].row]>>
    BY <1>1, OwesItsMessage
  <2> QED BY <2>1 DEF Deliverers
<1>4. IsFiniteSet(Pairs(Owed))
  BY <1>1, OwedIsFinite
<1>5. /\ IsFiniteSet(Pairs(Owed) \cup {one})
      /\ Cardinality(Pairs(Owed) \cup {one}) \in Nat /\ Cardinality(Pairs(Owed)) \in Nat
      /\ Cardinality(Pairs(Owed) \cup {one}) <= Cardinality(Pairs(Owed)) + 1
  BY <1>4, OnePairMore
<1>6. /\ Cardinality(Pairs(count)) \in Nat
      /\ Cardinality(Pairs(count)) <= Cardinality(Pairs(Owed) \cup {one}) + 1
  BY <1>3, <1>5, OnePairMore
<1>7. Cardinality(Pairs(Owed)) <= failures + 2 * restarts
  BY DEF RepeatInv
<1>8. Cardinality(Pairs(count)) <= failures' + 2 * restarts'
  BY <1>1, <1>5, <1>6, <1>7
<1> QED BY <1>1, <1>2, <1>8 DEF RepeatInv

LEMMA RepeatDeliver ==
    ASSUME AlertInv, AlertInv', RepeatInv, NEW d \in Deliverers, Deliver(d) PROVE RepeatInv'
<1>1. /\ HistoryInv /\ PassInv /\ HistoryInv' /\ failures \in Nat
  BY DEF AlertInv, RepeatInv
<1>2. ASSUME NEW job, Goto(d, job), job.pc \notin {"send", "commit"}, pass[d].pc # "commit",
             UNCHANGED <<rows, received, failures, restarts>>
      PROVE  RepeatInv'
  <2>1. \A e \in Deliverers :
            pass'[e].pc \in {"send", "commit"} \/ pass[e].pc = "commit" => pass'[e] = pass[e]
    BY <1>1, <1>2, PassMoves
  <2>2. failures' \in Nat /\ failures' >= failures
    BY <1>1, <1>2
  <2> QED BY <1>1, <1>2, <2>1, <2>2, RepeatQuiet
<1>3. CASE DeliverBegin(d)
  <2> PICK job : job = [pc |-> "deliver", batch |-> Newest(Pending)]
    OBVIOUS
  <2>1. Goto(d, job) /\ job.pc = "deliver" /\ pass[d].pc = "idle"
    BY <1>3, IdleIsOK DEF DeliverBegin
  <2> QED BY <1>2, <1>3, <2>1 DEF DeliverBegin
<1>4. CASE DeliverEnd(d)
  <2>1. Goto(d, Idle) /\ Idle.pc = "idle" /\ pass[d].pc = "deliver"
    BY <1>4, IdleIsOK DEF DeliverEnd
  <2> QED BY <1>2, <1>4, <2>1 DEF DeliverEnd
<1>5. CASE DeliverNext(d)
  BY <1>5, RepeatLocks
<1>6. CASE SendSucceeds(d)
  BY <1>6, RepeatSends DEF SendSucceeds
<1>7. CASE SendFails(d)
  BY <1>7, RepeatSends DEF SendFails
<1>8. CASE DeliverCommit(d)
  BY <1>8, RepeatCommits
<1> QED BY <1>3, <1>4, <1>5, <1>6, <1>7, <1>8 DEF Deliver

LEMMA RepeatStep == AlertInv /\ AlertInv' /\ RepeatInv /\ [Next]_vars => RepeatInv'
<1> SUFFICES ASSUME AlertInv, AlertInv', RepeatInv, [Next]_vars PROVE RepeatInv'
  OBVIOUS
<1>1. /\ HistoryInv /\ HistoryInv' /\ PassInv /\ failures \in Nat
  BY DEF AlertInv, RepeatInv
<1>2. ASSUME UNCHANGED pass PROVE \A d \in Deliverers : pass'[d] = pass[d]
  BY <1>2
<1>3. CASE UNCHANGED vars
  <2>1. UNCHANGED <<rows, received, pass, failures, restarts>>
    BY <1>3 DEF vars
  <2> QED BY <1>1, <2>1, RepeatQuiet
<1>4. CASE Queue
  BY <1>1, <1>4, RepeatInsert DEF Queue
<1>5. CASE AlertCheck
  <2> PICK job : job = [pc |-> "alert"]
    OBVIOUS
  <2>1. /\ Goto("automation", job) /\ job.pc = "alert" /\ pass["automation"].pc = "idle"
        /\ UNCHANGED <<rows, received, failures, restarts>> /\ "automation" \in Deliverers
    BY <1>5, IdleIsOK DEF AlertCheck, Deliverers
  <2>2. \A e \in Deliverers :
            pass'[e].pc \in {"send", "commit"} \/ pass[e].pc = "commit" => pass'[e] = pass[e]
    BY <1>1, <2>1, PassMoves
  <2> QED BY <1>1, <2>1, <2>2, RepeatQuiet
<1>6. CASE AlertCommit
  <2>1. /\ Goto("automation", Idle) /\ Idle.pc = "idle" /\ pass["automation"].pc = "alert"
        /\ "automation" \in Deliverers
    BY <1>6, IdleIsOK DEF AlertCommit, Deliverers
  <2>2. \A e \in Deliverers :
            pass'[e].pc \in {"send", "commit"} \/ pass[e].pc = "commit" => pass'[e] = pass[e]
    BY <1>1, <2>1, PassMoves
  <2> QED BY <1>1, <1>6, <2>2, RepeatInsert DEF AlertCommit
<1>7. ASSUME NEW volume \in 1 .. MaxVolume, StockAlert(volume) PROVE RepeatInv'
  BY <1>1, <1>7, RepeatInsert DEF StockAlert
<1>8. ASSUME NEW n \in DOMAIN rows, Age(n) PROVE RepeatInv'
  <2>1. /\ rows \in Seq(RowType) /\ rows' = [rows EXCEPT ![n].recent = FALSE]
        /\ UNCHANGED <<received, pass, failures, restarts>>
    BY <1>1, <1>8 DEF Age, HistoryInv
  <2>2. rows[n] \in RowType
    BY <2>1
  <2>3. DOMAIN rows' = DOMAIN rows /\ \A m \in DOMAIN rows : rows'[m].status = rows[m].status
    BY <2>1, <2>2 DEF RowType
  <2> QED BY <1>1, <2>1, <2>3, RepeatQuiet
<1>9. CASE Restart
  BY <1>9, RepeatRestart
<1>10. ASSUME NEW d \in Deliverers, Deliver(d) PROVE RepeatInv'
  BY <1>10, RepeatDeliver
<1>11. ASSUME NEW d \in Deliverers, CommitFails(d) PROVE RepeatInv'
  BY <1>11, RepeatCommitFails
<1> QED BY <1>3, <1>4, <1>5, <1>6, <1>7, <1>8, <1>9, <1>10, <1>11 DEF Next

\* In every reachable state a row being sent is pending and locked by one pass, and each
\* message the operator has of a row that is not yet settled is paid for by an interruption
\* (deliver_pending, mark_delivered, mark_failed).
THEOREM RepeatsInvariant == Spec => [](AlertInv /\ RepeatInv)
<1>1. Init => AlertInv /\ RepeatInv
  BY InitAlert, InitRepeat
<1>2. RepeatInv /\ AlertInv /\ AlertInv' /\ [Next]_vars => RepeatInv'
  BY RepeatStep
<1>3. Spec => []AlertInv
  BY AlertsInvariant
<1> QED BY <1>1, <1>2, <1>3, PTL DEF Spec

\* The operator receives a notification again only for a failed commit or a restart, for any
\* number of them and however the two passes interleave: at most one repeat for a failed
\* commit, and one for each pass at a restart.
THEOREM RepeatsArePaidFor == Spec => []RepeatsAreInterruptions
<1>1. Cardinality(Deliverers) = 2
  <2>1. Cardinality({"automation"}) = 1 /\ IsFiniteSet({"automation"})
    BY FS_Singleton
  <2>2. Deliverers = {"automation"} \cup {"operator"} /\ "operator" \notin {"automation"}
    BY DEF Deliverers
  <2>3. Cardinality({"automation"} \cup {"operator"})
            = IF "operator" \in {"automation"} THEN 1 ELSE 1 + 1
    BY <2>1, FS_AddElement
  <2> QED BY <2>2, <2>3
<1>2. AlertInv /\ RepeatInv => RepeatsAreInterruptions
  <2> SUFFICES ASSUME AlertInv, RepeatInv PROVE RepeatsAreInterruptions
    OBVIOUS
  <2>1. /\ rows \in Seq(RowType) /\ received \in Seq(Nat) /\ Len(received) = Len(rows)
        /\ restarts \in Nat /\ failures \in Nat
    BY DEF AlertInv, HistoryInv, RepeatInv
  <2>2. IsFiniteSet(Pairs(Owed)) /\ DOMAIN Owed = DOMAIN rows
    BY <2>1, OwedIsFinite DEF Owed
  <2> DEFINE repeats == UNION {{n} \X (1 .. received[n] - 1) : n \in DOMAIN rows}
  <2>3. ASSUME NEW u \in repeats PROVE u \in Pairs(Owed)
    <3>1. PICK n \in DOMAIN rows : \E i \in 1 .. received[n] - 1 : u = <<n, i>>
      OBVIOUS
    <3>2. received[n] \in Nat /\ Owed[n] \in {received[n], received[n] - 1}
      BY <2>1 DEF Owed
    <3>3. \E i \in 1 .. Owed[n] : u = <<n, i>>
      BY <3>1, <3>2
    <3> QED BY <2>2, <3>1, <3>3, PairIn
  <2>4. repeats \subseteq Pairs(Owed)
    BY <2>3
  <2> HIDE DEF repeats
  <2>5. /\ Cardinality(repeats) <= Cardinality(Pairs(Owed))
        /\ Cardinality(repeats) \in Nat /\ Cardinality(Pairs(Owed)) \in Nat
    BY <2>2, <2>4, FS_Subset, FS_CardinalityType
  <2>6. Cardinality(repeats) <= failures + 2 * restarts
    BY <2>1, <2>5 DEF RepeatInv
  <2>7. Cardinality(Deliverers) * restarts = 2 * restarts
    BY <1>1
  <2> QED BY <2>6, <2>7 DEF RepeatsAreInterruptions, repeats
<1> QED BY <1>2, RepeatsInvariant, PTL

=============================================================================
