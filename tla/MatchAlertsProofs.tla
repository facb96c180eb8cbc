------------------------- MODULE MatchAlertsProofs -------------------------
(***************************************************************************)
(* Theorems about MatchAlerts, for any matches and scans and any number of *)
(* disturbances.                                                           *)
(***************************************************************************)
EXTENDS MatchAlerts, TLAPS, FiniteSetTheorems

(* The types of what the scans work on.                                    *)
ScanTypes ==
  /\ row \in [Match -> Row]
  /\ sent \in [Match -> Nat]
  /\ pc \in [Scan -> Step] /\ todo \in [Scan -> SUBSET Match] /\ cur \in [Scan -> SUBSET Match]
  /\ broken \subseteq Scan /\ excused \subseteq Match
  /\ \A m \in Match : row[m].expl \in {"not_explained", "processing"} => row[m].tries < MaxTries

(* A scan has one match in hand, and only while it inserts or explains it; *)
(* what is explained is marked as in work, and by one scan.                *)
Claimed ==
  /\ \A s \in Scan : /\ \A m, n \in cur[s] : m = n
                     /\ cur[s] # {} => pc[s] \in {"insert", "explain"}
  /\ \A s, t \in Scan : s # t /\ pc[s] = "explain" /\ pc[t] = "explain" => cur[s] \cap cur[t] = {}
  /\ \A s \in Scan, m \in Match : pc[s] = "explain" /\ m \in cur[s] => row[m].expl = "processing"
  /\ \A m \in Match : row[m].expl = "processing"
                       => broken # {} \/ \E s \in Scan : pc[s] = "explain" /\ m \in cur[s]

(* Two scans do not mail the same match unnoticed; what is to be marked    *)
(* was mailed, and what was mailed is marked, to be marked or excused; a   *)
(* match mailed already is mailed again only if excused.                   *)
Mailed ==
  /\ \A s, t \in Scan, m \in Match :
       s # t /\ Mailing(s) /\ Mailing(t) /\ m \in todo[s] \cap todo[t] => m \in excused
  /\ \A s \in Scan : \A m \in todo[s] : pc[s] = "mark" => sent[m] >= 1
  /\ \A m \in Match : sent[m] >= 1 => \/ row[m].notified \/ m \in excused
                                      \/ \E s \in Scan : pc[s] = "mark" /\ m \in todo[s]
  /\ \A s \in Scan : \A m \in todo[s] : pc[s] = "mail" /\ sent[m] >= 1 => m \in excused
  /\ DigestIsHonest

(* A step of one scan, and the steps that are not a scan's.                *)
ScanStep(s) == Trigger(s) \/ Work(s) \/ Break(s)
OtherStep == \/ Connect \/ Subscribe \/ Receive \/ Expire \/ Drop
             \/ ShowMatches \/ LeaveMatches \/ \E m \in Match : MarkViewed(m)

(* The steps of the stream and the cards change of what scans use only     *)
(* whether a match was viewed.                                             *)
LEMMA OtherKeeps ==
  ASSUME ScanTypes, OtherStep
  PROVE  /\ UNCHANGED scanvars /\ row' \in [Match -> Row]
         /\ \A m \in Match : /\ row'[m].scored = row[m].scored /\ row'[m].notified = row[m].notified
                             /\ row'[m].expl = row[m].expl /\ row'[m].tries = row[m].tries
PROOF
  <1>1. CASE \E m \in Match : MarkViewed(m)
    <2>1. PICK m \in Match : MarkViewed(m)
      BY <1>1
    <2>2. row' = row \/ row' = [row EXCEPT ![m].viewed = TRUE]
      BY <2>1 DEF MarkViewed
    <2>3. [row[m] EXCEPT !.viewed = TRUE] \in Row
      BY DEF ScanTypes, Row
    <2>4. row' \in [Match -> Row]
      BY <2>2, <2>3 DEF ScanTypes
    <2> QED
      BY <2>1, <2>2, <2>4 DEF MarkViewed, ScanTypes, Row
  <1>2. CASE ~\E m \in Match : MarkViewed(m)
    BY <1>2 DEF OtherStep, Connect, Subscribe, Receive, Expire, Drop, Reconnect, ShowMatches,
                LeaveMatches, ScanTypes
  <1> QED
    BY <1>1, <1>2

(* Every step keeps the types.                                             *)
LEMMA TypesStep ==
  ASSUME ScanTypes, Claimed, Next
  PROVE  ScanTypes'
PROOF
  <1> USE DEF scanvars
  <1>0. CASE OtherStep
    BY <1>0, OtherKeeps DEF ScanTypes
  <1>1. ASSUME NEW s \in Scan, ScanStep(s) PROVE ScanTypes'
    <2>1. CASE Trigger(s) \/ Begin(s) \/ CountUnread(s) \/ PublishCount(s) \/ Explained(s)
      BY <2>1 DEF Trigger, Begin, CountUnread, PublishCount, Explained, Goto, Step, ScanTypes
    <2>2. CASE LookUp(s) \/ PickUnexplained(s) \/ LoadUnnotified(s)
      BY <2>2 DEF LookUp, PickUnexplained, LoadUnnotified, Goto, Step, ScanTypes, Scored
    <2>3. CASE InsertMatch(s)
      <3>1. \A m \in Match, b \in BOOLEAN : [row[m] EXCEPT !.scored = b] \in Row
        BY DEF ScanTypes, Row
      <3>2. /\ row' \in [Match -> Row]
            /\ \A m \in Match : row'[m].expl = row[m].expl /\ row'[m].tries = row[m].tries
        <4>1. CASE row' = row
          BY <4>1 DEF ScanTypes
        <4>2. CASE row' = [m \in Match |-> [row[m] EXCEPT !.scored = @ \/ m \in cur[s]]]
          <5>1. \A m \in Match : (row[m].scored \/ m \in cur[s]) \in BOOLEAN
            OBVIOUS
          <5> QED
            BY <3>1, <4>2, <5>1 DEF ScanTypes, Row
        <4> QED
          BY <2>3, <4>1, <4>2 DEF InsertMatch
      <3> QED
        BY <2>3, <3>2 DEF InsertMatch, Goto, Step, ScanTypes
    <2>4. CASE \E m \in Match : Claim(s, m)
      <3>1. PICK m \in Match : Claim(s, m)
        BY <2>4
      <3>2. [row[m] EXCEPT !.expl = "processing"] \in Row
        BY DEF ScanTypes, Row, Explanation
      <3>3. row' \in [Match -> Row] /\ \A n \in Match :
              row'[n].expl \in {"not_explained", "processing"} => row'[n].tries < MaxTries
        BY <3>1, <3>2 DEF Claim, ScanTypes, Row
      <3> QED
        BY <3>1, <3>3 DEF Claim, Goto, Step, ScanTypes
    <2>5. CASE \E m \in Match : Explain(s, m)
      <3>1. PICK m \in Match : Explain(s, m)
        BY <2>5
      <3>2. row[m] \in Row /\ row[m].tries < MaxTries
        BY <3>1 DEF Explain, Claimed, ScanTypes
      <3> DEFINE e == IF row[m].tries + 1 < MaxTries THEN "not_explained" ELSE "failed"
      <3>3. /\ [row[m] EXCEPT !.expl = "explained"] \in Row
            /\ [row[m] EXCEPT !.tries = @ + 1, !.expl = e] \in Row
        <4>1. row[m].tries + 1 \in 0..MaxTries /\ e \in Explanation
          BY <3>2, AlertsAssumption DEF Row, Explanation
        <4> HIDE DEF e
        <4> QED
          BY <3>2, <4>1 DEF Row, Explanation
      <3>4. \/ row' = [row EXCEPT ![m].expl = "explained"]
            \/ row' = [row EXCEPT ![m].tries = @ + 1, ![m].expl = e]
        BY <3>1 DEF Explain
      <3>5. row' \in [Match -> Row]
        BY <3>3, <3>4 DEF ScanTypes
      <3>6. \A n \in Match : row'[n].expl \in {"not_explained", "processing"} => row'[n].tries < MaxTries
        BY <3>2, <3>4 DEF ScanTypes, Row
      <3> QED
        BY <3>1, <3>5, <3>6 DEF Explain, Goto, Step, ScanTypes
    <2>6. CASE MailDigest(s)
      BY <2>6 DEF MailDigest, Goto, Step, ScanTypes
    <2>7. CASE MarkNotified(s)
      <3>1. \A m \in Match, b \in BOOLEAN : [row[m] EXCEPT !.notified = b] \in Row
        BY DEF ScanTypes, Row
      <3>2. \A m \in Match : (row[m].notified \/ m \in todo[s]) \in BOOLEAN
        OBVIOUS
      <3>3. /\ row' \in [Match -> Row]
            /\ \A m \in Match : row'[m].expl = row[m].expl /\ row'[m].tries = row[m].tries
        BY <2>7, <3>1, <3>2 DEF MarkNotified, ScanTypes, Row
      <3> QED
        BY <2>7, <3>3 DEF MarkNotified, Goto, Step, ScanTypes
    <2>8. CASE Break(s)
      BY <2>8 DEF Break, Goto, Step, ScanTypes
    <2> QED
      BY <1>1, <2>1, <2>2, <2>3, <2>4, <2>5, <2>6, <2>7, <2>8 DEF ScanStep, Work
  <1> QED
    BY <1>0, <1>1 DEF Next, OtherStep, ScanStep
(* What a scan's step does to explanations and to the matches in hand.     *)
LEMMA ClaimedStep ==
  ASSUME ScanTypes, Claimed, Next
  PROVE  Claimed'
PROOF
  <1> USE DEF scanvars
  <1>0. CASE OtherStep
    BY <1>0, OtherKeeps DEF Claimed
  <1>a. ASSUME NEW s \in Scan, broken \subseteq broken',
               \A m \in Match : row'[m].expl = row[m].expl,
               \A t \in Scan : t # s => pc'[t] = pc[t] /\ cur'[t] = cur[t],
               pc[s] # "explain", pc'[s] # "explain",
               \A m, n \in cur'[s] : m = n,
               cur'[s] # {} => pc'[s] = "insert"
        PROVE  Claimed'
    BY <1>a DEF Claimed
  <1>1. ASSUME NEW s \in Scan, ScanStep(s) PROVE Claimed'
    <2>1. CASE Trigger(s) \/ Begin(s) \/ CountUnread(s) \/ PublishCount(s) \/ Explained(s)
               \/ PickUnexplained(s) \/ LoadUnnotified(s) \/ MailDigest(s)
      <3>1. UNCHANGED <<row, cur, broken>> /\ pc[s] \notin {"explain", "insert"}
        BY <2>1 DEF Trigger, Begin, CountUnread, PublishCount, Explained, PickUnexplained,
                    LoadUnnotified, MailDigest
      <3>2. pc'[s] \notin {"explain", "insert"} /\ \A t \in Scan : t # s => pc'[t] = pc[t]
        BY <2>1 DEF Trigger, Begin, CountUnread, PublishCount, Explained, PickUnexplained,
                    LoadUnnotified, MailDigest, Goto, ScanTypes
      <3>3. cur[s] = {}
        BY <3>1 DEF Claimed
      <3> QED
        BY <1>a, <3>1, <3>2, <3>3
    <2>2. CASE LookUp(s)
      <3>1. /\ UNCHANGED <<row, broken>> /\ pc[s] = "score"
            /\ \/ \E m \in Match : pc' = [pc EXCEPT ![s] = "insert"] /\ cur' = [cur EXCEPT ![s] = {m}]
               \/ pc' = [pc EXCEPT ![s] = "count"] /\ UNCHANGED cur
        BY <2>2 DEF LookUp, Goto
      <3>2. cur[s] = {}
        BY <3>1 DEF Claimed
      <3>3. /\ \A t \in Scan : t # s => pc'[t] = pc[t] /\ cur'[t] = cur[t]
            /\ pc'[s] # "explain" /\ (\A m, n \in cur'[s] : m = n) /\ (cur'[s] # {} => pc'[s] = "insert")
        BY <3>1, <3>2 DEF ScanTypes
      <3> QED
        BY <1>a, <3>1, <3>3
    <2>3. CASE InsertMatch(s)
      <3>1. /\ pc[s] = "insert" /\ cur' = [cur EXCEPT ![s] = {}] /\ broken \subseteq broken'
            /\ \E q \in {"over", "score"} : pc' = [pc EXCEPT ![s] = q]
        BY <2>3 DEF InsertMatch, Goto
      <3>2. \A m \in Match : row'[m].expl = row[m].expl
        <4>1. CASE row' = row
          BY <4>1
        <4>2. CASE row' = [m \in Match |-> [row[m] EXCEPT !.scored = @ \/ m \in cur[s]]]
          BY <4>2 DEF ScanTypes, Row
        <4> QED
          BY <2>3, <4>1, <4>2 DEF InsertMatch
      <3>3. /\ \A t \in Scan : t # s => pc'[t] = pc[t] /\ cur'[t] = cur[t]
            /\ pc'[s] # "explain" /\ cur'[s] = {}
        BY <3>1 DEF ScanTypes
      <3> QED
        BY <1>a, <3>1, <3>2, <3>3
    <2>4. CASE \E m \in Match : Claim(s, m)
      <3>1. PICK m \in Match : Claim(s, m)
        BY <2>4
      <3>2. CASE row[m].expl = "not_explained"
        <4>1. /\ row' = [row EXCEPT ![m].expl = "processing"] /\ cur' = [cur EXCEPT ![s] = {m}]
              /\ pc' = [pc EXCEPT ![s] = "explain"] /\ broken' = broken /\ pc[s] = "claim"
          BY <3>1, <3>2 DEF Claim, Goto
        <4>2. /\ row'[m].expl = "processing" /\ \A n \in Match : n # m => row'[n] = row[n]
              /\ pc'[s] = "explain" /\ cur'[s] = {m}
              /\ \A t \in Scan : t # s => pc'[t] = pc[t] /\ cur'[t] = cur[t]
          BY <4>1 DEF ScanTypes, Row
        <4>3. \A t \in Scan : pc[t] = "explain" => m \notin cur[t]
          BY <3>2 DEF Claimed
        <4>4. \A t \in Scan, n \in Match : pc'[t] = "explain" /\ n \in cur'[t] => row'[n].expl = "processing"
          BY <4>2 DEF Claimed
        <4>5. \A n \in Match : row'[n].expl = "processing"
                 => broken' # {} \/ \E t \in Scan : pc'[t] = "explain" /\ n \in cur'[t]
          <5>1. ASSUME NEW n \in Match, row'[n].expl = "processing", broken = {}
                PROVE  \E t \in Scan : pc'[t] = "explain" /\ n \in cur'[t]
            <6>1. CASE n = m
              BY <4>2, <6>1
            <6>2. CASE n # m
              <7>1. PICK t \in Scan : pc[t] = "explain" /\ n \in cur[t]
                BY <4>2, <5>1, <6>2 DEF Claimed
              <7> QED
                BY <4>1, <4>2, <7>1
            <6> QED
              BY <6>1, <6>2
          <5> QED
            BY <4>1, <5>1
        <4>6. \A t \in Scan : /\ \A k, n \in cur'[t] : k = n
                              /\ cur'[t] # {} => pc'[t] \in {"insert", "explain"}
          BY <4>2 DEF Claimed
        <4>7. \A t, u \in Scan : t # u /\ pc'[t] = "explain" /\ pc'[u] = "explain" => cur'[t] \cap cur'[u] = {}
          BY <4>2, <4>3 DEF Claimed
        <4> QED
          BY <4>4, <4>5, <4>6, <4>7 DEF Claimed
      <3>3. CASE row[m].expl # "not_explained"
        BY <3>1, <3>3 DEF Claim, Claimed
      <3> QED
        BY <3>2, <3>3
    <2>5. CASE \E m \in Match : Explain(s, m)
      <3>1. PICK m \in Match : Explain(s, m)
        BY <2>5
      <3>2. /\ cur' = [cur EXCEPT ![s] = {}] /\ pc' = [pc EXCEPT ![s] = "claim"] /\ broken' = broken
            /\ pc[s] = "explain" /\ cur[s] = {m}
        BY <3>1 DEF Explain, Goto, Claimed
      <3>3. \A n \in Match : n # m => row'[n] = row[n]
        BY <3>1 DEF Explain, ScanTypes
      <3>4. row'[m].expl # "processing"
        <4>1. CASE row' = [row EXCEPT ![m].expl = "explained"]
          BY <4>1 DEF ScanTypes, Row
        <4> DEFINE e == IF row[m].tries + 1 < MaxTries THEN "not_explained" ELSE "failed"
        <4>2. CASE row' = [row EXCEPT ![m].tries = @ + 1, ![m].expl = e]
          <5>1. e # "processing"
            OBVIOUS
          <5> HIDE DEF e
          <5> QED
            BY <4>2, <5>1 DEF ScanTypes, Row
        <4> QED
          BY <3>1, <4>1, <4>2 DEF Explain
      <3>5. /\ pc'[s] = "claim" /\ cur'[s] = {}
            /\ \A t \in Scan : t # s => pc'[t] = pc[t] /\ cur'[t] = cur[t]
        BY <3>2 DEF ScanTypes
      <3>6. \A t \in Scan : t # s /\ pc[t] = "explain" => m \notin cur[t]
        BY <3>2 DEF Claimed
      <3>7. \A t \in Scan, n \in Match : pc'[t] = "explain" /\ n \in cur'[t] => row'[n].expl = "processing"
        BY <3>3, <3>5, <3>6 DEF Claimed
      <3>8. ASSUME NEW n \in Match, row'[n].expl = "processing", broken = {}
            PROVE  \E t \in Scan : pc'[t] = "explain" /\ n \in cur'[t]
        <4>1. n # m /\ row[n].expl = "processing"
          BY <3>3, <3>4, <3>8
        <4>2. PICK t \in Scan : pc[t] = "explain" /\ n \in cur[t]
          BY <3>8, <4>1 DEF Claimed
        <4> QED
          BY <3>2, <3>5, <4>1, <4>2
      <3> QED
        BY <3>2, <3>5, <3>7, <3>8 DEF Claimed
    <2>6. CASE MarkNotified(s)
      <3>1. pc[s] = "mark" /\ pc' = [pc EXCEPT ![s] = "over"] /\ UNCHANGED <<cur, broken>>
        BY <2>6 DEF MarkNotified, Goto
      <3>2. \A m \in Match : row'[m].expl = row[m].expl
        BY <2>6 DEF MarkNotified, ScanTypes, Row
      <3>3. cur[s] = {} /\ pc'[s] = "over" /\ \A t \in Scan : t # s => pc'[t] = pc[t]
        BY <3>1 DEF Claimed, ScanTypes
      <3> QED
        BY <1>a, <3>1, <3>2, <3>3
    <2>7. CASE Break(s)
      <3>1. /\ pc' = [pc EXCEPT ![s] = "over"] /\ cur' = [cur EXCEPT ![s] = {}] /\ row' = row
            /\ s \in broken'
        BY <2>7 DEF Break, Goto
      <3>2. /\ pc'[s] = "over" /\ cur'[s] = {} /\ broken' # {}
            /\ \A t \in Scan : t # s => pc'[t] = pc[t] /\ cur'[t] = cur[t]
        BY <3>1 DEF ScanTypes
      <3> QED
        BY <3>1, <3>2 DEF Claimed
    <2> QED
      BY <1>1, <2>1, <2>2, <2>3, <2>4, <2>5, <2>6, <2>7 DEF ScanStep, Work
  <1> QED
    BY <1>0, <1>1 DEF Next, OtherStep, ScanStep

(* And what it does to the digests.                                        *)
LEMMA MailedStep ==
  ASSUME ScanTypes, Mailed, Next
  PROVE  Mailed'
PROOF
  <1> USE DEF scanvars
  <1>0. CASE OtherStep
    BY <1>0, OtherKeeps DEF Mailed, Mailing, DigestIsHonest
  <1>1. ASSUME NEW s \in Scan, ScanStep(s) PROVE Mailed'
    <2>a. ASSUME UNCHANGED <<sent, excused>>, \A m \in Match : row'[m].notified = row[m].notified,
                 \A t \in Scan : t # s => pc'[t] = pc[t] /\ todo'[t] = todo[t],
                 ~Mailing(s), ~Mailing(s)'
          PROVE  Mailed'
      BY <2>a DEF Mailed, Mailing, DigestIsHonest
    <2>1. CASE Trigger(s) \/ Begin(s) \/ CountUnread(s) \/ PublishCount(s) \/ Explained(s)
               \/ LookUp(s) \/ PickUnexplained(s)
      <3>1. UNCHANGED <<sent, excused, row>> /\ ~Mailing(s)
        BY <2>1 DEF Trigger, Begin, CountUnread, PublishCount, Explained, LookUp, PickUnexplained,
                    Mailing
      <3>2. ~Mailing(s)' /\ \A t \in Scan : t # s => pc'[t] = pc[t] /\ todo'[t] = todo[t]
        BY <2>1 DEF Trigger, Begin, CountUnread, PublishCount, Explained, LookUp, PickUnexplained,
                    Mailing, Goto, ScanTypes
      <3> QED
        BY <2>a, <3>1, <3>2
    <2>2. CASE InsertMatch(s)
      <3>1. \A m \in Match : row'[m].notified = row[m].notified
        <4>1. CASE row' = row
          BY <4>1
        <4>2. CASE row' = [m \in Match |-> [row[m] EXCEPT !.scored = @ \/ m \in cur[s]]]
          BY <4>2 DEF ScanTypes, Row
        <4> QED
          BY <2>2, <4>1, <4>2 DEF InsertMatch
      <3>2. /\ UNCHANGED <<sent, todo, excused>> /\ pc[s] = "insert"
            /\ \E q \in {"over", "score"} : pc' = [pc EXCEPT ![s] = q]
        BY <2>2 DEF InsertMatch, Goto
      <3>3. ~Mailing(s) /\ ~Mailing(s)' /\ \A t \in Scan : t # s => pc'[t] = pc[t]
        BY <3>2 DEF Mailing, ScanTypes
      <3> QED
        BY <2>a, <3>1, <3>2, <3>3
    <2>3. CASE \E m \in Match : Claim(s, m) \/ Explain(s, m)
      <3>1. PICK m \in Match : Claim(s, m) \/ Explain(s, m)
        BY <2>3
      <3>2. \A n \in Match : row'[n].notified = row[n].notified
        <4>1. CASE Claim(s, m)
          BY <3>1, <4>1 DEF Claim, ScanTypes, Row
        <4>2. CASE row' = [row EXCEPT ![m].expl = "explained"]
          BY <4>2 DEF ScanTypes, Row
        <4> DEFINE e == IF row[m].tries + 1 < MaxTries THEN "not_explained" ELSE "failed"
        <4>3. CASE row' = [row EXCEPT ![m].tries = @ + 1, ![m].expl = e]
          <5> HIDE DEF e
          <5> QED
            BY <4>3 DEF ScanTypes, Row
        <4> QED
          BY <3>1, <4>1, <4>2, <4>3 DEF Explain
      <3>3. /\ UNCHANGED <<sent, excused>> /\ pc[s] \in {"claim", "explain"}
            /\ \A t \in Scan : t # s => todo'[t] = todo[t]
            /\ pc' = pc \/ \E q \in {"claim", "explain"} : pc' = [pc EXCEPT ![s] = q]
        BY <3>1 DEF Claim, Explain, Goto, ScanTypes
      <3>4. ~Mailing(s) /\ ~Mailing(s)' /\ \A t \in Scan : t # s => pc'[t] = pc[t]
        BY <3>3 DEF Mailing, ScanTypes
      <3> QED
        BY <2>a, <3>2, <3>3, <3>4
    <2>4. CASE LoadUnnotified(s)
      <3> DEFINE new == {m \in Scored : ~row[m].notified}
      <3>1. /\ pc[s] = "load" /\ UNCHANGED <<row, sent>>
            /\ pc' = [pc EXCEPT ![s] = IF new = {} THEN "over" ELSE "mail"]
            /\ todo' = [todo EXCEPT ![s] = new]
            /\ excused' = excused \cup {m \in new : \E t \in Scan : Mailing(t) /\ m \in todo[t]}
        BY <2>4 DEF LoadUnnotified, Goto
      <3>2. /\ todo'[s] = new /\ pc'[s] \in {"over", "mail"}
            /\ \A t \in Scan : t # s => pc'[t] = pc[t] /\ todo'[t] = todo[t]
        BY <3>1 DEF ScanTypes
      <3>3. new \subseteq Match
        BY DEF Scored
      <3>4. \A m \in new : sent[m] >= 1 => m \in excused'
        BY <3>1, <3>3 DEF Mailed, Mailing
      <3>5. \A t \in Scan : t # s /\ Mailing(t) => \A m \in new \cap todo[t] : m \in excused'
        BY <3>1
      <3>6. \A t \in Scan : t # s => Mailing(t)' = Mailing(t)
        BY <3>2 DEF Mailing
      <3> HIDE DEF new
      <3>7. \A t, u \in Scan, m \in Match :
              t # u /\ Mailing(t)' /\ Mailing(u)' /\ m \in todo'[t] \cap todo'[u] => m \in excused'
        BY <3>1, <3>2, <3>5, <3>6 DEF Mailed
      <3>8. \A t \in Scan : \A m \in todo'[t] : pc'[t] = "mark" => sent'[m] >= 1
        BY <3>1, <3>2 DEF Mailed
      <3>9. \A m \in Match : sent'[m] >= 1 => \/ row'[m].notified \/ m \in excused'
                                              \/ \E t \in Scan : pc'[t] = "mark" /\ m \in todo'[t]
        BY <3>1, <3>2 DEF Mailed
      <3>10. \A t \in Scan : \A m \in todo'[t] : pc'[t] = "mail" /\ sent'[m] >= 1 => m \in excused'
        BY <3>1, <3>2, <3>4 DEF Mailed
      <3>11. DigestIsHonest'
        BY <3>1 DEF Mailed, DigestIsHonest
      <3> QED
        BY <3>7, <3>8, <3>9, <3>10, <3>11 DEF Mailed, Mailing
    <2>5. CASE MailDigest(s)
      <3>1. /\ pc[s] = "mail" /\ UNCHANGED <<row, todo, excused>>
            /\ pc' = [pc EXCEPT ![s] = "mark"]
            /\ sent' = [m \in Match |-> IF m \in todo[s] THEN sent[m] + 1 ELSE sent[m]]
        BY <2>5 DEF MailDigest, Goto
      <3>2. pc'[s] = "mark" /\ (\A t \in Scan : t # s => pc'[t] = pc[t]) /\ todo[s] \subseteq Match
        BY <3>1 DEF ScanTypes
      <3>3. \A m \in Match : /\ m \in todo[s] => sent'[m] >= 1 /\ (sent'[m] > 1 => sent[m] >= 1)
                             /\ m \notin todo[s] => sent'[m] = sent[m]
                             /\ sent[m] >= 1 => sent'[m] >= 1
        BY <3>1 DEF ScanTypes
      <3>4. \A t \in Scan : Mailing(t)' = Mailing(t)
        BY <3>1, <3>2 DEF Mailing
      <3>5. \A t, u \in Scan, m \in Match :
              t # u /\ Mailing(t)' /\ Mailing(u)' /\ m \in todo'[t] \cap todo'[u] => m \in excused'
        BY <3>1, <3>4 DEF Mailed
      <3>6. \A t \in Scan : \A m \in todo'[t] : pc'[t] = "mark" => sent'[m] >= 1
        BY <3>1, <3>2, <3>3 DEF Mailed, ScanTypes
      <3>7. \A m \in Match : sent'[m] >= 1 => \/ row'[m].notified \/ m \in excused'
                                              \/ \E t \in Scan : pc'[t] = "mark" /\ m \in todo'[t]
        <4>1. \A m \in todo[s] : pc'[s] = "mark" /\ m \in todo'[s]
          BY <3>1, <3>2
        <4>2. \A t \in Scan : pc[t] = "mark" => pc'[t] = "mark"
          BY <3>1, <3>2
        <4> QED
          BY <3>1, <3>3, <4>1, <4>2 DEF Mailed
      <3>8. \A t \in Scan : \A m \in todo'[t] : pc'[t] = "mail" /\ sent'[m] >= 1 => m \in excused'
        <4>1. SUFFICES ASSUME NEW t \in Scan, NEW m \in todo[t], pc'[t] = "mail", sent'[m] >= 1
                       PROVE  m \in excused
          BY <3>1
        <4>2. t # s /\ pc[t] = "mail" /\ m \in Match
          BY <3>2, <4>1 DEF ScanTypes
        <4>3. CASE m \in todo[s]
          BY <3>1, <4>2, <4>1, <4>3 DEF Mailed, Mailing
        <4>4. CASE m \notin todo[s]
          BY <3>3, <4>1, <4>2, <4>4 DEF Mailed
        <4> QED
          BY <4>3, <4>4
      <3>9. DigestIsHonest'
        <4>1. \A m \in Match : sent'[m] > 1 => m \in excused
          <5>1. SUFFICES ASSUME NEW m \in Match, sent'[m] > 1 PROVE m \in excused
            OBVIOUS
          <5>2. CASE m \in todo[s]
            BY <3>1, <3>3, <5>1, <5>2 DEF Mailed
          <5>3. CASE m \notin todo[s]
            BY <3>3, <5>1, <5>3 DEF Mailed, DigestIsHonest
          <5> QED
            BY <5>2, <5>3
        <4> QED
          BY <3>1, <3>3, <4>1 DEF Mailed, DigestIsHonest
      <3> QED
        BY <3>5, <3>6, <3>7, <3>8, <3>9 DEF Mailed, Mailing
    <2>6. CASE MarkNotified(s)
      <3>1. /\ pc[s] = "mark" /\ UNCHANGED <<sent, excused>>
            /\ pc' = [pc EXCEPT ![s] = "over"] /\ todo' = [todo EXCEPT ![s] = {}]
        BY <2>6 DEF MarkNotified, Goto
      <3>2. \A m \in Match : row'[m].notified <=> row[m].notified \/ m \in todo[s]
        BY <2>6 DEF MarkNotified, ScanTypes, Row
      <3>3. /\ pc'[s] = "over" /\ todo'[s] = {}
            /\ \A t \in Scan : t # s => pc'[t] = pc[t] /\ todo'[t] = todo[t]
        BY <3>1 DEF ScanTypes
      <3>4. \A t, u \in Scan, m \in Match :
              t # u /\ Mailing(t)' /\ Mailing(u)' /\ m \in todo'[t] \cap todo'[u] => m \in excused'
        BY <3>1, <3>3 DEF Mailed, Mailing
      <3>5. /\ \A t \in Scan : \A m \in todo'[t] : pc'[t] = "mark" => sent'[m] >= 1
            /\ \A t \in Scan : \A m \in todo'[t] : pc'[t] = "mail" /\ sent'[m] >= 1 => m \in excused'
        BY <3>1, <3>3 DEF Mailed
      <3>6. \A m \in Match : sent'[m] >= 1 => \/ row'[m].notified \/ m \in excused'
                                              \/ \E t \in Scan : pc'[t] = "mark" /\ m \in todo'[t]
        <4>1. SUFFICES ASSUME NEW m \in Match, sent[m] >= 1, ~row[m].notified, m \notin excused,
                              m \notin todo[s]
                       PROVE  \E t \in Scan : pc'[t] = "mark" /\ m \in todo'[t]
          BY <3>1, <3>2
        <4>2. PICK t \in Scan : pc[t] = "mark" /\ m \in todo[t]
          BY <4>1 DEF Mailed
        <4> QED
          BY <3>3, <4>1, <4>2
      <3>7. DigestIsHonest'
        BY <3>1, <3>2 DEF Mailed, DigestIsHonest
      <3> QED
        BY <3>4, <3>5, <3>6, <3>7 DEF Mailed, Mailing
    <2>7. CASE Break(s)
      <3>1. /\ UNCHANGED <<row, sent>> /\ pc' = [pc EXCEPT ![s] = "over"]
            /\ todo' = [todo EXCEPT ![s] = {}]
            /\ excused' = IF pc[s] = "mark" THEN excused \cup todo[s] ELSE excused
        BY <2>7 DEF Break, Goto
      <3>2. /\ pc'[s] = "over" /\ todo'[s] = {} /\ excused \subseteq excused'
            /\ \A t \in Scan : t # s => pc'[t] = pc[t] /\ todo'[t] = todo[t]
        BY <3>1 DEF ScanTypes
      <3>3. /\ \A t, u \in Scan, m \in Match :
                 t # u /\ Mailing(t)' /\ Mailing(u)' /\ m \in todo'[t] \cap todo'[u] => m \in excused'
            /\ \A t \in Scan : \A m \in todo'[t] : pc'[t] = "mark" => sent'[m] >= 1
            /\ \A t \in Scan : \A m \in todo'[t] : pc'[t] = "mail" /\ sent'[m] >= 1 => m \in excused'
        BY <3>1, <3>2 DEF Mailed, Mailing
      <3>4. \A m \in Match : sent'[m] >= 1 => \/ row'[m].notified \/ m \in excused'
                                              \/ \E t \in Scan : pc'[t] = "mark" /\ m \in todo'[t]
        <4>1. SUFFICES ASSUME NEW m \in Match, sent[m] >= 1, ~row[m].notified, m \notin excused'
                       PROVE  \E t \in Scan : pc'[t] = "mark" /\ m \in todo'[t]
          BY <3>1
        <4>2. PICK t \in Scan : pc[t] = "mark" /\ m \in todo[t]
          BY <3>2, <4>1 DEF Mailed
        <4>3. t # s
          BY <3>1, <4>1, <4>2
        <4> QED
          BY <3>2, <4>2, <4>3
      <3>5. DigestIsHonest'
        BY <3>1, <3>2 DEF Mailed, DigestIsHonest
      <3> QED
        BY <3>3, <3>4, <3>5 DEF Mailed, Mailing
    <2> QED
      BY <1>1, <2>1, <2>2, <2>3, <2>4, <2>5, <2>6, <2>7 DEF ScanStep, Work
  <1> QED
    BY <1>0, <1>1 DEF Next, OtherStep, ScanStep

(* The three hold at the start and are kept.                               *)
THEOREM ScanInvariant == Spec => [](ScanTypes /\ Claimed /\ Mailed)
PROOF
  <1> DEFINE Inv == ScanTypes /\ Claimed /\ Mailed
  <1>1. Init => Inv
    <2>1. ASSUME Init
          PROVE  /\ row \in [Match -> Row] /\ sent \in [Match -> Nat]
                 /\ \A m \in Match : /\ row[m].expl = "not_explained" /\ row[m].tries = 0
                                      /\ row[m].notified = FALSE /\ sent[m] = 0
      <3>1. [scored |-> FALSE, viewed |-> FALSE, notified |-> FALSE, expl |-> "not_explained",
             tries |-> 0] \in Row
        BY AlertsAssumption DEF Row, Explanation
      <3> QED
        BY <2>1, <3>1 DEF Init
    <2>2. ASSUME Init
          PROVE  /\ pc \in [Scan -> Step] /\ todo \in [Scan -> SUBSET Match]
                 /\ cur \in [Scan -> SUBSET Match] /\ broken = {} /\ excused = {}
                 /\ \A s \in Scan : pc[s] = "idle" /\ cur[s] = {}
      BY <2>2 DEF Init, Step
    <2>3. ASSUME Init PROVE ScanTypes
      <3>1. \A m \in Match : row[m].tries < MaxTries
        <4>1. \A m \in Match : row[m].tries = 0
          BY <2>1, <2>3
        <4>2. 0 < MaxTries
          BY AlertsAssumption
        <4> QED
          BY <4>1, <4>2
      <3> QED
        BY <2>1, <2>2, <2>3, <3>1 DEF ScanTypes
    <2>4. Init => Claimed
      BY <2>1, <2>2 DEF Claimed
    <2>5. ASSUME Init PROVE Mailed
      <3>1. \A m \in Match : sent[m] = 0 /\ row[m].notified = FALSE
        BY <2>1, <2>5
      <3>2. \A s \in Scan : pc[s] = "idle" /\ todo[s] \subseteq Match
        BY <2>2, <2>5
      <3>3. DigestIsHonest
        BY <3>1 DEF DigestIsHonest
      <3> QED
        BY <3>1, <3>2, <3>3 DEF Mailed, Mailing
    <2> QED
      BY <2>3, <2>4, <2>5
  <1>2. Inv /\ [Next]_vars => Inv'
    <2>1. CASE UNCHANGED vars
      BY <2>1 DEF ScanTypes, Claimed, Mailed, Mailing, DigestIsHonest, vars, scanvars
    <2>2. ASSUME Inv, Next PROVE Inv'
      BY <2>2, TypesStep, ClaimedStep, MailedStep
    <2> QED
      BY <2>1, <2>2
  <1> QED
    BY <1>1, <1>2, PTL DEF Spec

(* A match is explained by one scan at a time, and one that is said to be  *)
(* in work is, or its scan broke off: the claim is one conditional UPDATE. *)
THEOREM OneExplainerAlways == Spec => []OneExplainer
PROOF
  <1>1. ScanTypes /\ Claimed => OneExplainer
    BY DEF ScanTypes, Claimed, OneExplainer
  <1> QED
    BY <1>1, ScanInvariant, PTL

(* No match is mailed twice, unless two scans mail at the same time or one *)
(* breaks off before it marks what it mailed; and what is marked as        *)
(* notified was mailed.                                                    *)
THEOREM DigestIsHonestAlways == Spec => []DigestIsHonest
PROOF
  <1>1. Mailed => DigestIsHonest
    BY DEF Mailed
  <1> QED
    BY <1>1, ScanInvariant, PTL
-----------------------------------------------------------------------------
(* The types of the stream and the cards.                                  *)
StreamTypes ==
  /\ num \in [Scan -> Count]
  /\ stream \in {"off", "opened", "live", "gaveup"}
  /\ inbox \in Seq(Count) /\ attempts \in 0..MaxReconnects
  /\ badge \subseteq Count /\ Cardinality(badge) <= 1
  /\ shown \subseteq Match /\ marks \subseteq Match /\ faults \in 0..MaxFaults

(* Every mail of a match is the work of another scan, past its mail.       *)
Mailers == {s \in Scan : pc[s] \in {"mark", "over"}}
SentOnce == \A m \in Match : sent[m] <= Cardinality(Mailers)

LEMMA UnreadType == Unread \in Count
PROOF
  <1> DEFINE S == {m \in Scored : ~row[m].viewed}
  <1>1. S \subseteq Match
    BY DEF Scored
  <1>2. Cardinality(S) \in Nat /\ Cardinality(S) <= Cardinality(Match) /\ Cardinality(Match) \in Nat
    BY <1>1, AlertsAssumption, FS_Subset, FS_CardinalityType
  <1> QED
    BY <1>2 DEF Unread, Count

LEMMA StreamStep ==
  ASSUME ScanTypes, StreamTypes, [Next]_vars
  PROVE  StreamTypes'
PROOF
  <1> USE DEF scanvars, streamvars, cardvars
  <1>0. 0 \in Count
    BY AlertsAssumption, FS_CardinalityType DEF Count
  <1>1. ASSUME NEW s \in Scan, ScanStep(s) PROVE StreamTypes'
    <2>1. num' \in [Scan -> Count]
      BY <1>0, <1>1, UnreadType DEF StreamTypes, ScanStep, Work, Trigger, Begin, LookUp, InsertMatch,
         CountUnread, PublishCount, PickUnexplained, Explained, LoadUnnotified, MailDigest,
         MarkNotified, Claim, Explain, Break
    <2>2. inbox' \in Seq(Count)
      <3>1. inbox' = inbox \/ inbox' = Append(inbox, num[s])
        BY <1>1 DEF ScanStep, Work, Trigger, Begin, LookUp, InsertMatch,
           CountUnread, PublishCount, PickUnexplained, Explained, LoadUnnotified, MailDigest,
           MarkNotified, Claim, Explain, Break
      <3> QED
        BY <3>1 DEF StreamTypes
    <2>3. UNCHANGED <<stream, attempts, badge, shown, marks>>
      BY <1>1 DEF ScanStep, Work, Trigger, Begin, LookUp, InsertMatch,
         CountUnread, PublishCount, PickUnexplained, Explained, LoadUnnotified, MailDigest,
         MarkNotified, Claim, Explain, Break
    <2>4. faults' \in 0..MaxFaults
      <3>1. faults' = faults \/ (faults < MaxFaults /\ faults' = faults + 1)
        BY <1>1 DEF ScanStep, Work, Trigger, Begin, LookUp, InsertMatch, Disturb,
           CountUnread, PublishCount, PickUnexplained, Explained, LoadUnnotified, MailDigest,
           MarkNotified, Claim, Explain, Break
      <3> QED
        BY <3>1, AlertsAssumption DEF StreamTypes
    <2> QED
      BY <2>1, <2>2, <2>3, <2>4 DEF StreamTypes
  <1>2. CASE Connect \/ Subscribe
    <2>1. inbox' \in Seq(Count)
      <3>1. inbox' = inbox \/ inbox' = Append(inbox, Unread)
        BY <1>2 DEF Connect, Subscribe
      <3> QED
        BY <3>1, UnreadType DEF StreamTypes
    <2> QED
      BY <1>2, <2>1 DEF Connect, Subscribe, StreamTypes
  <1>3. CASE Receive
    <2>1. Head(inbox) \in Count /\ inbox' \in Seq(Count) /\ badge' = {Head(inbox)}
      BY <1>3 DEF Receive, StreamTypes
    <2>2. Cardinality(badge') <= 1
      <3>1. Cardinality({Head(inbox)}) = 1
        BY FS_Singleton
      <3> QED
        BY <2>1, <3>1
    <2> QED
      BY <1>3, <2>1, <2>2, AlertsAssumption DEF Receive, StreamTypes
  <1>4. CASE Expire \/ Drop
    <2>1. inbox' = <<>> /\ stream' \in {"off", "gaveup"} /\ attempts' \in 0..MaxReconnects
      BY <1>4, AlertsAssumption DEF Expire, Drop, Reconnect, StreamTypes
    <2> QED
      BY <1>4, <2>1 DEF Expire, Drop, Reconnect, StreamTypes
  <1>5. CASE ShowMatches \/ LeaveMatches
    BY <1>5 DEF ShowMatches, LeaveMatches, StreamTypes, Scored
  <1>6. CASE \E m \in Match : MarkViewed(m)
    <2>1. faults' = faults \/ (faults < MaxFaults /\ faults' = faults + 1)
      BY <1>6 DEF MarkViewed, Disturb
    <2>2. faults' \in 0..MaxFaults
      BY <2>1, AlertsAssumption DEF StreamTypes
    <2> QED
      BY <1>6, <2>2 DEF MarkViewed, StreamTypes
  <1>7. CASE UNCHANGED vars
    BY <1>7 DEF vars, StreamTypes
  <1> QED
    BY <1>1, <1>2, <1>3, <1>4, <1>5, <1>6, <1>7 DEF Next, ScanStep

LEMMA SentStep ==
  ASSUME IsFiniteSet(Scan), ScanTypes, SentOnce, [Next]_vars
  PROVE  SentOnce'
PROOF
  <1> USE DEF scanvars
  <1>0. /\ Mailers \subseteq Scan /\ Mailers' \subseteq Scan
        /\ IsFiniteSet(Mailers) /\ IsFiniteSet(Mailers')
        /\ Cardinality(Mailers) \in Nat /\ Cardinality(Mailers') \in Nat
    <2>1. Mailers \subseteq Scan /\ Mailers' \subseteq Scan
      BY DEF Mailers
    <2> QED
      BY <2>1, FS_Subset, FS_CardinalityType
  <1>a. ASSUME sent' = sent, Mailers \subseteq Mailers' PROVE SentOnce'
    <2>1. Cardinality(Mailers) <= Cardinality(Mailers')
      BY <1>0, <1>a, FS_Subset
    <2> QED
      BY <1>0, <1>a, <2>1 DEF SentOnce, ScanTypes
  <1>1. ASSUME NEW s \in Scan, ScanStep(s) PROVE SentOnce'
    <2>0. /\ \A t \in Scan : t # s => pc'[t] = pc[t]
          /\ pc[s] \in {"mark", "over"} => pc'[s] \in {"mark", "over"}
      BY <1>1 DEF ScanStep, Work, Trigger, Begin, LookUp, InsertMatch, Goto, ScanTypes,
         CountUnread, PublishCount, PickUnexplained, Explained, LoadUnnotified, MailDigest,
         MarkNotified, Claim, Explain, Break
    <2>1. Mailers \subseteq Mailers'
      BY <2>0 DEF Mailers
    <2>2. CASE MailDigest(s)
      <3>1. Mailers' = Mailers \cup {s} /\ s \notin Mailers
        BY <2>0, <2>2 DEF MailDigest, Goto, Mailers, ScanTypes
      <3>2. Cardinality(Mailers') = Cardinality(Mailers) + 1
        BY <1>0, <3>1, FS_AddElement
      <3>3. \A m \in Match : sent'[m] <= sent[m] + 1
        BY <2>2 DEF MailDigest, ScanTypes
      <3>4. \A m \in Match : sent[m] \in Nat /\ sent'[m] \in Nat
        BY <2>2 DEF MailDigest, ScanTypes
      <3> QED
        BY <1>0, <3>2, <3>3, <3>4 DEF SentOnce
    <2>3. CASE ~MailDigest(s)
      <3>1. sent' = sent
        BY <1>1, <2>3 DEF ScanStep, Work, Trigger, Begin, LookUp, InsertMatch,
           CountUnread, PublishCount, PickUnexplained, Explained, LoadUnnotified,
           MarkNotified, Claim, Explain, Break
      <3> QED
        BY <1>a, <2>1, <3>1
    <2> QED
      BY <2>2, <2>3
  <1>2. CASE OtherStep
    <2>1. sent' = sent /\ pc' = pc
      BY <1>2, OtherKeeps
    <2> QED
      BY <1>a, <2>1 DEF Mailers
  <1>3. CASE UNCHANGED vars
    BY <1>3, <1>a DEF vars, Mailers
  <1> QED
    BY <1>1, <1>2, <1>3 DEF Next, OtherStep, ScanStep

(* Every variable keeps its type for any matches, finitely many scans, any *)
(* disturbances; a scan mails a match at most once.                        *)
THEOREM TypeCorrect ==
  ASSUME IsFiniteSet(Scan)
  PROVE  Spec => []TypeOK
PROOF
  <1>1. Init => StreamTypes /\ SentOnce
    <2> SUFFICES ASSUME Init PROVE StreamTypes /\ SentOnce
      OBVIOUS
    <2>1. 0 \in Count
      BY AlertsAssumption, FS_CardinalityType DEF Count
    <2>2. Cardinality({}) = 0
      BY FS_EmptySet
    <2>3. StreamTypes
      BY <2>1, <2>2, AlertsAssumption DEF Init, StreamTypes
    <2>4. Mailers = {}
      BY DEF Init, Mailers
    <2> QED
      BY <2>2, <2>3, <2>4 DEF Init, SentOnce
  <1>2. ScanTypes /\ StreamTypes /\ SentOnce /\ [Next]_vars => StreamTypes' /\ SentOnce'
    BY StreamStep, SentStep
  <1>3. ScanTypes /\ StreamTypes /\ SentOnce => TypeOK
    <2> SUFFICES ASSUME ScanTypes, StreamTypes, SentOnce PROVE sent \in [Match -> 0..Cardinality(Scan)]
      BY DEF TypeOK, ScanTypes, StreamTypes
    <2>1. Mailers \subseteq Scan
      BY DEF Mailers
    <2>2. /\ Cardinality(Mailers) <= Cardinality(Scan)
          /\ Cardinality(Mailers) \in Nat /\ Cardinality(Scan) \in Nat
      BY <2>1, FS_Subset, FS_CardinalityType
    <2> QED
      BY <2>2 DEF ScanTypes, SentOnce
  <1> QED
    BY <1>1, <1>2, <1>3, ScanInvariant, PTL DEF Spec
-----------------------------------------------------------------------------
(* A match that is found and not yet announced has a scan that will come   *)
(* to it: one that has not loaded its digest, or has it on the digest it   *)
(* mails - unless a scan broke off.  No scan ends with a match it left to  *)
(* another that had already passed it by.                                  *)
Comes(s, m) ==
  \/ pc[s] \in {"score", "insert", "count", "publish", "pick", "claim", "explain", "load"}
  \/ pc[s] \in {"mail", "mark"} /\ m \in todo[s]
FoundIsUnderway ==
  \A m \in Match :
    row[m].scored /\ ~row[m].notified /\ broken = {} => \E s \in Scan : Comes(s, m)

(* A scan comes to a match until it announces it or breaks off.            *)
LEMMA ScanComes ==
  ASSUME ScanTypes, NEW s \in Scan, ScanStep(s), NEW m \in Match, row'[m].scored, ~row'[m].notified,
         broken' = {}
  PROVE  /\ broken = {} /\ ~row[m].notified
         /\ ~row[m].scored \/ Comes(s, m) => Comes(s, m)'
         /\ \A t \in Scan : t # s => (Comes(t, m)' <=> Comes(t, m))
PROOF
  <1> USE DEF Goto, ScanTypes, Row, Step, Comes
  <1>0. row[m] \in Row
    OBVIOUS
  <1>1. CASE Trigger(s) \/ Begin(s) \/ LookUp(s) \/ CountUnread(s) \/ PublishCount(s) \/ Explained(s)
    BY <1>1 DEF Trigger, Begin, LookUp, CountUnread, PublishCount, Explained
  <1>2. CASE InsertMatch(s)
    <2>1. pc' = [pc EXCEPT ![s] = "score"] /\ UNCHANGED <<todo, broken>>
          /\ row' = [n \in Match |-> [row[n] EXCEPT !.scored = @ \/ n \in cur[s]]]
      BY <1>2 DEF InsertMatch
    <2>2. row'[m].notified = row[m].notified
      BY <1>0, <2>1
    <2> QED
      BY <2>1, <2>2
  <1>3. CASE PickUnexplained(s)
    BY <1>3 DEF PickUnexplained
  <1>4. CASE \E n \in Match : Claim(s, n)
    <2>1. PICK n \in Match : Claim(s, n)
      BY <1>4
    <2>2. /\ pc[s] = "claim" /\ pc'[s] \in {"claim", "explain"} /\ broken' = broken
          /\ \A t \in Scan : t # s => pc'[t] = pc[t] /\ todo'[t] = todo[t]
      BY <2>1 DEF Claim
    <2>3. row' = row \/ row' = [row EXCEPT ![n].expl = "processing"]
      BY <2>1 DEF Claim
    <2>4. row'[m].notified = row[m].notified
      BY <1>0, <2>3
    <2> QED
      BY <2>2, <2>4
  <1>5. CASE \E n \in Match : Explain(s, n)
    <2>1. PICK n \in Match : Explain(s, n)
      BY <1>5
    <2>2. pc[s] = "explain" /\ pc' = [pc EXCEPT ![s] = "claim"] /\ UNCHANGED <<todo, broken>>
      BY <2>1 DEF Explain
    <2>3. row'[m].notified = row[m].notified
      BY <1>0, <2>1 DEF Explain
    <2> QED
      BY <2>2, <2>3
  <1>6. CASE LoadUnnotified(s)
    BY <1>6 DEF LoadUnnotified, Scored
  <1>7. CASE MailDigest(s)
    BY <1>7 DEF MailDigest
  <1>8. CASE MarkNotified(s)
    <2>1. /\ row' = [n \in Match |-> [row[n] EXCEPT !.notified = @ \/ n \in todo[s]]]
          /\ pc[s] = "mark" /\ pc' = [pc EXCEPT ![s] = "over"] /\ todo' = [todo EXCEPT ![s] = {}]
          /\ broken' = broken
      BY <1>8 DEF MarkNotified
    <2>2. ~row[m].notified /\ m \notin todo[s] /\ row[m].scored
      BY <1>0, <2>1
    <2> QED
      BY <2>1, <2>2
  <1>9. CASE Break(s)
    BY <1>9 DEF Break
  <1> QED
    BY <1>1, <1>2, <1>3, <1>4, <1>5, <1>6, <1>7, <1>8, <1>9 DEF ScanStep, Work

(* A match that was found is announced, or still to be announced, or a     *)
(* scan broke off: the safety half of MatchesAreAnnounced.                 *)
THEOREM FoundIsUnderwayAlways == Spec => []FoundIsUnderway
PROOF
  <1>1. Init => FoundIsUnderway
    BY DEF Init, FoundIsUnderway
  <1>2. ScanTypes /\ FoundIsUnderway /\ [Next]_vars => FoundIsUnderway'
    <2> SUFFICES ASSUME ScanTypes, FoundIsUnderway, [Next]_vars,
                        NEW m \in Match, row'[m].scored, ~row'[m].notified, broken' = {}
                 PROVE  \E s \in Scan : Comes(s, m)'
      BY DEF FoundIsUnderway
    <2>1. ASSUME NEW s \in Scan, ScanStep(s) PROVE \E t \in Scan : Comes(t, m)'
      <3>1. CASE row[m].scored
        <4>1. PICK t \in Scan : Comes(t, m)
          BY <2>1, <3>1, ScanComes DEF FoundIsUnderway
        <4>2. Comes(t, m)'
          BY <2>1, <4>1, ScanComes
        <4> QED
          BY <4>2
      <3>2. CASE ~row[m].scored
        BY <2>1, <3>2, ScanComes
      <3> QED
        BY <3>1, <3>2
    <2>2. CASE OtherStep
      <3>1. UNCHANGED <<pc, todo, broken>> /\ row'[m].scored = row[m].scored /\ row'[m].notified = row[m].notified
        BY <2>2, OtherKeeps DEF scanvars
      <3> QED
        BY <3>1 DEF FoundIsUnderway, Comes
    <2>3. CASE UNCHANGED vars
      BY <2>3 DEF vars, scanvars, FoundIsUnderway, Comes
    <2> QED
      BY <2>1, <2>2, <2>3 DEF Next, OtherStep, ScanStep
  <1> QED
    BY <1>1, <1>2, ScanInvariant, PTL DEF Spec

=============================================================================
