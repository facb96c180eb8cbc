----------------------------- MODULE MatchAlerts ----------------------------
(***************************************************************************)
(* From a scan to the badge: scans that find matches, explain them and     *)
(* mail a digest, the stream of unread counts the browser follows, and the *)
(* cards of the match list that mark what the candidate has seen.          *)
(***************************************************************************)
EXTENDS Naturals, Sequences, FiniteSets

CONSTANTS
  Match,         \* postings that match the candidate
  Scan,          \* scan jobs of the candidate
  MaxTries,      \* job_matching_explanation_max_retries
  MaxReconnects, \* MAX_RECONNECT_ATTEMPTS
  Env,           \* disturbances: "kill", "redis", "net"
  MaxFaults      \* bound: how many of them happen

ASSUME AlertsAssumption ==
  /\ IsFiniteSet(Match)
  /\ MaxTries \in Nat \ {0} /\ MaxReconnects \in Nat \ {0} /\ MaxFaults \in Nat
  /\ Env \subseteq {"kill", "redis", "net"}

Explanation == {"not_explained", "processing", "explained", "failed"}
Row == [scored : BOOLEAN, viewed : BOOLEAN, notified : BOOLEAN,
        expl : Explanation, tries : 0..MaxTries]
Count == 0..Cardinality(Match)

VARIABLES
  row,      \* [Match -> its job_matches row]
  sent,     \* [Match -> number of digests that list it]
  pc,       \* [Scan -> where the job stands]
  todo,     \* [Scan -> matches it has loaded and not yet dealt with]
  cur,      \* [Scan -> the match it inserts or explains: a set of at most one]
  num,      \* [Scan -> the count it is about to publish]
  stream,   \* the browser's event stream
  inbox,    \* counts sent to the browser and not yet received
  attempts, \* reconnections since the last message
  badge,    \* the count the browser shows: a set of at most one number
  shown,    \* cards on the open match list
  marks,    \* view requests of cards on their way
  faults,   \* disturbances so far
  broken,   \* history: scans that broke off
  excused   \* history: matches two scans mailed at once, or mailed and not marked

scanvars   == <<sent, pc, todo, cur, num, broken, excused>>
streamvars == <<stream, inbox, attempts, badge>>
cardvars   == <<shown, marks>>
vars == <<row, scanvars, streamvars, cardvars, faults>>

Step == {"idle", "queued", "score", "insert", "count", "publish", "pick", "claim", "explain",
         "load", "mail", "mark", "over"}

TypeOK ==
  /\ row \in [Match -> Row]
  /\ sent \in [Match -> 0..Cardinality(Scan)]
  /\ pc \in [Scan -> Step] /\ todo \in [Scan -> SUBSET Match] /\ cur \in [Scan -> SUBSET Match]
  /\ num \in [Scan -> Count]
  /\ stream \in {"off", "opened", "live", "gaveup"}
  /\ inbox \in Seq(Count) /\ attempts \in 0..MaxReconnects
  /\ badge \subseteq Count /\ Cardinality(badge) <= 1
  /\ shown \subseteq Match /\ marks \subseteq Match
  /\ faults \in 0..MaxFaults /\ broken \subseteq Scan /\ excused \subseteq Match

Init ==
  /\ row = [m \in Match |-> [scored |-> FALSE, viewed |-> FALSE, notified |-> FALSE,
                             expl |-> "not_explained", tries |-> 0]]
  /\ sent = [m \in Match |-> 0]
  /\ pc = [s \in Scan |-> "idle"] /\ todo = [s \in Scan |-> {}] /\ cur = [s \in Scan |-> {}]
  /\ num = [s \in Scan |-> 0]
  /\ stream = "off" /\ inbox = <<>> /\ attempts = 0 /\ badge = {}
  /\ shown = {} /\ marks = {}
  /\ faults = 0 /\ broken = {} /\ excused = {}

Disturb(kind) == kind \in Env /\ faults < MaxFaults /\ faults' = faults + 1

Scored == {m \in Match : row[m].scored}
Unread == Cardinality({m \in Scored : ~row[m].viewed})

Goto(s, step) == pc' = [pc EXCEPT ![s] = step]

-----------------------------------------------------------------------------
(* scan_jobs_for_candidate: search and score.                              *)

(* Queued by "Scan now" or by the daily fan-out.                           *)
Trigger(s) ==
  /\ pc[s] = "idle" /\ Goto(s, "queued")
  /\ UNCHANGED <<row, sent, todo, cur, num, broken, excused, streamvars, cardvars, faults>>

(* Scans without preferences or a CV are skipped.                          *)
Begin(s) ==
  /\ pc[s] = "queued"
  /\ \/ Goto(s, "score") \/ Goto(s, "over")
  /\ UNCHANGED <<row, sent, todo, cur, num, broken, excused, streamvars, cardvars, faults>>

(* A posting found before only has its scores refreshed; a new one is      *)
(* inserted; or there are no more.                                         *)
LookUp(s) ==
  /\ pc[s] = "score"
  /\ \/ \E m \in Match \ Scored : Goto(s, "insert") /\ cur' = [cur EXCEPT ![s] = {m}]
     \/ Goto(s, "count") /\ UNCHANGED cur
  /\ UNCHANGED <<row, sent, todo, num, broken, excused, streamvars, cardvars, faults>>

(* (user_id, job_posting_id) is unique: the second insert raises.          *)
InsertMatch(s) ==
  /\ pc[s] = "insert"
  /\ cur' = [cur EXCEPT ![s] = {}]
  /\ IF cur[s] \subseteq Scored
       THEN Goto(s, "over") /\ broken' = broken \cup {s} /\ UNCHANGED row
       ELSE /\ row' = [m \in Match |-> [row[m] EXCEPT !.scored = @ \/ m \in cur[s]]]
            /\ Goto(s, "score") /\ UNCHANGED broken
  /\ UNCHANGED <<sent, todo, num, excused, streamvars, cardvars, faults>>

CountUnread(s) ==
  /\ pc[s] = "count" /\ Goto(s, "publish")
  /\ num' = [num EXCEPT ![s] = Unread]
  /\ UNCHANGED <<row, sent, todo, cur, broken, excused, streamvars, cardvars, faults>>


(* A refused publish is only logged; without a subscriber it is lost.      *)
PublishCount(s) ==
  /\ pc[s] = "publish" /\ Goto(s, "pick")
  /\ num' = [num EXCEPT ![s] = 0]
  /\ \/ inbox' = (IF stream = "live" THEN Append(inbox, num[s]) ELSE inbox) /\ UNCHANGED faults
     \/ Disturb("redis") /\ UNCHANGED inbox
  /\ UNCHANGED <<row, sent, todo, cur, broken, excused, stream, attempts, badge, cardvars>>

-----------------------------------------------------------------------------
(* Second pass: explanations.                                              *)

PickUnexplained(s) ==
  /\ pc[s] = "pick" /\ Goto(s, "claim")
  /\ todo' = [todo EXCEPT ![s] = {m \in Scored : row[m].expl = "not_explained"}]
  /\ UNCHANGED <<row, sent, cur, num, broken, excused, streamvars, cardvars, faults>>

(* Fault: the claim does not look at the status.                           *)
Claim_Unconditional(s, m) ==
  /\ pc[s] = "claim" /\ m \in todo[s]
  /\ todo' = [todo EXCEPT ![s] = @ \ {m}]
  /\ row' = [row EXCEPT ![m].expl = "processing"]
  /\ cur' = [cur EXCEPT ![s] = {m}] /\ Goto(s, "explain")
  /\ UNCHANGED <<sent, num, broken, excused, streamvars, cardvars, faults>>

(* The claim is one conditional UPDATE; a match claimed meanwhile is       *)
(* skipped.                                                                *)
Claim(s, m) ==
  /\ pc[s] = "claim" /\ m \in todo[s]
  /\ todo' = [todo EXCEPT ![s] = @ \ {m}]
  /\ IF row[m].expl = "not_explained"
       THEN /\ row' = [row EXCEPT ![m].expl = "processing"]
            /\ cur' = [cur EXCEPT ![s] = {m}] /\ Goto(s, "explain")
       ELSE UNCHANGED <<row, cur, pc>>
  /\ UNCHANGED <<sent, num, broken, excused, streamvars, cardvars, faults>>

(* The explanation is saved, or the failure recorded and the match given   *)
(* back until its tries are used up.                                       *)
Explain(s, m) ==
  /\ pc[s] = "explain" /\ m \in cur[s]
  /\ cur' = [cur EXCEPT ![s] = {}] /\ Goto(s, "claim")
  /\ \/ row' = [row EXCEPT ![m].expl = "explained"]
     \/ row' = [row EXCEPT ![m].tries = @ + 1,
                           ![m].expl = IF row[m].tries + 1 < MaxTries THEN "not_explained" ELSE "failed"]
  /\ UNCHANGED <<sent, todo, num, broken, excused, streamvars, cardvars, faults>>

Explained(s) ==
  /\ pc[s] = "claim" /\ todo[s] = {} /\ Goto(s, "load")
  /\ UNCHANGED <<row, sent, todo, cur, num, broken, excused, streamvars, cardvars, faults>>

-----------------------------------------------------------------------------
(* Third pass: the digest.                                                 *)

Mailing(s) == pc[s] \in {"mail", "mark"}

(* Fault: matches already announced are loaded as well.                    *)
LoadUnnotified_All(s) ==
  /\ pc[s] = "load" /\ Goto(s, IF Scored = {} THEN "over" ELSE "mail")
  /\ todo' = [todo EXCEPT ![s] = Scored]
  /\ excused' = excused \cup {m \in Scored : \E t \in Scan : Mailing(t) /\ m \in todo[t]}
  /\ UNCHANGED <<row, sent, cur, num, broken, streamvars, cardvars, faults>>

LoadUnnotified(s) ==
  LET new == {m \in Scored : ~row[m].notified} IN
  /\ pc[s] = "load" /\ Goto(s, IF new = {} THEN "over" ELSE "mail")
  /\ todo' = [todo EXCEPT ![s] = new]
  /\ excused' = excused \cup {m \in new : \E t \in Scan : Mailing(t) /\ m \in todo[t]}
  /\ UNCHANGED <<row, sent, cur, num, broken, streamvars, cardvars, faults>>

MailDigest(s) ==
  /\ pc[s] = "mail" /\ Goto(s, "mark")
  /\ sent' = [m \in Match |-> IF m \in todo[s] THEN sent[m] + 1 ELSE sent[m]]
  /\ UNCHANGED <<row, todo, cur, num, broken, excused, streamvars, cardvars, faults>>

MarkNotified(s) ==
  /\ pc[s] = "mark" /\ Goto(s, "over")
  /\ row' = [m \in Match |-> [row[m] EXCEPT !.notified = @ \/ m \in todo[s]]]
  /\ todo' = [todo EXCEPT ![s] = {}]
  /\ UNCHANGED <<sent, cur, num, broken, excused, streamvars, cardvars, faults>>

(* An exception, or the end of the worker.                                 *)
Break(s) ==
  /\ pc[s] \notin {"idle", "queued", "over"} /\ Disturb("kill")
  /\ Goto(s, "over") /\ broken' = broken \cup {s}
  /\ excused' = IF pc[s] = "mark" THEN excused \cup todo[s] ELSE excused
  /\ todo' = [todo EXCEPT ![s] = {}] /\ cur' = [cur EXCEPT ![s] = {}]
  /\ num' = [num EXCEPT ![s] = 0]
  /\ UNCHANGED <<row, sent, streamvars, cardvars>>

-----------------------------------------------------------------------------
(* useUnreadMatchEvents.  The stream begins with the count read when it is *)
(* opened, and subscribes afterwards.                                      *)

(* Fault: the first count leaves out what no digest has listed.            *)
Connect_Announced ==
  /\ stream = "off" /\ stream' = "opened"
  /\ inbox' = Append(inbox, Cardinality({m \in Scored : row[m].notified /\ ~row[m].viewed}))
  /\ UNCHANGED <<row, scanvars, attempts, badge, cardvars, faults>>

Connect ==
  /\ stream = "off" /\ stream' = "opened"
  /\ inbox' = Append(inbox, Unread)
  /\ UNCHANGED <<row, scanvars, attempts, badge, cardvars, faults>>

Subscribe ==
  /\ stream = "opened" /\ stream' = "live"
  /\ UNCHANGED <<row, scanvars, inbox, attempts, badge, cardvars, faults>>

Receive ==
  /\ inbox # <<>> /\ stream # "gaveup"
  /\ badge' = {Head(inbox)} /\ inbox' = Tail(inbox) /\ attempts' = 0
  /\ UNCHANGED <<row, scanvars, stream, cardvars, faults>>

(* Fault: one reconnection too many.                                       *)
Reconnect_OneMore ==
  /\ IF attempts <= MaxReconnects
       THEN stream' = "off" /\ attempts' = attempts + 1
       ELSE stream' = "gaveup" /\ UNCHANGED attempts
  /\ inbox' = <<>>
  /\ UNCHANGED <<row, scanvars, badge, cardvars>>

(* onerror closes the source; what it has not delivered is gone.           *)
Reconnect ==
  /\ IF attempts < MaxReconnects
       THEN stream' = "off" /\ attempts' = attempts + 1
       ELSE stream' = "gaveup" /\ UNCHANGED attempts
  /\ inbox' = <<>>
  /\ UNCHANGED <<row, scanvars, badge, cardvars>>

(* After 300 s the stream ends.                                            *)
Expire == stream = "live" /\ inbox = <<>> /\ Reconnect /\ UNCHANGED faults

(* The connection breaks or is not made, any number of times.              *)
Drop == stream \in {"off", "opened", "live"} /\ "net" \in Env /\ Reconnect /\ UNCHANGED faults

-----------------------------------------------------------------------------
(* MatchCard: a card marks its match as viewed when it appears and the     *)
(* match is new, which is to say not in any digest.                        *)

IsNew(m) == ~row[m].notified

ShowMatches ==
  /\ shown # Scored
  /\ shown' = Scored
  /\ marks' = marks \cup {m \in Scored \ shown : IsNew(m)}
  /\ UNCHANGED <<row, scanvars, streamvars, faults>>

LeaveMatches ==
  /\ shown # {} /\ shown' = {}
  /\ UNCHANGED <<row, scanvars, streamvars, marks, faults>>

MarkViewed(m) ==
  /\ m \in marks /\ marks' = marks \ {m}
  /\ \/ row' = [row EXCEPT ![m].viewed = TRUE] /\ UNCHANGED faults
     \/ Disturb("net") /\ UNCHANGED row
  /\ UNCHANGED <<scanvars, streamvars, shown>>

-----------------------------------------------------------------------------
Work(s) ==
  \/ Begin(s) \/ LookUp(s) \/ InsertMatch(s) \/ CountUnread(s) \/ PublishCount(s)
  \/ PickUnexplained(s) \/ Explained(s) \/ LoadUnnotified(s) \/ MailDigest(s) \/ MarkNotified(s)
  \/ \E m \in Match : Claim(s, m) \/ Explain(s, m)

Next ==
  \/ \E s \in Scan : Trigger(s) \/ Work(s) \/ Break(s)
  \/ Connect \/ Subscribe \/ Receive \/ Expire \/ Drop
  \/ ShowMatches \/ LeaveMatches \/ \E m \in Match : MarkViewed(m)

Spec == Init /\ [][Next]_vars

(* Workers run their jobs, the browser's stream is driven by timers and    *)
(* messages, requests are served.  Scans are not asked for, pages not      *)
(* opened, and nothing breaks, of necessity.                               *)
Fairness ==
  /\ \A s \in Scan : WF_vars(Work(s))
  /\ WF_vars(Connect) /\ WF_vars(Subscribe) /\ WF_vars(Receive) /\ WF_vars(Expire)
  /\ \A m \in Match : WF_vars(MarkViewed(m))

FairSpec == Spec /\ Fairness

-----------------------------------------------------------------------------
(* No match is mailed twice, unless two scans mail at the same time or one *)
(* breaks off before it marks what it mailed; and what is marked as        *)
(* notified was mailed.                                                    *)
DigestIsHonest ==
  \A m \in Match : /\ sent[m] > 1 => m \in excused
                   /\ row[m].notified => sent[m] >= 1

(* A match is explained by one scan at a time, and one that is said to be  *)
(* in work is, or its scan broke off.                                      *)
OneExplainer ==
  /\ \A s, t \in Scan : s # t => cur[s] \cap cur[t] = {} \/ pc[s] = "insert" \/ pc[t] = "insert"
  /\ \A m \in Match : row[m].expl = "processing"
                       => broken # {} \/ \E s \in Scan : pc[s] = "explain" /\ m \in cur[s]

(* The badge comes to show the number of unread matches, whatever was      *)
(* published when nobody listened, unless the stream gave up.              *)
BadgeCatchesUp ==
  \A n \in Count : <>[](Unread = n /\ stream # "gaveup") => []<>(badge = {n})

=============================================================================
