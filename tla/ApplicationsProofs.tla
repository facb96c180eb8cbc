------------------------- MODULE ApplicationsProofs -------------------------
(***************************************************************************)
(* Theorems about Applications, for any matches and requests and any       *)
(* number of visits and disturbances.                                      *)
(***************************************************************************)
EXTENDS Applications, TLAPS

Cache == [Family -> Data \cup {None}]

(* What the pages show of the server's rows are rows.                      *)
LEMMA FetchedTypes ==
  ASSUME srv \in Data, NEW f \in Family
  PROVE  Fetched(f) \in Data
PROOF
  <1>1. ASSUME NEW w \in Row PROVE Seen(f, w) \in Row
    <2>1. "new" \in Status
      BY DEF Status
    <2>2. f = "list" => Seen(f, w) = [w EXCEPT !.status = "new", !.swiped = FALSE]
      BY DEF Seen
    <2>3. f = "tracker" => Seen(f, w) = [w EXCEPT !.swiped = FALSE]
      BY DEF Seen
    <2>4. f = "deck" => Seen(f, w) = [w EXCEPT !.status = "new"]
      BY DEF Seen
    <2>5. /\ [w EXCEPT !.status = "new", !.swiped = FALSE] \in Row
          /\ [w EXCEPT !.swiped = FALSE] \in Row /\ [w EXCEPT !.status = "new"] \in Row
      BY <2>1 DEF Row
    <2> QED
      BY <2>2, <2>3, <2>4, <2>5 DEF Family
  <1> QED
    BY <1>1 DEF Fetched, Data

(* An invalidation keeps the types of the query cache.                     *)
LEMMA InvalidateTypes ==
  ASSUME TypeOK, NEW F \in SUBSET Family, NEW v \in Cache, Invalidate(F, v)
  PROVE  /\ view' \in Cache /\ answer' \in Cache
         /\ asking' \subseteq Family /\ stale' \subseteq Family /\ overtaken' \subseteq Family
PROOF
  BY DEF TypeOK, Invalidate, Cache

(* A disturbance stays within its bound.                                   *)
LEMMA DisturbTypes ==
  ASSUME faults \in 0..MaxFaults, NEW k, Disturb(k)
  PROVE  faults' \in 0..MaxFaults
PROOF
  BY ApplicationsAssumption DEF Disturb

(* The steps of the query cache keep the types.                            *)
LEMMA QueryTypes ==
  ASSUME TypeOK, \/ Refetch
                 \/ \E f \in Family : Visit(f) \/ ReadMatches(f) \/ Deliver(f) \/ FetchFails(f)
  PROVE  TypeOK'
PROOF
  <1> USE DEF calls
  <1>1. CASE Refetch
    BY <1>1, ApplicationsAssumption DEF Refetch, TypeOK
  <1>2. ASSUME NEW f \in Family, Visit(f) PROVE TypeOK'
    <2>1. visits' \in 0..MaxVisits
      BY <1>2, ApplicationsAssumption DEF Visit, TypeOK
    <2>2. reply' \in [Request -> {"none", "waiting", "away", "ok", "error"}]
      BY <1>2 DEF Visit, TypeOK
    <2> QED
      BY <1>2, <2>1, <2>2 DEF Visit, TypeOK
  <1>3. ASSUME NEW f \in Family, ReadMatches(f) PROVE TypeOK'
    <2>1. Fetched(f) \in Data
      BY FetchedTypes DEF TypeOK
    <2> QED
      BY <1>3, <2>1 DEF ReadMatches, TypeOK
  <1>4. ASSUME NEW f \in Family, Deliver(f) PROVE TypeOK'
    BY <1>4 DEF Deliver, TypeOK
  <1>5. ASSUME NEW f \in Family, FetchFails(f) PROVE TypeOK'
    BY <1>5, DisturbTypes DEF FetchFails, TypeOK
  <1> QED
    BY <1>1, <1>2, <1>3, <1>4, <1>5

(* A click starts a request that was not used yet.                         *)
LEMMA StartTypes ==
  ASSUME TypeOK, NEW r \in Request, NEW k, NEW m \in Match, NEW b \in BOOLEAN, NEW s \in Status,
         Start(r, k, m, b, s)
  PROVE  /\ call' \in [Request -> Call \cup {None}]
         /\ req' \in [Request -> {"idle", "sent", "check", "advance", "done", "error"}]
         /\ reply' \in [Request -> {"none", "waiting", "away", "ok", "error"}]
PROOF
  <1>1. [kind |-> k, match |-> m, on |-> b, to |-> s] \in Call
    BY ApplicationsAssumption DEF Start, Call
  <1> QED
    BY <1>1 DEF Start, TypeOK

(* A row of a cached copy is a row, and a change by hand keeps it one.     *)
LEMMA CacheTypes ==
  ASSUME TypeOK, NEW m \in Match
  PROVE  /\ view[page] # None => view[page][m] \in Row
         /\ \A b \in BOOLEAN : Patched(m, b) \in Cache
         /\ view["deck"] # None => [view EXCEPT !["deck"][m].swiped = TRUE] \in Cache
PROOF
  <1>1. \A f \in Family : view[f] # None => view[f] \in Data
    BY DEF TypeOK
  <1>2. ASSUME NEW d \in Data, NEW b \in BOOLEAN
        PROVE  [d EXCEPT ![m].applied = b] \in Data /\ [d EXCEPT ![m].swiped = b] \in Data
    <2>1. [d[m] EXCEPT !.applied = b] \in Row /\ [d[m] EXCEPT !.swiped = b] \in Row
      BY DEF Data, Row
    <2> QED
      BY <2>1 DEF Data
  <1>3. \A b \in BOOLEAN : Patched(m, b) \in Cache
    BY <1>1, <1>2 DEF Patched, Cache
  <1>4. view["deck"] # None => [view EXCEPT !["deck"][m].swiped = TRUE] \in Cache
    <2>1. SUFFICES ASSUME view["deck"] # None PROVE [view EXCEPT !["deck"][m].swiped = TRUE] \in Cache
      OBVIOUS
    <2>2. "deck" \in Family
      BY DEF Family
    <2>3. [view["deck"] EXCEPT ![m].swiped = TRUE] \in Data
      BY <1>1, <1>2, <2>1, <2>2
    <2> QED
      BY <2>2, <2>3 DEF Cache, TypeOK
  <1> QED
    BY <1>1, <1>3, <1>4 DEF TypeOK, Data

(* The clicks keep the types.                                              *)
LEMMA ClickTypes ==
  ASSUME TypeOK, NEW r \in Request, NEW m \in Match, Click(r, m)
  PROVE  TypeOK'
PROOF
  <1> USE DEF querys
  <1>0. "new" \in Status /\ "applied" \in Status /\ NoSnap \in Cache
    BY DEF Status, NoSnap, Cache
  <1>1. CASE MarkApplied(r, m)
    <2>1. view[page] # None /\ (~view[page][m].applied) \in BOOLEAN
      BY <1>1, CacheTypes DEF MarkApplied, Start, OnPage, Row
    <2>2. /\ call' \in [Request -> Call \cup {None}]
          /\ req' \in [Request -> {"idle", "sent", "check", "advance", "done", "error"}]
          /\ reply' \in [Request -> {"none", "waiting", "away", "ok", "error"}]
      BY <1>0, <1>1, <2>1, StartTypes DEF MarkApplied
    <2>3. view' \in Cache
      BY <1>1, <2>1, CacheTypes DEF MarkApplied
    <2>4. snap' \in [Request -> Cache]
      BY <1>1 DEF MarkApplied, TypeOK, Cache
    <2> QED
      BY <1>0, <1>1, <2>2, <2>3, <2>4 DEF MarkApplied, TypeOK, Cache
  <1>2. CASE ChangeStatus(r, m)
    <2>1. PICK s \in Status : Start(r, "move", m, FALSE, s)
      BY <1>2 DEF ChangeStatus
    <2>2. /\ call' \in [Request -> Call \cup {None}]
          /\ req' \in [Request -> {"idle", "sent", "check", "advance", "done", "error"}]
          /\ reply' \in [Request -> {"none", "waiting", "away", "ok", "error"}]
      BY <2>1, StartTypes
    <2> QED
      BY <1>2, <2>2 DEF ChangeStatus, TypeOK
  <1>3. CASE Swipe(r, m)
    <2>1. view["deck"] # None
      BY <1>3 DEF Swipe, Start, OnPage
    <2>2. /\ call' \in [Request -> Call \cup {None}]
          /\ req' \in [Request -> {"idle", "sent", "check", "advance", "done", "error"}]
          /\ reply' \in [Request -> {"none", "waiting", "away", "ok", "error"}]
      BY <1>0, <1>3, StartTypes DEF Swipe
    <2>3. view' \in Cache
      BY <1>3, <2>1, CacheTypes DEF Swipe
    <2> QED
      BY <1>3, <2>2, <2>3 DEF Swipe, TypeOK, Cache
  <1> QED
    BY <1>1, <1>2, <1>3 DEF Click

(* A request the server has begun on is about something, and one that was  *)
(* not used yet is not under way.                                          *)
Underway ==
  /\ \A r \in Request : req[r] # "idle" => call[r] \in Call
  /\ \A r \in Request : reply[r] = "none" => req[r] = "idle"
  /\ \A r \in Request : reply[r] \in {"waiting", "away"} => req[r] # "idle"
  /\ \A r \in Request : req[r] \in {"sent", "check", "advance"}
                         => reply[r] \in {"waiting", "away"} \/ r \in unseen
  /\ \A r \in Request : req[r] \in {"check", "advance"} => call[r].kind = "apply"

(* So do the server's steps.                                               *)
LEMMA ServeTypes ==
  ASSUME TypeOK, Underway, NEW r \in Request, Serve(r) \/ ServerFails(r)
  PROVE  TypeOK'
PROOF
  <1> USE DEF querys
  <1>0. req[r] # "idle" /\ call[r] \in Call
    BY DEF Serve, ServeApplied, CheckStatus, Advance, ServeOther, ServerFails, Underway
  <1>1. ASSUME NEW b \in BOOLEAN, NEW s \in Status
        PROVE  /\ [srv EXCEPT ![call[r].match].applied = b] \in Data
               /\ [srv EXCEPT ![call[r].match].swiped = b] \in Data
               /\ [srv EXCEPT ![call[r].match].status = s] \in Data
    <2>1. call[r].match \in Match
      BY <1>0 DEF Call
    <2>2. srv[call[r].match] \in Row
      BY <2>1 DEF TypeOK, Data
    <2>3. /\ [srv[call[r].match] EXCEPT !.applied = b] \in Row
          /\ [srv[call[r].match] EXCEPT !.swiped = b] \in Row
          /\ [srv[call[r].match] EXCEPT !.status = s] \in Row
      BY <2>2 DEF Row
    <2> QED
      BY <2>1, <2>3 DEF TypeOK, Data
  <1>2. CASE ServeApplied(r)
    <2>1. srv' \in Data
      BY <1>0, <1>1, <1>2 DEF ServeApplied, Call, Status
    <2> QED
      BY <1>2, <2>1 DEF ServeApplied, TypeOK
  <1>3. CASE CheckStatus(r)
    BY <1>3 DEF CheckStatus, TypeOK
  <1>4. CASE Advance(r)
    <2>1. srv' \in Data
      BY <1>1, <1>4 DEF Advance, Status
    <2> QED
      BY <1>4, <2>1 DEF Advance, TypeOK
  <1>5. CASE ServeOther(r)
    <2>1. call[r].kind \in {"move", "swipe"} /\ call[r].to \in Status /\ call[r].match \in Match
      BY <1>0, <1>5 DEF ServeOther, Call, Kind
    <2>2. srv' \in Data
      <3>1. CASE call[r].kind = "move"
        BY <1>1, <1>5, <2>1, <3>1 DEF ServeOther
      <3>2. CASE call[r].kind = "swipe"
        BY <1>1, <1>5, <2>1, <3>2 DEF ServeOther
      <3> QED
        BY <2>1, <3>1, <3>2
    <2> QED
      BY <1>5, <2>1, <2>2 DEF ServeOther, TypeOK
  <1>6. CASE ServerFails(r)
    <2>1. call[r].match \in Match /\ faults' \in 0..MaxFaults
      BY <1>0, <1>6, DisturbTypes DEF ServerFails, Call, TypeOK
    <2> QED
      BY <1>6, <2>1 DEF ServerFails, TypeOK
  <1> QED
    BY <1>2, <1>3, <1>4, <1>5, <1>6 DEF Serve

(* And the answers.                                                        *)
LEMMA SettleTypes ==
  ASSUME TypeOK, NEW r \in Request, NEW ok \in BOOLEAN, Settle(r, ok)
  PROVE  /\ view' \in Cache /\ answer' \in Cache
         /\ asking' \subseteq Family /\ stale' \subseteq Family /\ overtaken' \subseteq Family
         /\ failed' \subseteq Family
         /\ reply' \in [Request -> {"none", "waiting", "away", "ok", "error"}]
         /\ snap' \in [Request -> Cache]
PROOF
  <1>1. /\ reply' \in [Request -> {"none", "waiting", "away", "ok", "error"}]
        /\ snap' \in [Request -> Cache]
    BY DEF Settle, TypeOK, NoSnap, Cache
  <1>2. view \in Cache /\ Restored(r) \in Cache
    BY DEF TypeOK, Restored, Cache
  <1>3. \/ /\ Invalidate(Family, view) \/ Invalidate(Family, Restored(r))
           /\ failed' \subseteq failed
        \/ Invalidate({"tracker"}, view) /\ UNCHANGED failed
        \/ UNCHANGED <<view, stale, failed, asking, answer, overtaken>>
    BY DEF Settle
  <1>4. {"tracker"} \subseteq Family /\ Family \subseteq Family
    BY DEF Family
  <1>5. failed' \subseteq Family
    BY <1>3 DEF TypeOK
  <1>6. CASE \/ Invalidate(Family, view) \/ Invalidate(Family, Restored(r))
             \/ Invalidate({"tracker"}, view)
    BY <1>1, <1>2, <1>4, <1>5, <1>6, InvalidateTypes
  <1>7. CASE UNCHANGED <<view, stale, failed, asking, answer, overtaken>>
    BY <1>1, <1>5, <1>7 DEF TypeOK, Cache
  <1> QED
    BY <1>3, <1>6, <1>7

(* However it is answered, or not.                                         *)
LEMMA AnswerTypes ==
  ASSUME TypeOK, NEW r \in Request, Answer(r) \/ GiveUp(r)
  PROVE  TypeOK'
PROOF
  <1>1. CASE Answer(r)
    <2>1. PICK ok \in BOOLEAN : Settle(r, ok)
      BY <1>1 DEF Answer
    <2>2. /\ call' \in [Request -> Call \cup {None}]
          /\ req' \in [Request -> {"idle", "sent", "check", "advance", "done", "error"}]
      BY <1>1 DEF Answer, TypeOK
    <2>3. UNCHANGED <<srv, page, visits, excused, unseen, faults>>
      BY <1>1, <2>1 DEF Answer, Settle
    <2> QED
      BY <2>1, <2>2, <2>3, SettleTypes DEF TypeOK, Cache
  <1>2. CASE GiveUp(r)
    <2>1. Settle(r, FALSE) /\ faults' \in 0..MaxFaults
      BY <1>2, DisturbTypes DEF GiveUp, TypeOK
    <2>2. UNCHANGED <<srv, page, visits, excused>>
      BY <2>1 DEF Settle
    <2> QED
      BY <1>2, <2>1, <2>2, SettleTypes DEF GiveUp, TypeOK, Cache
  <1> QED
    BY <1>1, <1>2
(* A step of the browser's query cache.                                    *)
QueryStep == Refetch \/ \E f \in Family : Visit(f) \/ ReadMatches(f) \/ Deliver(f) \/ FetchFails(f)

(* Every step keeps the types.                                             *)
LEMMA TypesStep ==
  ASSUME TypeOK, Underway, Next
  PROVE  TypeOK'
PROOF
  BY QueryTypes, ClickTypes, ServeTypes, AnswerTypes DEF Next

(* And what is known of the requests under way.                            *)
LEMMA UnderwayStep ==
  ASSUME TypeOK, Underway, Next
  PROVE  Underway'
PROOF
  <1> USE DEF querys, calls
  <1>0. /\ req \in [Request -> {"idle", "sent", "check", "advance", "done", "error"}]
        /\ reply \in [Request -> {"none", "waiting", "away", "ok", "error"}]
        /\ call \in [Request -> Call \cup {None}]
    BY DEF TypeOK
  <1>1. CASE QueryStep
    <2>1. UNCHANGED <<call, req, unseen>>
      BY <1>1 DEF QueryStep, Refetch, Visit, ReadMatches, Deliver, FetchFails
    <2>2. \/ reply' = reply
          \/ reply' = [r \in Request |-> IF reply[r] = "waiting" THEN "away" ELSE reply[r]]
      BY <1>1 DEF QueryStep, Refetch, Visit, ReadMatches, Deliver, FetchFails
    <2>3. \A r \in Request : reply'[r] = reply[r] \/ (reply[r] = "waiting" /\ reply'[r] = "away")
      BY <1>0, <2>2
    <2> QED
      BY <2>1, <2>3 DEF Underway
  <1>2. ASSUME NEW r \in Request, NEW m \in Match, Click(r, m) PROVE Underway'
    <2>1. PICK k \in Kind, b \in BOOLEAN, s \in Status : Start(r, k, m, b, s)
      <3>1. "new" \in Status /\ "applied" \in Status /\ {"apply", "move", "swipe"} = Kind
        BY DEF Status, Kind
      <3>2. (~view[page][m].applied) \in BOOLEAN
        OBVIOUS
      <3>3. MarkApplied(r, m) => Start(r, "apply", m, ~view[page][m].applied, "applied")
        BY DEF MarkApplied
      <3>4. ChangeStatus(r, m) => \E s \in Status : Start(r, "move", m, FALSE, s)
        BY DEF ChangeStatus
      <3>5. Swipe(r, m) => Start(r, "swipe", m, TRUE, "new")
        BY DEF Swipe
      <3> QED
        BY <1>2, <3>1, <3>2, <3>3, <3>4, <3>5 DEF Click
    <2>2. unseen' = unseen
      BY <1>2 DEF Click, MarkApplied, ChangeStatus, Swipe
    <2>3. [kind |-> k, match |-> m, on |-> b, to |-> s] \in Call
      BY <2>1, ApplicationsAssumption DEF Start, Call
    <2>4. /\ req'[r] = "sent" /\ reply'[r] = "waiting" /\ call'[r] \in Call
          /\ \A q \in Request : q # r => req'[q] = req[q] /\ reply'[q] = reply[q] /\ call'[q] = call[q]
      BY <1>0, <2>1, <2>3 DEF Start
    <2> QED
      BY <2>2, <2>4 DEF Underway
  <1>3. ASSUME NEW r \in Request, Serve(r) \/ ServerFails(r) PROVE Underway'
    <2>1. /\ UNCHANGED <<call, reply, unseen>> /\ req[r] \in {"sent", "check", "advance"}
          /\ \E q \in {"check", "advance", "done", "error"} : req' = [req EXCEPT ![r] = q]
      BY <1>3 DEF Serve, ServeApplied, CheckStatus, Advance, ServeOther, ServerFails
    <2>3. req'[r] \in {"check", "advance"} => call[r].kind = "apply"
      BY <1>0, <1>3, <2>1 DEF Serve, ServeApplied, CheckStatus, Advance, ServeOther, ServerFails,
                              Underway
    <2>2. req'[r] # "idle" /\ \A q \in Request : q # r => req'[q] = req[q]
      BY <1>0, <2>1
    <2> QED
      BY <2>1, <2>2, <2>3 DEF Underway
  <1>4. ASSUME NEW r \in Request, Answer(r) PROVE Underway'
    <2>1. /\ unseen' = unseen /\ req' = [req EXCEPT ![r] = "idle"]
          /\ call' = call \/ call' = [call EXCEPT ![r] = None]
          /\ \E q \in {"ok", "error"} : reply' = [reply EXCEPT ![r] = q]
      BY <1>4 DEF Answer, Settle
    <2>2. /\ req'[r] = "idle" /\ reply'[r] \in {"ok", "error"}
          /\ \A q \in Request : q # r => req'[q] = req[q] /\ reply'[q] = reply[q] /\ call'[q] = call[q]
      BY <1>0, <2>1
    <2> QED
      BY <2>1, <2>2 DEF Underway
  <1>5. ASSUME NEW r \in Request, GiveUp(r) PROVE Underway'
    <2>1. /\ UNCHANGED <<call, req>> /\ unseen \subseteq unseen'
          /\ reply' = [reply EXCEPT ![r] = "error"] /\ req[r] # "idle"
          /\ req[r] \in {"done", "error"} \/ r \in unseen'
      BY <1>5 DEF GiveUp, Settle
    <2>2. reply'[r] = "error" /\ \A q \in Request : q # r => reply'[q] = reply[q]
      BY <1>0, <2>1
    <2> QED
      BY <2>1, <2>2 DEF Underway
  <1> QED
    BY <1>1, <1>2, <1>3, <1>4, <1>5 DEF Next, QueryStep

(* A mark that has not broken off leaves no match behind as "new".         *)
LEMMA MovesOnStep ==
  ASSUME TypeOK, Underway, AppliedMovesOn, Next
  PROVE  AppliedMovesOn'
PROOF
  <1> USE DEF querys, calls
  <1>0. /\ req \in [Request -> {"idle", "sent", "check", "advance", "done", "error"}]
        /\ call \in [Request -> Call \cup {None}]
        /\ \A m \in Match : srv[m] \in Row /\ srv \in Data
    BY DEF TypeOK, Data
  <1>1. CASE QueryStep
    <2>1. UNCHANGED <<srv, call, req, excused>>
      BY <1>1 DEF QueryStep, Refetch, Visit, ReadMatches, Deliver, FetchFails
    <2> QED
      BY <2>1 DEF AppliedMovesOn
  <1>2. ASSUME NEW r \in Request, NEW m \in Match, Click(r, m) PROVE AppliedMovesOn'
    <2>1. PICK c : call' = [call EXCEPT ![r] = c] /\ req' = [req EXCEPT ![r] = "sent"] /\ reply[r] = "none"
      BY <1>2 DEF Click, MarkApplied, ChangeStatus, Swipe, Start
    <2>2. req[r] = "idle" /\ \A q \in Request : q # r => req'[q] = req[q] /\ call'[q] = call[q]
      BY <1>0, <2>1 DEF Underway
    <2>3. UNCHANGED <<srv, excused>>
      BY <1>2 DEF Click, MarkApplied, ChangeStatus, Swipe
    <2> QED
      BY <2>2, <2>3 DEF AppliedMovesOn
  <1>3. ASSUME NEW r \in Request, Serve(r) \/ ServerFails(r) PROVE AppliedMovesOn'
    <2>0. call' = call /\ call[r] \in Call /\ call[r].match \in Match /\ req[r] # "idle"
      BY <1>3 DEF Serve, ServeApplied, CheckStatus, Advance, ServeOther, ServerFails, Underway, Call
    <2>a. \A q \in Request : q # r => req'[q] = req[q]
      BY <1>0, <1>3 DEF Serve, ServeApplied, CheckStatus, Advance, ServeOther, ServerFails
    <2>1. CASE ServeApplied(r)
      <3>1. /\ req[r] = "sent" /\ excused' = excused
            /\ \A m \in Match : m # call[r].match => srv'[m] = srv[m]
            /\ srv'[call[r].match].applied = call[r].on
            /\ call[r].on => req'[r] = "check"
        BY <1>0, <2>0, <2>1 DEF ServeApplied, Data, Row
      <3> QED
        BY <2>0, <2>a, <3>1 DEF AppliedMovesOn
    <2>2. CASE CheckStatus(r)
      <3>1. /\ req[r] = "check" /\ UNCHANGED <<srv, excused>>
            /\ srv[call[r].match].status = "new" => req'[r] = "advance"
        BY <1>0, <2>2 DEF CheckStatus
      <3> QED
        BY <2>0, <2>a, <3>1 DEF AppliedMovesOn
    <2>3. CASE Advance(r)
      <3>1. /\ req[r] = "advance" /\ excused' = excused
            /\ \A m \in Match : m # call[r].match => srv'[m] = srv[m]
            /\ srv'[call[r].match].status = "applied"
        BY <1>0, <2>0, <2>3 DEF Advance, Data, Row
      <3> QED
        BY <2>0, <2>a, <3>1 DEF AppliedMovesOn
    <2>4. CASE ServeOther(r)
      <3>1. req[r] = "sent" /\ call[r].kind \in {"move", "swipe"}
        BY <2>0, <2>4 DEF ServeOther, Call, Kind
      <3>2. CASE call[r].kind = "move"
        <4>1. /\ \A m \in Match : m # call[r].match => srv'[m] = srv[m]
              /\ srv'[call[r].match].status = call[r].to
              /\ excused \subseteq excused' /\ (call[r].to = "new" => call[r].match \in excused')
          BY <1>0, <2>0, <2>4, <3>2 DEF ServeOther, Data, Row
        <4> QED
          BY <2>0, <2>a, <3>1, <4>1 DEF AppliedMovesOn
      <3>3. CASE call[r].kind = "swipe"
        <4>1. /\ excused' = excused
              /\ \A m \in Match : srv'[m].status = srv[m].status /\ srv'[m].applied = srv[m].applied
          BY <1>0, <2>0, <2>4, <3>3 DEF ServeOther, Data, Row
        <4> QED
          BY <2>0, <2>a, <3>1, <4>1 DEF AppliedMovesOn
      <3> QED
        BY <3>1, <3>2, <3>3
    <2>5. CASE ServerFails(r)
      <3>1. /\ srv' = srv /\ excused \subseteq excused'
            /\ req[r] # "sent" => call[r].match \in excused'
        BY <2>5 DEF ServerFails
      <3> QED
        BY <2>0, <2>a, <3>1 DEF AppliedMovesOn
    <2> QED
      BY <1>3, <2>1, <2>2, <2>3, <2>4, <2>5 DEF Serve
  <1>4. ASSUME NEW r \in Request, Answer(r) PROVE AppliedMovesOn'
    <2>1. /\ req[r] \in {"done", "error"} /\ UNCHANGED <<srv, excused>>
          /\ req' = [req EXCEPT ![r] = "idle"] /\ (call' = call \/ call' = [call EXCEPT ![r] = None])
      BY <1>4 DEF Answer, Settle
    <2>2. \A q \in Request : q # r => req'[q] = req[q] /\ call'[q] = call[q]
      BY <1>0, <2>1
    <2> QED
      BY <2>1, <2>2 DEF AppliedMovesOn
  <1>5. ASSUME NEW r \in Request, GiveUp(r) PROVE AppliedMovesOn'
    BY <1>5 DEF GiveUp, Settle, AppliedMovesOn
  <1> QED
    BY <1>1, <1>2, <1>3, <1>4, <1>5 DEF Next, QueryStep

(* They hold at the start.                                                 *)
LEMMA InitHolds ==
  ASSUME Init
  PROVE  TypeOK /\ Underway /\ AppliedMovesOn
PROOF
  <1>1. srv \in Data /\ \A m \in Match : srv[m].applied = FALSE
    <2>1. [applied |-> FALSE, status |-> "new", swiped |-> FALSE] \in Row
      BY DEF Row, Status
    <2> QED
      BY <2>1 DEF Init, Data
  <1>2. view \in Cache /\ answer \in Cache /\ snap \in [Request -> Cache]
    BY DEF Init, NoSnap, Cache
  <1>3. TypeOK
    BY <1>1, <1>2, ApplicationsAssumption DEF Init, TypeOK, Cache
  <1>4. Underway
    BY DEF Init, Underway
  <1> QED
    BY <1>1, <1>3, <1>4 DEF AppliedMovesOn

(* And a stutter keeps them.                                               *)
LEMMA StutterKeeps ==
  ASSUME UNCHANGED vars
  PROVE  (TypeOK => TypeOK') /\ (Underway => Underway') /\ (AppliedMovesOn => AppliedMovesOn')
PROOF
  BY DEF vars, querys, calls, TypeOK, Underway, AppliedMovesOn

(* In every reachable state the variables have their types, and requests   *)
(* under way are about something.                                          *)
THEOREM TypeCorrect == Spec => [](TypeOK /\ Underway)
PROOF
  <1>1. Init => TypeOK /\ Underway
    BY InitHolds
  <1>2. TypeOK /\ Underway /\ [Next]_vars => (TypeOK /\ Underway)'
    BY TypesStep, UnderwayStep, StutterKeeps
  <1> QED
    BY <1>1, <1>2, PTL DEF Spec

(* A match marked as applied has left "new", unless a mark is midway or    *)
(* broke off, or the candidate put it back.                                *)
THEOREM AppliedMovesOnAlways == Spec => []AppliedMovesOn
PROOF
  <1>1. Init => AppliedMovesOn
    BY InitHolds
  <1>2. TypeOK /\ Underway /\ AppliedMovesOn /\ [Next]_vars => AppliedMovesOn'
    BY MovesOnStep, StutterKeeps
  <1> QED
    BY <1>1, <1>2, TypeCorrect, PTL DEF Spec
-----------------------------------------------------------------------------
(* What a page shows.                                                      *)

(* Data that are what the page would fetch now; for the deck only what     *)
(* PageIsTrue says of it.                                                  *)
Same(f, d) ==
  \A m \in Match : IF f = "deck" THEN d[m].applied = srv[m].applied ELSE d[m] = Seen(f, srv[m])

(* A mutation not yet settled that will invalidate f, and has or may have  *)
(* changed what f shows.                                                   *)
Pending(f) ==
  \E r \in Request :
    /\ reply[r] \in {"waiting", "away"}
    /\ \/ call[r].kind = "apply"
       \/ call[r].kind = "move" /\ f = "tracker" /\ req[r] = "done"

(* What a family shows, or is about to show, is true, or it is known to be *)
(* out of date; and if it is the open page, a fetch is under way.          *)
Fresh(f) ==
  \/ f \in asking \/ f \in overtaken \/ Pending(f)
  \/ answer[f] # None /\ Same(f, answer[f])
  \/ answer[f] = None /\ (view[f] = None \/ f \in stale \/ f \in failed \/ Same(f, view[f]))
Outdated(f) ==
  f \in asking \/ f \in overtaken \/ (answer[f] = None /\ (view[f] = None \/ f \in stale))
Caught(f) == f \in stale => ~Idle(f) \/ f \in failed \/ f \in overtaken \/ Pending(f)
Truthful == unseen # {} \/ ((\A f \in Family : Fresh(f)) /\ Caught(page))

(* An invalidation leaves no family it is for as it is, and the others     *)
(* alone.                                                                  *)
LEMMA InvalidateFresh ==
  ASSUME TypeOK, NEW F \in SUBSET Family, NEW v \in Cache, Invalidate(F, v), page' = page
  PROVE  /\ \A f \in F : Outdated(f)'
         /\ page \in F /\ page \in stale' => page \in asking'
         /\ \A f \in Family \ F : /\ f \in asking => f \in asking'
                                  /\ answer'[f] = answer[f] /\ view'[f] = v[f]
                                  /\ (f \in stale <=> f \in stale')
                                  /\ f \in overtaken => f \in overtaken'
PROOF
  <1>1. view' = v /\ asking \subseteq asking' /\ overtaken \subseteq overtaken'
    BY DEF Invalidate
  <1>2. ASSUME NEW f \in F PROVE Outdated(f)'
    <2>1. CASE answer[f] # None
      BY <1>2, <2>1 DEF Invalidate, Outdated
    <2>2. CASE answer[f] = None
      BY <1>2, <2>2 DEF Invalidate, Outdated
    <2> QED
      BY <2>1, <2>2
  <1>3. page \in F /\ page \in stale' => page \in asking'
    BY DEF Invalidate
  <1>4. ASSUME NEW f \in Family \ F
        PROVE  answer'[f] = answer[f] /\ (f \in stale <=> f \in stale')
    BY <1>4 DEF Invalidate
  <1> QED
    BY <1>1, <1>2, <1>3, <1>4

(* Data stay true while the server's rows keep what a family shows.        *)
LEMMA SameKept ==
  ASSUME TypeOK, NEW f \in Family, NEW d,
         \A m \in Match : /\ srv'[m] \in Row /\ srv'[m].applied = srv[m].applied
                          /\ f = "tracker" => srv'[m].status = srv[m].status
  PROVE  Same(f, d) => Same(f, d)'
PROOF
  <1>1. ASSUME NEW m \in Match, f # "deck" PROVE Seen(f, srv'[m]) = Seen(f, srv[m])
    <2>1. srv[m] \in Row /\ srv'[m] \in Row
      BY DEF TypeOK, Data
    <2>2. CASE f = "list"
      <3>1. \A w \in Row : Seen("list", w) = [applied |-> w.applied, status |-> "new", swiped |-> FALSE]
        BY DEF Seen, Row
      <3> QED
        BY <2>1, <2>2, <3>1
    <2>3. CASE f = "tracker"
      <3>1. \A w \in Row : Seen("tracker", w) = [applied |-> w.applied, status |-> w.status, swiped |-> FALSE]
        BY DEF Seen, Row
      <3> QED
        BY <2>1, <2>3, <3>1
    <2> QED
      BY <1>1, <2>2, <2>3 DEF Family
  <1> QED
    BY <1>1 DEF Same

(* The steps of the query cache.                                           *)
LEMMA QueryTruthful ==
  ASSUME TypeOK, Truthful, QueryStep
  PROVE  Truthful'
PROOF
  <1> USE DEF calls
  <1>0. /\ view \in Cache /\ answer \in Cache /\ page \in Family
        /\ reply \in [Request -> {"none", "waiting", "away", "ok", "error"}]
    BY DEF TypeOK, Cache
  <1>1. UNCHANGED <<srv, call, req, unseen>>
    BY DEF QueryStep, Refetch, Visit, ReadMatches, Deliver, FetchFails
  <1>2. SUFFICES ASSUME unseen = {} PROVE (\A f \in Family : Fresh(f)') /\ Caught(page)'
    BY <1>1 DEF Truthful
  <1>3. \A r \in Request : reply[r] \in {"waiting", "away"} <=> reply'[r] \in {"waiting", "away"}
    BY <1>0 DEF QueryStep, Refetch, Visit, ReadMatches, Deliver, FetchFails
  <1>4. \A f \in Family : Pending(f) => Pending(f)'
    BY <1>1, <1>3 DEF Pending
  <1>5. \A f \in Family : \A d : Same(f, d) => Same(f, d)'
    BY <1>1 DEF Same
  <1>6. (\A f \in Family : Fresh(f)) /\ Caught(page)
    BY <1>2 DEF Truthful
  <1>7. CASE Refetch
    BY <1>4, <1>5, <1>6, <1>7 DEF Refetch, Fresh, Caught, Idle
  <1>8. ASSUME NEW g \in Family, Visit(g) PROVE (\A f \in Family : Fresh(f)') /\ Caught(page)'
    <2>1. /\ page' = g /\ UNCHANGED <<view, stale, failed, answer, overtaken>> /\ asking \subseteq asking'
          /\ g \in asking' \/ ~Idle(g) \/ g \notin stale
      BY <1>8 DEF Visit
    <2>2. \A f \in Family : Fresh(f)'
      BY <1>4, <1>5, <1>6, <2>1 DEF Fresh
    <2>3. Caught(page)'
      BY <2>1 DEF Caught, Idle
    <2> QED
      BY <2>2, <2>3
  <1>9. ASSUME NEW g \in Family, ReadMatches(g) PROVE (\A f \in Family : Fresh(f)') /\ Caught(page)'
    <2>1. Fetched(g) \in Data /\ Fetched(g) # None
      BY FetchedTypes, ApplicationsAssumption DEF TypeOK
    <2>2. Same(g, Fetched(g))
      <3>1. \A m \in Match : Fetched(g)[m] = Seen(g, srv[m])
        BY DEF Fetched
      <3>2. g = "deck" => \A m \in Match : Fetched(g)[m].applied = srv[m].applied
        <4>1. \A w \in Row : Seen("deck", w).applied = w.applied
          BY DEF Seen, Row
        <4> QED
          BY <3>1, <4>1 DEF TypeOK, Data
      <3> QED
        BY <3>1, <3>2 DEF Same
    <2>3. /\ answer'[g] = Fetched(g) /\ UNCHANGED <<page, view, stale, failed>>
          /\ \A f \in Family : f # g => /\ answer'[f] = answer[f] /\ (f \in asking <=> f \in asking')
                                      /\ (f \in overtaken <=> f \in overtaken')
      BY <1>0, <1>9 DEF ReadMatches, Cache
    <2>4. Fresh(g)'
      BY <1>5, <2>1, <2>2, <2>3 DEF Fresh
    <2>5. \A f \in Family : f # g => Fresh(f)'
      BY <1>4, <1>5, <1>6, <2>3 DEF Fresh
    <2>6. Caught(page)'
      BY <1>0, <1>4, <1>6, <2>1, <2>3 DEF Caught, Idle
    <2> QED
      BY <2>4, <2>5, <2>6
  <1>10. ASSUME NEW g \in Family, Deliver(g) PROVE (\A f \in Family : Fresh(f)') /\ Caught(page)'
    <2>1. /\ answer[g] # None /\ view'[g] = answer[g] /\ answer'[g] = None /\ g \notin stale'
          /\ UNCHANGED <<page, asking, overtaken>>
          /\ \A f \in Family : f # g => /\ answer'[f] = answer[f] /\ view'[f] = view[f]
                                      /\ (f \in stale <=> f \in stale')
                                      /\ (f \in failed <=> f \in failed')
      BY <1>0, <1>10 DEF Deliver, Cache
    <2>2. Fresh(g)'
      BY <1>4, <1>5, <1>6, <2>1 DEF Fresh
    <2>3. \A f \in Family : f # g => Fresh(f)'
      BY <1>4, <1>5, <1>6, <2>1 DEF Fresh
    <2>4. Caught(page)'
      BY <1>0, <1>4, <1>6, <2>1 DEF Caught, Idle
    <2> QED
      BY <2>2, <2>3, <2>4
  <1>11. ASSUME NEW g \in Family, FetchFails(g) PROVE (\A f \in Family : Fresh(f)') /\ Caught(page)'
    <2>1. /\ answer'[g] = None /\ g \in failed' /\ UNCHANGED <<page, view, stale, overtaken>>
          /\ \A f \in Family : f # g => /\ answer'[f] = answer[f] /\ (f \in asking <=> f \in asking')
                                      /\ (f \in failed <=> f \in failed')
      BY <1>0, <1>11 DEF FetchFails, Cache
    <2>2. \A f \in Family : Fresh(f)'
      BY <1>4, <1>5, <1>6, <2>1 DEF Fresh
    <2>3. Caught(page)'
      BY <1>0, <1>4, <1>6, <2>1 DEF Caught, Idle
    <2> QED
      BY <2>2, <2>3
  <1> QED
    BY <1>7, <1>8, <1>9, <1>10, <1>11 DEF QueryStep

(* The clicks.                                                             *)
LEMMA ClickTruthful ==
  ASSUME TypeOK, Underway, Truthful, NEW r \in Request, NEW m \in Match, Click(r, m)
  PROVE  Truthful'
PROOF
  <1> USE DEF querys
  <1>0. /\ view \in Cache /\ answer \in Cache /\ page \in Family
        /\ reply \in [Request -> {"none", "waiting", "away", "ok", "error"}]
        /\ req \in [Request -> {"idle", "sent", "check", "advance", "done", "error"}]
        /\ call \in [Request -> Call \cup {None}]
    BY DEF TypeOK, Cache
  <1>1. UNCHANGED <<srv, unseen, page, overtaken>>
    BY DEF Click, MarkApplied, ChangeStatus, Swipe
  <1>2. SUFFICES ASSUME unseen = {} PROVE (\A f \in Family : Fresh(f)') /\ Caught(page)'
    BY <1>1 DEF Truthful
  <1>5. \A f \in Family : \A d : Same(f, d) => Same(f, d)'
    BY <1>1 DEF Same
  <1>6. (\A f \in Family : Fresh(f)) /\ Caught(page)
    BY <1>2 DEF Truthful
  <1>7. CASE MarkApplied(r, m)
    <2>1. call'[r].kind = "apply" /\ reply'[r] = "waiting"
      BY <1>0, <1>7 DEF MarkApplied, Start
    <2>2. \A f : Pending(f)'
      BY <2>1 DEF Pending
    <2> QED
      BY <1>1, <2>2 DEF Fresh, Caught
  <1>8. ASSUME NEW k, NEW b, NEW s, Start(r, k, m, b, s)
        PROVE  \A f \in Family : Pending(f) => Pending(f)'
    <2>1. /\ reply[r] = "none"
          /\ \A q \in Request : q # r => call'[q] = call[q] /\ reply'[q] = reply[q] /\ req'[q] = req[q]
      BY <1>0, <1>8 DEF Start
    <2> QED
      BY <2>1 DEF Pending
  <1>9. CASE ChangeStatus(r, m)
    <2>1. (\A f \in Family : Pending(f) => Pending(f)')
          /\ UNCHANGED <<view, stale, failed, asking, answer>>
      BY <1>8, <1>9 DEF ChangeStatus
    <2> QED
      BY <1>0, <1>1, <1>5, <1>6, <2>1 DEF Fresh, Caught, Idle
  <1>10. CASE Swipe(r, m)
    <2>1. /\ \A f \in Family : Pending(f) => Pending(f)'
          /\ page = "deck" /\ view["deck"] # None /\ "deck" \notin failed
          /\ UNCHANGED <<asking, answer>>
      BY <1>8, <1>10 DEF Swipe, Start, OnPage
    <2>2. /\ view' = [view EXCEPT !["deck"][m].swiped = TRUE]
          /\ stale' = stale \ {"deck"} /\ failed' = failed \ {"deck"}
      BY <1>10 DEF Swipe
    <2>3. "deck" \in Family /\ view["deck"] \in Data
      BY <1>0, <2>1 DEF Family, Cache
    <2>4. /\ \A f \in Family : f # "deck" => view'[f] = view[f]
          /\ \A n \in Match : view'["deck"][n].applied = view["deck"][n].applied
      BY <1>0, <2>2, <2>3 DEF Cache, Data, Row
    <2>5. \A f \in Family : f # "deck" => Fresh(f)'
      BY <1>1, <1>5, <1>6, <2>1, <2>2, <2>4 DEF Fresh
    <2>6. Same("deck", view["deck"]) => Same("deck", view["deck"])' /\ Same("deck", view'["deck"])
      BY <1>1, <2>4 DEF Same
    <2>7. Fresh("deck")'
      <3>1. "deck" \in stale => ~Idle("deck") \/ "deck" \in overtaken \/ Pending("deck")
        BY <1>6, <2>1 DEF Caught
      <3>2. Same("deck", view["deck"]) => Same("deck", view["deck"])'
        BY <1>1, <2>4 DEF Same
      <3> QED
        BY <1>1, <1>5, <1>6, <2>1, <2>3, <3>1, <3>2 DEF Fresh, Idle
    <2>8. Caught(page)'
      BY <1>1, <2>1, <2>2 DEF Caught
    <2> QED
      BY <2>5, <2>7, <2>8
  <1> QED
    BY <1>7, <1>9, <1>10 DEF Click

(* The server.                                                             *)
LEMMA ServeTruthful ==
  ASSUME TypeOK, Underway, Truthful, NEW r \in Request, Serve(r) \/ ServerFails(r)
  PROVE  Truthful'
PROOF
  <1> USE DEF querys
  <1>0. /\ req \in [Request -> {"idle", "sent", "check", "advance", "done", "error"}]
        /\ srv \in Data
    BY DEF TypeOK
  <1>1. /\ UNCHANGED <<call, reply, unseen, view, stale, failed, asking, answer, page, overtaken>>
        /\ req[r] \in {"sent", "check", "advance"}
    BY DEF Serve, ServeApplied, CheckStatus, Advance, ServeOther, ServerFails
  <1>2. SUFFICES ASSUME unseen = {} PROVE (\A f \in Family : Fresh(f)') /\ Caught(page)'
    BY <1>1 DEF Truthful
  <1>3. reply[r] \in {"waiting", "away"} /\ call[r] \in Call
    BY <1>1, <1>2 DEF Underway
  <1>4. \A q \in Request : q # r => req'[q] = req[q]
    BY <1>0 DEF Serve, ServeApplied, CheckStatus, Advance, ServeOther, ServerFails
  <1>5. \A f \in Family : Pending(f) => Pending(f)'
    BY <1>1, <1>4 DEF Pending
  <1>6. (\A f \in Family : Fresh(f)) /\ Caught(page)
    BY <1>2 DEF Truthful
  <1>c. Caught(page)'
    BY <1>1, <1>5, <1>6 DEF Caught, Idle, TypeOK
  <1>7. CASE call[r].kind = "apply"
    <2>1. \A f : Pending(f)'
      BY <1>1, <1>3, <1>7 DEF Pending
    <2> QED
      BY <1>c, <2>1 DEF Fresh
  <1>8. ASSUME NEW f \in Family, call[r].kind # "apply" PROVE Fresh(f)'
    <2>1. req[r] = "sent" /\ call[r].kind \in {"move", "swipe"} /\ call[r].match \in Match
      BY <1>1, <1>3, <1>8 DEF Underway, Call, Kind
    <2>2. CASE ServerFails(r)
      <3>1. \A d : Same(f, d) => Same(f, d)'
        BY <2>2 DEF ServerFails, Same
      <3> QED
        BY <1>1, <1>5, <1>6, <3>1 DEF Fresh
    <2>3. CASE ServeOther(r) /\ call[r].kind = "move"
      <3>1. srv' = [srv EXCEPT ![call[r].match].status = call[r].to] /\ req'[r] = "done"
        BY <1>0, <2>3 DEF ServeOther
      <3>2. CASE f = "tracker"
        BY <1>1, <1>3, <2>3, <3>1, <3>2 DEF Fresh, Pending
      <3>3. CASE f # "tracker"
        <4>1. call[r].to \in Status
          BY <1>3 DEF Call
        <4>2. \A m \in Match : srv'[m] \in Row /\ srv'[m].applied = srv[m].applied
          BY <1>0, <2>1, <3>1, <4>1 DEF Data, Row
        <4>3. \A d : Same(f, d) => Same(f, d)'
          BY <3>3, <4>2, SameKept
        <4> QED
          BY <1>1, <1>5, <1>6, <4>3 DEF Fresh
      <3> QED
        BY <3>2, <3>3
    <2>4. CASE ServeOther(r) /\ call[r].kind = "swipe"
      <3>1. srv' = [srv EXCEPT ![call[r].match].swiped = TRUE]
        BY <2>4 DEF ServeOther
      <3>2. \A m \in Match : /\ srv'[m] \in Row /\ srv'[m].applied = srv[m].applied
                             /\ srv'[m].status = srv[m].status
        BY <1>0, <2>1, <3>1 DEF Data, Row
      <3>3. \A d : Same(f, d) => Same(f, d)'
        BY <3>2, SameKept
      <3> QED
        BY <1>1, <1>5, <1>6, <3>3 DEF Fresh
    <2> QED
      BY <1>8, <2>1, <2>2, <2>3, <2>4 DEF Serve, ServeApplied, CheckStatus, Advance
  <1> QED
    BY <1>c, <1>7, <1>8

(* What the end of a mutation does, by how it ended.                       *)
LEMMA SettleOk ==
  ASSUME TypeOK, NEW r \in Request, Settle(r, TRUE)
  PROVE  /\ UNCHANGED <<srv, page>> /\ reply' = [reply EXCEPT ![r] = "ok"]
         /\ call[r].kind = "apply" => Invalidate(Family, view)
         /\ call[r].kind = "move" => Invalidate({"tracker"}, view) /\ failed' = failed
         /\ call[r].kind \notin {"apply", "move"}
              => UNCHANGED <<view, stale, failed, asking, answer, overtaken>>
PROOF
  <1>1. UNCHANGED <<srv, page>> /\ reply' = [reply EXCEPT ![r] = "ok"]
    BY DEF Settle
  <1>2. CASE call[r].kind = "apply"
    BY <1>1, <1>2 DEF Settle
  <1>3. CASE call[r].kind = "move"
    BY <1>1, <1>3 DEF Settle
  <1>4. CASE call[r].kind \notin {"apply", "move"}
    BY <1>1, <1>4 DEF Settle
  <1> QED
    BY <1>2, <1>3, <1>4

(* A mutation that failed: only a mark does anything more.                 *)
LEMMA SettleFailed ==
  ASSUME TypeOK, NEW r \in Request, Settle(r, FALSE)
  PROVE  /\ UNCHANGED <<srv, page>> /\ reply' = [reply EXCEPT ![r] = "error"]
         /\ call[r].kind = "apply" => Invalidate(Family, Restored(r))
         /\ call[r].kind # "apply"
              => UNCHANGED <<view, stale, failed, asking, answer, overtaken>>
PROOF
  <1>1. UNCHANGED <<srv, page>> /\ reply' = [reply EXCEPT ![r] = "error"]
    BY DEF Settle
  <1>2. CASE call[r].kind = "apply"
    BY <1>1, <1>2 DEF Settle
  <1>3. CASE call[r].kind # "apply"
    BY <1>1, <1>3 DEF Settle
  <1> QED
    BY <1>2, <1>3

(* An invalidation of all three, or of the tracker, keeps what is shown    *)
(* true.                                                                   *)
LEMMA AllInvalidated ==
  ASSUME TypeOK, NEW v \in Cache, Invalidate(Family, v), page' = page
  PROVE  (\A f \in Family : Fresh(f)') /\ Caught(page)'
PROOF
  <1>1. page \in Family
    BY DEF TypeOK
  <1>2. /\ \A f \in Family : Outdated(f)'
        /\ page \in stale' => page \in asking'
    BY <1>1, InvalidateFresh
  <1>3. \A f \in Family : Fresh(f)'
    BY <1>2 DEF Fresh, Outdated
  <1>4. Caught(page)'
    BY <1>2 DEF Caught, Idle
  <1> QED
    BY <1>3, <1>4

(* The tracker alone: the other families are as they were.                 *)
LEMMA TrackerInvalidated ==
  ASSUME TypeOK, Invalidate({"tracker"}, view), UNCHANGED <<page, failed, srv>>,
         \A f \in Family : Fresh(f), Caught(page),
         \A f \in Family \ {"tracker"} : Pending(f) => Pending(f)'
  PROVE  (\A f \in Family : Fresh(f)') /\ Caught(page)'
PROOF
  <1> DEFINE T == {"tracker"}
  <1>1. page \in Family /\ T \in SUBSET Family /\ view \in Cache
    BY DEF TypeOK, Family, Cache
  <1>2. Invalidate(T, view)
    OBVIOUS
  <1> HIDE DEF T
  <1>3. /\ \A f \in T : Outdated(f)'
        /\ page \in T /\ page \in stale' => page \in asking'
        /\ \A f \in Family \ T : /\ f \in asking => f \in asking'
                                 /\ answer'[f] = answer[f] /\ view'[f] = view[f]
                                 /\ (f \in stale <=> f \in stale')
                                 /\ f \in overtaken => f \in overtaken'
    BY <1>1, <1>2, InvalidateFresh
  <1>4. \A f \in Family : \A d : Same(f, d) => Same(f, d)'
    BY DEF Same
  <1>5. T = {"tracker"}
    BY DEF T
  <1>6. Fresh("tracker")'
    BY <1>3, <1>5 DEF Fresh, Outdated
  <1>7. ASSUME NEW f \in Family, f # "tracker" PROVE Fresh(f)'
    BY <1>3, <1>4, <1>5, <1>7 DEF Fresh
  <1>8. CASE page = "tracker"
    BY <1>3, <1>5, <1>6, <1>7, <1>8 DEF Caught, Idle
  <1>9. CASE page # "tracker"
    <2>1. Caught(page)'
      BY <1>1, <1>3, <1>5, <1>9 DEF Caught, Idle
    <2> QED
      BY <1>6, <1>7, <2>1
  <1> QED
    BY <1>8, <1>9

(* And the end of a mutation.                                              *)
LEMMA SettleTruthful ==
  ASSUME TypeOK, Underway, Truthful, NEW r \in Request, Answer(r) \/ GiveUp(r)
  PROVE  Truthful'
PROOF
  <1>0. /\ reply \in [Request -> {"none", "waiting", "away", "ok", "error"}]
        /\ req \in [Request -> {"idle", "sent", "check", "advance", "done", "error"}]
        /\ view \in Cache /\ answer \in Cache /\ page \in Family /\ call \in [Request -> Call \cup {None}]
    BY DEF TypeOK, Cache
  <1>1. \/ Answer(r) /\ req[r] = "done" /\ Settle(r, TRUE)
        \/ Answer(r) /\ req[r] = "error" /\ Settle(r, FALSE)
        \/ ~Answer(r) /\ Settle(r, FALSE)
    <2>1. CASE Answer(r) /\ req[r] = "done"
      <3>1. (req[r] = "done") = TRUE
        BY <2>1
      <3> QED
        BY <2>1, <3>1 DEF Answer
    <2>2. CASE Answer(r) /\ req[r] = "error"
      <3>1. (req[r] = "done") = FALSE
        BY <2>2
      <3> QED
        BY <2>2, <3>1 DEF Answer
    <2> QED
      BY <2>1, <2>2 DEF Answer, GiveUp
  <1>2. UNCHANGED <<srv, page>> /\ (reply' = [reply EXCEPT ![r] = "ok"] \/ reply' = [reply EXCEPT ![r] = "error"])
    BY <1>1, SettleOk, SettleFailed
  <1>u. unseen \subseteq unseen' /\ (unseen' = {} => Answer(r) \/ call[r].kind = "apply")
    BY DEF Answer, GiveUp
  <1>3. SUFFICES ASSUME unseen' = {} PROVE (\A f \in Family : Fresh(f)') /\ Caught(page)'
    BY DEF Truthful
  <1>4. (\A f \in Family : Fresh(f)) /\ Caught(page)
    BY <1>u, <1>3 DEF Truthful
  <1>5. \A f \in Family : \A d : Same(f, d) => Same(f, d)'
    BY <1>2 DEF Same
  <1>6. \A q \in Request : q # r => reply'[q] = reply[q] /\ req'[q] = req[q] /\ call'[q] = call[q]
    <2>1. /\ req' = req \/ req' = [req EXCEPT ![r] = "idle"]
          /\ call' = call \/ call' = [call EXCEPT ![r] = None]
      BY DEF Answer, GiveUp
    <2> QED
      BY <1>0, <1>2, <2>1
  <1>7. Restored(r) \in Cache
    BY <1>0 DEF TypeOK, Restored, Cache
  <1>8. CASE call[r].kind = "apply"
    <2>1. Invalidate(Family, view) \/ Invalidate(Family, Restored(r))
      BY <1>1, <1>8, SettleOk, SettleFailed
    <2> QED
      BY <1>0, <1>2, <1>7, <2>1, AllInvalidated
  <1>9. CASE call[r].kind = "move" /\ Settle(r, TRUE)
    <2>1. Invalidate({"tracker"}, view) /\ failed' = failed
      BY <1>9, SettleOk
    <2>2. \A f \in Family \ {"tracker"} : Pending(f) => Pending(f)'
      BY <1>6, <1>9 DEF Pending
    <2> QED
      BY <1>2, <1>4, <2>1, <2>2, TrackerInvalidated
  <1>10. CASE /\ call[r].kind # "apply"
              /\ call[r].kind = "move" => req[r] = "error" /\ Settle(r, FALSE)
    <2>1. UNCHANGED <<view, stale, failed, asking, answer, overtaken>>
      BY <1>1, <1>10, SettleOk, SettleFailed
    <2>2. \A f \in Family : Pending(f) => Pending(f)'
      BY <1>6, <1>10 DEF Pending
    <2>3. \A f \in Family : Fresh(f)'
      BY <1>4, <1>5, <2>1, <2>2 DEF Fresh
    <2>4. Caught(page)'
      BY <1>0, <1>2, <1>4, <2>1, <2>2 DEF Caught, Idle
    <2> QED
      BY <2>3, <2>4
  <1> QED
    BY <1>1, <1>3, <1>u, <1>8, <1>9, <1>10

(* Once every click is answered and nothing is being fetched, the open page*)
(* shows what the server holds, roll-backs and overtaken fetches included. *)
THEOREM PageIsTrueAlways == Spec => []PageIsTrue
PROOF
  <1>1. Init => Truthful
    BY DEF Init, Truthful, Fresh, Caught, NoSnap, Family
  <1>2. TypeOK /\ Underway /\ Truthful /\ [Next]_vars => Truthful'
    <2>1. CASE UNCHANGED vars
      BY <2>1 DEF Truthful, Fresh, Caught, Same, Pending, Idle, vars, querys, calls
    <2>2. ASSUME TypeOK, Underway, Truthful, Next PROVE Truthful'
      BY <2>2, QueryTruthful, ClickTruthful, ServeTruthful, SettleTruthful DEF Next, QueryStep
    <2> QED
      BY <2>1, <2>2
  <1>3. TypeOK /\ Truthful => PageIsTrue
    <2>1. SUFFICES ASSUME TypeOK, Truthful, Quiet, unseen = {}, page \notin overtaken, Idle(page),
                          view[page] # None, page \notin failed, NEW m \in Match
                   PROVE  /\ page # "deck" => view[page][m] = Seen(page, srv[m])
                          /\ page = "deck" => view[page][m].applied = srv[m].applied
      BY DEF PageIsTrue
    <2>2. page \in Family /\ Fresh(page) /\ Caught(page) /\ ~Pending(page)
      BY <2>1 DEF Truthful, TypeOK, Quiet, Pending
    <2>3. Same(page, view[page])
      BY <2>1, <2>2 DEF Fresh, Caught, Idle
    <2> QED
      BY <2>3 DEF Same
  <1> QED
    BY <1>1, <1>2, <1>3, TypeCorrect, PTL DEF Spec
=============================================================================
