---------------------------- MODULE Applications ----------------------------
(***************************************************************************)
(* A candidate's job matches on three pages of the browser (the list of    *)
(* matches, the swipe deck, the application tracker), each with a cached   *)
(* copy of what the server holds, and the requests that change a match:    *)
(* mark as applied, set the status, swipe.                                 *)
(***************************************************************************)
EXTENDS Naturals, FiniteSets

CONSTANTS
  Match,     \* the candidate's matches
  Request,   \* mutations, each used once
  Kinds,     \* which of "apply", "move", "swipe" they may be
  Env,       \* disturbances: "net", "server", "late"
  MaxFaults, \* bound: how many of them happen
  MaxVisits, \* bound: how often another page is opened or a fetch asked for
  None       \* no data

Family == {"list", "tracker", "deck"}
Status == {"new", "applied", "interview"} \* the first two of six, and a later one
Kind   == {"apply", "move", "swipe"}
Row    == [applied : BOOLEAN, status : Status, swiped : BOOLEAN]
Data   == [Match -> Row]

ASSUME ApplicationsAssumption ==
  /\ Kinds \subseteq Kind /\ Env \subseteq {"net", "server", "late"}
  /\ MaxFaults \in Nat /\ MaxVisits \in Nat /\ None \notin Data

VARIABLES
  srv,     \* the job_matches rows and whether there is a swipe for them
  view,    \* [Family -> cached data, or None]
  stale,   \* families invalidated while no page showed them
  failed,  \* families whose last fetch failed
  asking,  \* families with a fetch the server has not answered
  answer,  \* [Family -> answer on its way, or None]
  page,    \* the family whose page is open
  visits,  \* pages opened and fetches asked for so far
  call,    \* [Request -> what it asks for, or None]
  req,     \* [Request -> progress on the server]
  reply,   \* [Request -> what the browser knows of it]
  snap,    \* [Request -> snapshots taken by useMarkApplied]
  overtaken, \* history: families whose answer under way an invalidation left alone
  excused, \* history: matches set back to "new", or whose mark broke off
  unseen,  \* history: requests reported as failed that changed something
  faults   \* disturbances so far

querys == <<view, stale, failed, asking, answer, page, visits, overtaken>>
calls  == <<call, req, reply, snap, excused, unseen>>
vars   == <<srv, querys, calls, faults>>

Call == [kind : Kind, match : Match, on : BOOLEAN, to : Status]
NoSnap == [f \in Family |-> None]

TypeOK ==
  /\ srv \in Data
  /\ view \in [Family -> Data \cup {None}] /\ answer \in [Family -> Data \cup {None}]
  /\ overtaken \subseteq Family /\ stale \subseteq Family /\ failed \subseteq Family /\ asking \subseteq Family
  /\ page \in Family /\ visits \in 0..MaxVisits
  /\ call \in [Request -> Call \cup {None}]
  /\ req \in [Request -> {"idle", "sent", "check", "advance", "done", "error"}]
  /\ reply \in [Request -> {"none", "waiting", "away", "ok", "error"}]
  /\ snap \in [Request -> [Family -> Data \cup {None}]]
  /\ excused \subseteq Match /\ unseen \subseteq Request /\ faults \in 0..MaxFaults

(* What a page shows of a row; what it does not show is left at a default. *)
Seen(f, w) ==
  CASE f = "list"    -> [w EXCEPT !.status = "new", !.swiped = FALSE]
    [] f = "tracker" -> [w EXCEPT !.swiped = FALSE]
    [] f = "deck"    -> [w EXCEPT !.status = "new"]
Fetched(f) == [m \in Match |-> Seen(f, srv[m])]

Init ==
  /\ srv = [m \in Match |-> [applied |-> FALSE, status |-> "new", swiped |-> FALSE]]
  /\ view = NoSnap /\ answer = NoSnap
  /\ stale = {} /\ failed = {} /\ overtaken = {}
  /\ page \in Family /\ asking = {page} /\ visits = 0
  /\ call = [r \in Request |-> None]
  /\ req = [r \in Request |-> "idle"] /\ reply = [r \in Request |-> "none"]
  /\ snap = [r \in Request |-> NoSnap]
  /\ excused = {} /\ unseen = {} /\ faults = 0

Disturb(kind) == kind \in Env /\ faults < MaxFaults /\ faults' = faults + 1

-----------------------------------------------------------------------------
(* The query cache.                                                        *)

Idle(f) == f \notin asking /\ answer[f] = None

(* A page that opens fetches what it has not, what was invalidated, and    *)
(* what is older than 30 s; rows of the page that closes are gone.         *)
Visit(f) ==
  /\ f # page /\ page' = f
  /\ visits < MaxVisits /\ visits' = visits + 1
  /\ \/ Idle(f) /\ asking' = asking \cup {f}
     \/ /\ ~Idle(f) \/ (view[f] # None /\ f \notin stale)
        /\ UNCHANGED asking
  /\ reply' = [r \in Request |-> IF reply[r] = "waiting" THEN "away" ELSE reply[r]]
  /\ UNCHANGED <<srv, view, stale, failed, answer, overtaken, call, req, snap, excused, unseen, faults>>

(* The list is polled every 60 s; "Load more" and "Retry" fetch the others.*)
Refetch ==
  /\ Idle(page)
  /\ visits < MaxVisits /\ visits' = visits + 1
  /\ asking' = asking \cup {page}
  /\ UNCHANGED <<srv, view, stale, failed, answer, page, overtaken, calls, faults>>

ReadMatches(f) ==
  /\ f \in asking
  /\ asking' = asking \ {f}
  /\ answer' = [answer EXCEPT ![f] = Fetched(f)]
  /\ overtaken' = overtaken \ {f}
  /\ UNCHANGED <<srv, view, stale, failed, page, visits, calls, faults>>

Deliver(f) ==
  /\ answer[f] # None
  /\ view' = [view EXCEPT ![f] = answer[f]]
  /\ answer' = [answer EXCEPT ![f] = None]
  /\ stale' = stale \ {f} /\ failed' = failed \ {f}
  /\ UNCHANGED <<srv, asking, page, visits, overtaken, calls, faults>>

FetchFails(f) ==
  /\ ~Idle(f) /\ Disturb("net")
  /\ asking' = asking \ {f} /\ answer' = [answer EXCEPT ![f] = None]
  /\ failed' = failed \cup {f}
  /\ UNCHANGED <<srv, view, stale, page, visits, overtaken, calls>>

(* Fault: a fetch under way is taken for the new one.                      *)
Invalidate_Join(F, v) ==
  LET held == {f \in F : v[f] # None}
      open == F \cap {page}
  IN /\ asking' = asking \cup {f \in open : Idle(f)} /\ UNCHANGED answer
     /\ stale' = (stale \cup F) \ {f \in F : v[f] = None}
     /\ view' = v
     /\ overtaken' = overtaken \cup {f \in F : answer[f] # None /\ f \notin open \cap held}

(* invalidateQueries: the fetch of the open page is cancelled and repeated,*)
(* unless it is its first; other families are only marked.                 *)
Invalidate(F, v) ==
  LET held == {f \in F : v[f] # None}
      open == F \cap {page}
  IN /\ asking' = asking \cup {f \in open : f \in held \/ Idle(f)}
     /\ answer' = [f \in Family |-> IF f \in open \cap held THEN None ELSE answer[f]]
     /\ stale' = (stale \cup F) \ {f \in F : v[f] = None}
     /\ view' = v
     /\ overtaken' = overtaken \cup {f \in F : answer[f] # None /\ f \notin open \cap held}

-----------------------------------------------------------------------------
(* The mutations as the pages start them.                                  *)

OnPage(m) == /\ view[page] # None /\ page \notin failed /\ ~view[page][m].swiped

Start(r, k, m, b, s) ==
  /\ k \in Kinds /\ reply[r] = "none" /\ OnPage(m)
  /\ call' = [call EXCEPT ![r] = [kind |-> k, match |-> m, on |-> b, to |-> s]]
  /\ req' = [req EXCEPT ![r] = "sent"]
  /\ reply' = [reply EXCEPT ![r] = "waiting"]

(* Data set by hand count as fetched now and without error.                *)
Patched(m, b) ==
  [f \in Family |-> IF view[f] = None THEN None ELSE [view[f] EXCEPT ![m].applied = b]]
Held == {f \in Family : view[f] # None}

(* useMarkApplied: fetches are cancelled, snapshots taken, the three caches*)
(* patched.                                                                *)
MarkApplied(r, m) ==
  /\ Start(r, "apply", m, ~view[page][m].applied, "applied")
  /\ asking' = {} /\ answer' = NoSnap
  /\ snap' = [snap EXCEPT ![r] = view]
  /\ view' = Patched(m, ~view[page][m].applied)
  /\ stale' = stale \ Held /\ failed' = failed \ Held
  /\ UNCHANGED <<srv, page, visits, overtaken, excused, unseen, faults>>

(* The select of a row is disabled while its change is pending.            *)
ChangeStatus(r, m) ==
  /\ page = "tracker" /\ OnPage(m)
  /\ ~\E q \in Request : /\ reply[q] = "waiting"
                         /\ call[q].kind = "move" /\ call[q].match = m
  /\ \E s \in Status \ {view[page][m].status} : Start(r, "move", m, FALSE, s)
  /\ UNCHANGED <<srv, querys, snap, excused, unseen, faults>>

(* useSubmitSwipe removes the card; fetches under way go on.               *)
Swipe(r, m) ==
  /\ page = "deck"
  /\ Start(r, "swipe", m, TRUE, "new")
  /\ view' = [view EXCEPT !["deck"][m].swiped = TRUE]
  /\ stale' = stale \ {"deck"} /\ failed' = failed \ {"deck"}
  /\ UNCHANGED <<srv, asking, answer, page, visits, overtaken, snap, excused, unseen, faults>>

-----------------------------------------------------------------------------
(* The server.  Marking as applied takes three steps, the others one.      *)

ServeApplied(r) ==
  /\ req[r] = "sent" /\ call[r].kind = "apply"
  /\ srv' = [srv EXCEPT ![call[r].match].applied = call[r].on]
  /\ req' = [req EXCEPT ![r] = IF call[r].on THEN "check" ELSE "done"]
  /\ UNCHANGED <<querys, call, reply, snap, excused, unseen, faults>>

(* Fault: the test is the wrong way round.                                 *)
CheckStatus_Swapped(r) ==
  /\ req[r] = "check"
  /\ req' = [req EXCEPT ![r] = IF srv[call[r].match].status # "new" THEN "advance" ELSE "done"]
  /\ UNCHANGED <<srv, querys, call, reply, snap, excused, unseen, faults>>

CheckStatus(r) ==
  /\ req[r] = "check"
  /\ req' = [req EXCEPT ![r] = IF srv[call[r].match].status = "new" THEN "advance" ELSE "done"]
  /\ UNCHANGED <<srv, querys, call, reply, snap, excused, unseen, faults>>

(* Fault: a status the tracker does not know.                              *)
Advance_Unknown(r) ==
  /\ req[r] = "advance"
  /\ srv' = [srv EXCEPT ![call[r].match].status = "submitted"]
  /\ req' = [req EXCEPT ![r] = "done"]
  /\ UNCHANGED <<querys, call, reply, snap, excused, unseen, faults>>

Advance(r) ==
  /\ req[r] = "advance"
  /\ srv' = [srv EXCEPT ![call[r].match].status = "applied"]
  /\ req' = [req EXCEPT ![r] = "done"]
  /\ UNCHANGED <<querys, call, reply, snap, excused, unseen, faults>>

ServeOther(r) ==
  LET c == call[r] IN
  /\ req[r] = "sent" /\ c.kind # "apply"
  /\ srv' = CASE c.kind = "move"  -> [srv EXCEPT ![c.match].status = c.to]
               [] c.kind = "swipe" -> [srv EXCEPT ![c.match].swiped = TRUE]
  /\ req' = [req EXCEPT ![r] = "done"]
  /\ excused' = IF c.kind = "move" /\ c.to = "new" THEN excused \cup {c.match} ELSE excused
  /\ UNCHANGED <<querys, call, reply, snap, unseen, faults>>

ServerFails(r) ==
  /\ req[r] \in {"sent", "check", "advance"} /\ Disturb("server")
  /\ req' = [req EXCEPT ![r] = "error"]
  /\ excused' = IF req[r] = "sent" THEN excused ELSE excused \cup {call[r].match}
  /\ UNCHANGED <<srv, querys, call, reply, snap, unseen>>

-----------------------------------------------------------------------------
(* The browser learns what became of a mutation.  Only a failed mark rolls *)
(* back, and what was not cached when it began stays as it is.             *)
Restored(r) == [f \in Family |-> IF snap[r][f] = None THEN view[f] ELSE snap[r][f]]

Settle(r, ok) ==
  LET k == call[r].kind IN
  /\ reply[r] \in {"waiting", "away"}
  /\ reply' = [reply EXCEPT ![r] = IF ok THEN "ok" ELSE "error"]
  /\ snap' = [snap EXCEPT ![r] = NoSnap]
  /\ CASE k = "apply" ->
             /\ Invalidate(Family, IF ok THEN view ELSE Restored(r))
             /\ failed' = IF ok THEN failed ELSE {f \in failed : snap[r][f] = None}
       [] k = "move" /\ ok -> Invalidate({"tracker"}, view) /\ UNCHANGED failed
       [] OTHER -> UNCHANGED <<view, stale, failed, asking, answer, overtaken>>
  /\ UNCHANGED <<srv, page, visits, excused>>

Answer(r) ==
  /\ req[r] \in {"done", "error"}
  /\ Settle(r, req[r] = "done")
  /\ call' = IF call[r].kind = "swipe" /\ req[r] = "error" THEN call ELSE [call EXCEPT ![r] = None]
  /\ req' = [req EXCEPT ![r] = "idle"]
  /\ UNCHANGED <<unseen, faults>>

(* The proxy gives up after 30 s, or the connection breaks; the server goes*)
(* on.                                                                     *)
GiveUp(r) ==
  /\ req[r] # "idle" /\ Disturb("late")
  /\ Settle(r, FALSE)
  /\ unseen' = IF call[r].kind = "apply" /\ req[r] \in {"done", "error"}
                 THEN unseen ELSE unseen \cup {r}
  /\ UNCHANGED <<call, req>>

-----------------------------------------------------------------------------
Click(r, m) == MarkApplied(r, m) \/ ChangeStatus(r, m) \/ Swipe(r, m)
Serve(r) == ServeApplied(r) \/ CheckStatus(r) \/ Advance(r) \/ ServeOther(r)

Next ==
  \/ Refetch
  \/ \E f \in Family : Visit(f) \/ ReadMatches(f) \/ Deliver(f) \/ FetchFails(f)
  \/ \E r \in Request :
       \/ \E m \in Match : Click(r, m)
       \/ Serve(r) \/ ServerFails(r) \/ Answer(r) \/ GiveUp(r)

Spec == Init /\ [][Next]_vars

-----------------------------------------------------------------------------
Quiet == \A r \in Request : reply[r] \in {"none", "ok", "error"}

(* Once every click is answered and nothing is being fetched, the open page*)
(* shows what the server holds, roll-backs and overtaken fetches included. *)
PageIsTrue ==
  Quiet /\ unseen = {} /\ page \notin overtaken /\ Idle(page) /\ view[page] # None /\ page \notin failed
    => \A m \in Match :
         /\ page # "deck" => view[page][m] = Seen(page, srv[m])
         /\ page = "deck" => view[page][m].applied = srv[m].applied

(* A match marked as applied has left "new", unless a mark is midway or    *)
(* broke off, or the candidate put it back.                                *)
AppliedMovesOn ==
  \A m \in Match :
    srv[m].applied /\ srv[m].status = "new"
      => \/ m \in excused
         \/ \E r \in Request : req[r] \in {"check", "advance"} /\ call[r].match = m

(* job_matching/service.py:199-202: mark-applied never downgrades a        *)
(* further-along status.                                                   *)
Rank(s) == CASE s = "new" -> 0 [] s = "applied" -> 1 [] s = "interview" -> 2
NeverDowngraded ==
  [][\A m \in Match :
       Rank(srv'[m].status) < Rank(srv[m].status)
         => \E r \in Request : call[r] # None /\ call[r].kind = "move" /\ req[r] = "sent"]_vars
=============================================================================
