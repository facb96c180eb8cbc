------------------------------- MODULE CvChat -------------------------------
(***************************************************************************)
(* The chat that completes a CV: tabs that start or resume a chat and send *)
(* answers, requests that hold their own copies of the chat and of the     *)
(* extracted data across calls of the language model, and the row of the   *)
(* document they all write back.                                           *)
(***************************************************************************)
EXTENDS Naturals, FiniteSets

CONSTANTS
  Required,    \* fields a CV must have
  Optional,    \* PROGRESSIVE_FIELDS, asked once the required ones are known
  Numeric,     \* fields whose answer may not parse and is then stored as null
  TipFields,   \* fields the prep-strategy suggestion waits for
  Tab,         \* open pages of one document; each has one request at a time
  Chat,        \* rows of cv_chat_sessions
  MaxTurns     \* cv_chat_max_turns

Field == Required \cup Optional
None == "none"

ASSUME ChatAssumption ==
  /\ IsFiniteSet(Tab) /\ None \notin Chat /\ Required \cap Optional = {}
  /\ Numeric \subseteq Field /\ TipFields \subseteq Optional
  /\ MaxTurns \in Nat \ {0}

VARIABLES
  filled,  \* fields with a value in the document's extracted_data
  tip,     \* whether extracted_data holds the suggestion
  chat,    \* [Chat -> its row and the number of its messages]
  pc,      \* [Tab -> progress of the request the tab sent]
  target,  \* [Tab -> the chat its request is about]
  mine,    \* [Tab -> its copies of resolved fields and data, the field answered]
  view,    \* [Tab -> the chat the tab shows, with the status it was told]
  overlap, \* history: a request read the data while another held a copy
  said,    \* history, until then: [Field -> what the last stored answer was]
  twins    \* history: a request looked for a chat while another had found none

docvars  == <<filled, tip, said, overlap>>
reqvars  == <<pc, target, mine>>
vars == <<docvars, chat, reqvars, view, twins>>

Status == {"none", "active", "completed", "abandoned"}
Row    == [status : Status, missing : SUBSET Required, resolved : SUBSET Field, messages : Nat]
Step   == {"idle", "create", "greet", "think", "save", "tip", "close"}
Copy   == [resolved : SUBSET Field, field : SUBSET Field, filled : SUBSET Field, tip : BOOLEAN]
NoCopy == [resolved |-> {}, field |-> {}, filled |-> {}, tip |-> FALSE]
NoView == [chat |-> None, status |-> "none"]

(* A request past the turn limit adds no message; those under way add      *)
(* three each.                                                             *)
TypeOK ==
  /\ filled \subseteq Field /\ tip \in BOOLEAN
  /\ chat \in [Chat -> Row]
  /\ \A c \in Chat : chat[c].messages < 2 * MaxTurns + 3 * Cardinality(Tab)
  /\ pc \in [Tab -> Step] /\ target \in [Tab -> Chat \cup {None}] /\ mine \in [Tab -> Copy]
  /\ view \in [Tab -> [chat : Chat \cup {None}, status : Status]]
  /\ said \in [Field -> {"nothing", "usable", "unusable"}]
  /\ overlap \in BOOLEAN /\ twins \in BOOLEAN

Init ==
  /\ filled \in SUBSET Required /\ tip = FALSE
  /\ chat = [c \in Chat |-> [status |-> "none", missing |-> {}, resolved |-> {}, messages |-> 0]]
  /\ pc = [t \in Tab |-> "idle"] /\ target = [t \in Tab |-> None] /\ mine = [t \in Tab |-> NoCopy]
  /\ view = [t \in Tab |-> NoView]
  /\ said = [f \in Field |-> "nothing"]
  /\ overlap = FALSE /\ twins = FALSE

Goto(t, step) == pc' = [pc EXCEPT ![t] = step]
Active == {c \in Chat : chat[c].status = "active"}

(* The request ends, and the tab shows what it was told.                   *)
Finish(t) ==
  /\ Goto(t, "idle")
  /\ target' = [target EXCEPT ![t] = None] /\ mine' = [mine EXCEPT ![t] = NoCopy]
Show(t, c, status) == view' = [view EXCEPT ![t] = [chat |-> c, status |-> status]]

(* Fault: the optional fields are not asked for.                           *)
Unresolved_Required(c, resolved) == chat[c].missing \ resolved

(* Optional fields are asked for even if the document has them.            *)
Unresolved(c, resolved) == (chat[c].missing \cup Optional) \ resolved

-----------------------------------------------------------------------------
(* CvChatService.start_session.                                            *)

(* Fault: a chat nobody has answered in yet is not looked for.             *)
Start_Forgetful(t) ==
  LET open == {c \in Active : chat[c].resolved # {}} IN
  /\ pc[t] = "idle" /\ Cardinality(Active) <= 1
  /\ IF open # {}
       THEN \E c \in open : Show(t, c, "active") /\ UNCHANGED <<pc, twins>>
       ELSE /\ Goto(t, "create") /\ twins' = (twins \/ \E u \in Tab : pc[u] = "create")
            /\ view' = [view EXCEPT ![t] = NoView]
  /\ UNCHANGED <<docvars, chat, target, mine>>

(* A page opened anew shows no chat until it starts one.  With more than   *)
(* one active chat the query raises.                                       *)
Start(t) ==
  /\ pc[t] = "idle" /\ Cardinality(Active) <= 1
  /\ IF Active # {}
       THEN \E c \in Active : Show(t, c, "active") /\ UNCHANGED <<pc, twins>>
       ELSE /\ Goto(t, "create") /\ twins' = (twins \/ \E u \in Tab : pc[u] = "create")
            /\ view' = [view EXCEPT ![t] = NoView]
  /\ UNCHANGED <<docvars, chat, target, mine>>

Create(t, c) ==
  LET complete == filled = Field IN
  /\ pc[t] = "create" /\ chat[c].status = "none"
  /\ chat' = [chat EXCEPT ![c] = [status |-> IF complete THEN "completed" ELSE "active",
                                  missing |-> Required \ filled, resolved |-> {}, messages |-> 0]]
  /\ IF complete
       THEN Finish(t) /\ Show(t, c, "completed")
       ELSE /\ Goto(t, "greet") /\ target' = [target EXCEPT ![t] = c]
            /\ UNCHANGED <<mine, view>>
  /\ UNCHANGED <<docvars, twins>>

Greet(t) ==
  LET c == target[t] IN
  /\ pc[t] = "greet"
  /\ chat' = [chat EXCEPT ![c].messages = @ + 1]
  /\ Finish(t) /\ Show(t, c, "active")
  /\ UNCHANGED <<docvars, twins>>

-----------------------------------------------------------------------------
(* CvChatService.post_message.  The form is open while the tab was told    *)
(* that the chat is active.                                                *)

MayAnswer(t, c) == pc[t] = "idle" /\ view[t] = [chat |-> c, status |-> "active"]

(* A chat that is over: the tab reports an error and still shows it as     *)
(* active.                                                                 *)
Refuse(t, c) == MayAnswer(t, c) /\ chat[c].status # "active" /\ UNCHANGED vars

(* Fault: turns are compared with messages.                                *)
Full_Lenient(c) == chat[c].messages > 2 * MaxTurns + 1

Full(c) == chat[c].messages >= 2 * MaxTurns

(* Past the turn limit, or with nothing left to ask, the chat is closed    *)
(* and the answer refused; otherwise the message waits for the commit      *)
(* while the language model is called.                                     *)
Ask(t, c) ==
  /\ MayAnswer(t, c) /\ chat[c].status = "active"
  /\ IF Full(c) \/ Unresolved(c, chat[c].resolved) = {}
       THEN /\ chat' = [chat EXCEPT ![c].status = IF Full(c) THEN "abandoned" ELSE "completed"]
            /\ UNCHANGED reqvars
       ELSE /\ Goto(t, "think") /\ target' = [target EXCEPT ![t] = c]
            /\ mine' = [mine EXCEPT ![t].resolved = chat[c].resolved]
            /\ UNCHANGED chat
  /\ UNCHANGED <<docvars, view, twins>>

(* The tab shows the chat as it is after the commit.                       *)
Answer(t, c, status) == Finish(t) /\ Show(t, c, status)

(* The model records nothing, or its call failed: the question is put      *)
(* again.                                                                  *)
Reprompt(t) ==
  LET c == target[t] IN
  /\ pc[t] = "think"
  /\ chat' = [chat EXCEPT ![c].messages = @ + 2]
  /\ Answer(t, c, chat[c].status)
  /\ UNCHANGED <<docvars, twins>>

(* Requests whose copy of extracted_data may still be written back.        *)
Holding == {t \in Tab : pc[t] \in {"save", "tip"}}

(* The model names a field - nothing compares it with the one asked for -  *)
(* and a value; the document is read.                                      *)
Record(t, f) ==
  /\ pc[t] = "think" /\ Goto(t, "save")
  /\ \E value \in {{f}} \cup (IF f \in Numeric THEN {{}} ELSE {}) :
       mine' = [mine EXCEPT ![t] = [resolved |-> mine[t].resolved \cup {f}, field |-> {f},
                                    filled |-> (filled \ {f}) \cup value, tip |-> tip]]
  /\ overlap' = (overlap \/ Holding # {})
  /\ said' = IF overlap' THEN [g \in Field |-> "nothing"] ELSE said
  /\ UNCHANGED <<filled, tip, chat, target, view, twins>>

(* Fault: answers to optional fields are not written to the document.      *)
Save_RequiredOnly(t) ==
  LET c == target[t]
      my == mine[t]
  IN /\ pc[t] = "save"
     /\ filled' = my.filled \ (my.field \cap Optional) /\ tip' = my.tip
     /\ said' = [f \in Field |-> IF overlap \/ f \notin my.field THEN said[f]
                                 ELSE IF f \in my.filled THEN "usable" ELSE "unusable"]
     /\ chat' = [chat EXCEPT ![c].resolved = my.resolved, ![c].messages = @ + 1]
     /\ Goto(t, IF my.field \subseteq Optional /\ TipFields \subseteq my.filled /\ ~my.tip
                  THEN "tip" ELSE "close")
     /\ UNCHANGED <<overlap, target, mine, view, twins>>

(* Answer, resolved fields and message are committed together.             *)
Save(t) ==
  LET c == target[t]
      my == mine[t]
  IN /\ pc[t] = "save"
     /\ filled' = my.filled /\ tip' = my.tip
     /\ said' = [f \in Field |-> IF overlap \/ f \notin my.field THEN said[f]
                                 ELSE IF f \in my.filled THEN "usable" ELSE "unusable"]
     /\ chat' = [chat EXCEPT ![c].resolved = my.resolved, ![c].messages = @ + 1]
     /\ Goto(t, IF my.field \subseteq Optional /\ TipFields \subseteq my.filled /\ ~my.tip
                  THEN "tip" ELSE "close")
     /\ UNCHANGED <<overlap, target, mine, view, twins>>

(* The next question, or the end of the chat.                              *)
CloseTurn(t, added) ==
  LET c == target[t]
      status == IF Unresolved(c, mine[t].resolved) = {} THEN "completed" ELSE chat[c].status
  IN /\ chat' = [chat EXCEPT ![c].messages = @ + added, ![c].status = status]
     /\ Answer(t, c, status)

Continue(t) ==
  /\ pc[t] = "close" /\ CloseTurn(t, 1)
  /\ UNCHANGED <<docvars, twins>>

(* The suggestion is stored with the copy of the data the answer was       *)
(* stored with; when its call fails the turn ends without.                 *)
Suggest(t) ==
  /\ pc[t] = "tip"
  /\ \/ CloseTurn(t, 2) /\ filled' = mine[t].filled /\ tip' = TRUE
     \/ CloseTurn(t, 1) /\ UNCHANGED <<filled, tip>>
  /\ UNCHANGED <<said, overlap, twins>>

-----------------------------------------------------------------------------
(* The API process dies; what was not committed is gone.                   *)
Kill(t) ==
  /\ pc[t] # "idle" /\ Finish(t)
  /\ UNCHANGED <<docvars, chat, view, twins>>

Next ==
  \E t \in Tab :
    \/ Start(t) \/ Greet(t) \/ Reprompt(t) \/ Save(t) \/ Continue(t) \/ Suggest(t)
    \/ Kill(t)
    \/ \E c \in Chat : Create(t, c) \/ Ask(t, c) \/ Refuse(t, c)
    \/ \E f \in Field : Record(t, f)

Spec == Init /\ [][Next]_vars

-----------------------------------------------------------------------------
(* A chat that is completed, or that a tab calls done, leaves every field  *)
(* with a value: unless the last answer about it could not be parsed, or   *)
(* two requests held copies of the data at the same time.                  *)
DoneMeansFilled ==
  \/ overlap
  \/ \A c \in Chat :
       (chat[c].status = "completed" \/ \E t \in Tab : view[t] = [chat |-> c, status |-> "completed"])
         => \A f \in Field : f \in filled \/ said[f] = "unusable"

(* A usable answer is in the CV until the next answer about the field.     *)
AnswersAreKept == overlap \/ \A f \in Field : said[f] = "usable" => f \in filled

(* One active chat for a document, unless two tabs started it at the same  *)
(* time; with two, the query for the active one raises in every start.     *)
OneActiveChat == twins \/ Cardinality(Active) <= 1
=============================================================================
