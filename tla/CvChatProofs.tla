---------------------------- MODULE CvChatProofs ----------------------------
(***************************************************************************)
(* Theorems about CvChat, for any fields, tabs, chats and turn limit.      *)
(***************************************************************************)
EXTENDS CvChat, FiniteSetTheorems, TLAPS

(* TypeOK without the bound on messages.                                   *)
Types ==
  /\ filled \subseteq Field /\ tip \in BOOLEAN
  /\ chat \in [Chat -> Row]
  /\ pc \in [Tab -> Step] /\ target \in [Tab -> Chat \cup {None}] /\ mine \in [Tab -> Copy]
  /\ view \in [Tab -> [chat : Chat \cup {None}, status : Status]]
  /\ said \in [Field -> {"nothing", "usable", "unusable"}]
  /\ overlap \in BOOLEAN /\ twins \in BOOLEAN
  /\ \A t \in Tab : pc[t] \notin {"idle", "create"} => target[t] \in Chat

(* What a step writes into the row of a chat keeps it a row.               *)
LEMMA RowTypes ==
  ASSUME NEW r \in Row, NEW n \in Nat, NEW s \in Status, NEW f \in SUBSET Field
  PROVE  /\ [r EXCEPT !.messages = @ + n] \in Row
         /\ [r EXCEPT !.status = s] \in Row
         /\ [r EXCEPT !.resolved = f, !.messages = @ + n] \in Row
         /\ [r EXCEPT !.messages = @ + n, !.status = s] \in Row
PROOF
  <1>1. r.messages + n \in Nat
    BY DEF Row
  <1>2. [r EXCEPT !.messages = @ + n] \in Row
    BY <1>1 DEF Row
  <1>3. [r EXCEPT !.status = s] \in Row
    BY DEF Row
  <1>4. [r EXCEPT !.resolved = f, !.messages = @ + n] \in Row
    BY <1>1 DEF Row
  <1>5. [r EXCEPT !.messages = @ + n, !.status = s] \in Row
    BY <1>1 DEF Row
  <1> QED
    BY <1>2, <1>3, <1>4, <1>5

(* A request that ends keeps the types of the requests.                    *)
LEMMA FinishTypes ==
  ASSUME Types, NEW t \in Tab, Finish(t)
  PROVE  /\ pc' \in [Tab -> Step] /\ target' \in [Tab -> Chat \cup {None}]
         /\ mine' \in [Tab -> Copy]
         /\ \A u \in Tab : pc'[u] \notin {"idle", "create"} => target'[u] \in Chat
PROOF
  <1>1. NoCopy \in Copy
    BY DEF NoCopy, Copy
  <1> QED
    BY <1>1 DEF Types, Finish, Goto, Step

(* What a tab is told is a chat and a status.                              *)
LEMMA ShowTypes ==
  ASSUME Types, NEW t \in Tab, NEW c \in Chat, NEW s \in Status, Show(t, c, s)
  PROVE  view' \in [Tab -> [chat : Chat \cup {None}, status : Status]]
PROOF
  BY DEF Types, Show

(* Every step keeps the types.                                             *)
LEMMA TypesStep ==
  ASSUME Types, Next
  PROVE  Types'
PROOF
  <1> USE DEF docvars, reqvars
  <1>t. PICK t \in Tab :
          \/ Start(t) \/ Greet(t) \/ Reprompt(t) \/ Save(t) \/ Continue(t) \/ Suggest(t)
          \/ Kill(t)
          \/ \E c \in Chat : Create(t, c) \/ Ask(t, c) \/ Refuse(t, c)
          \/ \E f \in Field : Record(t, f)
    BY DEF Next
  <1>1. CASE Start(t)
    <2>1. Active \subseteq Chat /\ NoView \in [chat : Chat \cup {None}, status : Status]
      BY DEF Active, NoView, Status
    <2>2. CASE Active # {}
      <3>1. PICK c \in Active : Show(t, c, "active") /\ UNCHANGED <<pc, twins>>
        BY <1>1, <2>2 DEF Start
      <3>2. c \in Chat /\ "active" \in Status
        BY <2>1 DEF Status
      <3> QED
        BY <1>1, <3>1, <3>2, ShowTypes DEF Types, Start
    <2>3. CASE Active = {}
      <3>1. pc' = [pc EXCEPT ![t] = "create"] /\ view' = [view EXCEPT ![t] = NoView]
            /\ twins' \in BOOLEAN
        BY <1>1, <2>3 DEF Start, Goto, Types
      <3> QED
        BY <1>1, <2>1, <3>1 DEF Types, Start, Step
    <2> QED
      BY <2>2, <2>3
  <1>2. CASE \E c \in Chat : Create(t, c)
    <2>1. PICK c \in Chat : Create(t, c)
      BY <1>2
    <2>2. chat' \in [Chat -> Row]
      <3> DEFINE new == [status |-> IF filled = Field THEN "completed" ELSE "active",
                         missing |-> Required \ filled, resolved |-> {}, messages |-> 0]
      <3>1. new \in Row
        BY DEF Row, Status
      <3>2. chat' = [chat EXCEPT ![c] = new]
        BY <2>1 DEF Create
      <3> HIDE DEF new
      <3> QED
        BY <3>1, <3>2 DEF Types
    <2>3. CASE filled = Field
      BY <2>1, <2>2, <2>3, FinishTypes, ShowTypes DEF Types, Create, Status
    <2>4. CASE filled # Field
      BY <2>1, <2>2, <2>4 DEF Types, Create, Goto, Step
    <2> QED
      BY <2>3, <2>4
  <1>3. CASE Greet(t)
    <2>1. target[t] \in Chat
      BY <1>3 DEF Types, Greet
    <2>2. [chat[target[t]] EXCEPT !.messages = @ + 1] \in Row
      BY <2>1, RowTypes DEF Types
    <2>3. chat' \in [Chat -> Row]
      BY <1>3, <2>1, <2>2 DEF Types, Greet
    <2> QED
      BY <1>3, <2>1, <2>3, FinishTypes, ShowTypes DEF Types, Greet, Status
  <1>4. CASE \E c \in Chat : Ask(t, c)
    <2>1. PICK c \in Chat : Ask(t, c)
      BY <1>4
    <2>2. chat' \in [Chat -> Row]
      <3>1. \A s \in Status : [chat[c] EXCEPT !.status = s] \in Row
        BY RowTypes DEF Types
      <3>2. \/ chat' = chat
            \/ \E s \in Status : chat' = [chat EXCEPT ![c].status = s]
        BY <2>1 DEF Ask, Status
      <3> QED
        BY <3>1, <3>2 DEF Types
    <2>3. mine' \in [Tab -> Copy] /\ pc' \in [Tab -> Step] /\ target' \in [Tab -> Chat \cup {None}]
          /\ \A u \in Tab : pc'[u] \notin {"idle", "create"} => target'[u] \in Chat
      <3>1. [mine[t] EXCEPT !.resolved = chat[c].resolved] \in Copy
        BY DEF Types, Copy, Row
      <3> QED
        BY <2>1, <3>1 DEF Types, Ask, Step, Goto
    <2> QED
      BY <2>1, <2>2, <2>3 DEF Types, Ask
  <1>5. CASE \E c \in Chat : Refuse(t, c)
    BY <1>5 DEF Types, Refuse, vars
  <1>6. CASE Reprompt(t)
    <2>1. target[t] \in Chat
      BY <1>6 DEF Types, Reprompt
    <2>2. chat[target[t]].status \in Status
      BY <2>1 DEF Types, Row
    <2>3. [chat[target[t]] EXCEPT !.messages = @ + 2] \in Row
      BY <2>1, RowTypes DEF Types
    <2>4. chat' \in [Chat -> Row]
      BY <1>6, <2>1, <2>3 DEF Types, Reprompt
    <2> QED
      BY <1>6, <2>1, <2>2, <2>4, FinishTypes, ShowTypes DEF Types, Reprompt, Answer
  <1>7. CASE \E f \in Field : Record(t, f)
    <2>1. PICK f \in Field : Record(t, f)
      BY <1>7
    <2>2. mine' \in [Tab -> Copy]
      BY <2>1 DEF Types, Record, Copy
    <2>3. /\ pc' = [pc EXCEPT ![t] = "save"] /\ pc[t] = "think" /\ overlap' \in BOOLEAN
          /\ said' \in [Field -> {"nothing", "usable", "unusable"}]
      BY <2>1 DEF Types, Record, Goto
    <2> QED
      BY <2>1, <2>2, <2>3 DEF Types, Record, Step
  <1>8. CASE Save(t)
    <2>0. target[t] \in Chat /\ mine[t] \in Copy /\ mine[t].resolved \in SUBSET Field
      BY <1>8 DEF Types, Save, Copy
    <2>5. [chat[target[t]] EXCEPT !.resolved = mine[t].resolved, !.messages = @ + 1] \in Row
      BY <2>0, RowTypes DEF Types
    <2>1. chat' \in [Chat -> Row] /\ mine[t] \in Copy
      BY <1>8, <2>0, <2>5 DEF Types, Save
    <2>2. filled' \subseteq Field /\ tip' \in BOOLEAN
      BY <1>8, <2>1 DEF Save, Copy
    <2>3. said' \in [Field -> {"nothing", "usable", "unusable"}]
      BY <1>8 DEF Types, Save
    <2>4. pc' \in [Tab -> Step] /\ \A u \in Tab : pc'[u] \notin {"idle", "create"} => target[u] \in Chat
      BY <1>8 DEF Types, Save, Goto, Step
    <2> QED
      BY <1>8, <2>1, <2>2, <2>3, <2>4 DEF Types, Save
  <1>c. ASSUME NEW n \in {1, 2}, pc[t] \in {"close", "tip"}, CloseTurn(t, n)
        PROVE  /\ chat' \in [Chat -> Row]
               /\ pc' \in [Tab -> Step] /\ target' \in [Tab -> Chat \cup {None}]
               /\ mine' \in [Tab -> Copy]
               /\ \A u \in Tab : pc'[u] \notin {"idle", "create"} => target'[u] \in Chat
               /\ view' \in [Tab -> [chat : Chat \cup {None}, status : Status]]
    <2> DEFINE s == IF Unresolved(target[t], mine[t].resolved) = {} THEN "completed"
                    ELSE chat[target[t]].status
    <2>1. target[t] \in Chat
      BY <1>c DEF Types
    <2>2. s \in Status
      BY <2>1 DEF Types, Row, Status
    <2>3. /\ chat' = [chat EXCEPT ![target[t]].messages = @ + n, ![target[t]].status = s]
          /\ Finish(t) /\ Show(t, target[t], s)
      BY <1>c DEF CloseTurn, Answer
    <2> HIDE DEF s
    <2>4. chat' \in [Chat -> Row]
      <3>1. [chat[target[t]] EXCEPT !.messages = @ + n, !.status = s] \in Row
        BY <2>1, <2>2, RowTypes DEF Types
      <3> QED
        BY <2>1, <2>3, <3>1 DEF Types
    <2> QED
      BY <2>1, <2>2, <2>3, <2>4, FinishTypes, ShowTypes
  <1>9. CASE Continue(t)
    BY <1>9, <1>c DEF Types, Continue
  <1>10. CASE Suggest(t)
    <2>1. filled' \subseteq Field /\ tip' \in BOOLEAN
      BY <1>10 DEF Types, Suggest, Copy
    <2> QED
      BY <1>10, <1>c, <2>1 DEF Types, Suggest
  <1>11. CASE Kill(t)
    BY <1>11, FinishTypes DEF Types, Kill
  <1> QED
    BY <1>t, <1>1, <1>2, <1>3, <1>4, <1>5, <1>6, <1>7, <1>8, <1>9, <1>10, <1>11

(* In every reachable state the variables have their types, and a request  *)
(* past its start is about a chat.                                         *)
THEOREM TypesAlways == Spec => []Types
PROOF
  <1>1. Init => Types
    <2>1. NoCopy \in Copy /\ NoView \in [chat : Chat \cup {None}, status : Status]
      BY DEF NoCopy, Copy, NoView, Status
    <2>2. [status |-> "none", missing |-> {}, resolved |-> {}, messages |-> 0] \in Row
      BY DEF Row, Status
    <2>3. ASSUME Init PROVE filled \subseteq Field /\ chat \in [Chat -> Row]
      BY <2>2, <2>3 DEF Init, Field
    <2>4. ASSUME Init PROVE /\ pc \in [Tab -> Step] /\ target \in [Tab -> Chat \cup {None}]
                            /\ mine \in [Tab -> Copy]
                            /\ view \in [Tab -> [chat : Chat \cup {None}, status : Status]]
                            /\ \A t \in Tab : pc[t] = "idle"
      BY <2>1, <2>4 DEF Init, Step
    <2> QED
      BY <2>3, <2>4 DEF Init, Types
  <1>2. Types /\ [Next]_vars => Types'
    BY TypesStep DEF Types, vars, docvars, reqvars
  <1> QED
    BY <1>1, <1>2, PTL DEF Spec
-----------------------------------------------------------------------------
(* What a step does to the status of a chat: only a creation makes one     *)
(* active.                                                                 *)
LEMMA StatusStep ==
  ASSUME Types, NEW t \in Tab, NEW c \in Chat,
         \/ Start(t) \/ Greet(t) \/ Reprompt(t) \/ Save(t) \/ Continue(t) \/ Suggest(t)
         \/ Kill(t)
         \/ \E d \in Chat : Create(t, d) \/ Ask(t, d) \/ Refuse(t, d)
         \/ \E f \in Field : Record(t, f)
  PROVE  \/ chat'[c].status = chat[c].status
         \/ chat[c].status = "active" /\ chat'[c].status = "abandoned"
         \/ chat'[c].status = "completed"
         \/ Create(t, c)
PROOF
  <1> USE DEF docvars, reqvars
  <1>0. chat \in [Chat -> Row] /\ chat[c] \in Row /\ (pc[t] \notin {"idle", "create"} => target[t] \in Chat)
    BY DEF Types
  <1>1. CASE Start(t) \/ Kill(t) \/ (\E d \in Chat : Refuse(t, d)) \/ \E f \in Field : Record(t, f)
    BY <1>1 DEF Start, Kill, Refuse, Record, vars
  <1>2. CASE Greet(t) \/ Reprompt(t) \/ Save(t)
    <2>1. target[t] \in Chat /\ chat[target[t]] \in Row
      BY <1>0, <1>2 DEF Greet, Reprompt, Save
    <2>2. CASE Greet(t)
      BY <1>0, <2>1, <2>2 DEF Greet, Row
    <2>3. CASE Reprompt(t)
      BY <1>0, <2>1, <2>3 DEF Reprompt, Row
    <2>4. CASE Save(t)
      BY <1>0, <2>1, <2>4 DEF Save, Row
    <2> QED
      BY <1>2, <2>2, <2>3, <2>4
  <1>3. CASE Continue(t) \/ Suggest(t)
    <2>1. PICK n \in {1, 2} : CloseTurn(t, n) /\ target[t] \in Chat
      BY <1>0, <1>3 DEF Continue, Suggest
    <2> DEFINE s == IF Unresolved(target[t], mine[t].resolved) = {} THEN "completed"
                    ELSE chat[target[t]].status
    <2>2. chat' = [chat EXCEPT ![target[t]].messages = @ + n, ![target[t]].status = s]
      BY <2>1 DEF CloseTurn
    <2>3. s = "completed" \/ s = chat[target[t]].status
      OBVIOUS
    <2> HIDE DEF s
    <2> QED
      BY <1>0, <2>1, <2>2, <2>3 DEF Row
  <1>4. CASE \E d \in Chat : Ask(t, d)
    BY <1>0, <1>4 DEF Ask, Row
  <1>5. CASE \E d \in Chat : Create(t, d)
    BY <1>0, <1>5 DEF Create, Row
  <1> QED
    BY <1>1, <1>2, <1>3, <1>4, <1>5

(* A request about to create a chat is alone in that, and no chat is       *)
(* active.                                                                 *)
Single ==
  \/ twins
  \/ /\ \A c, d \in Active : c = d
     /\ \A t \in Tab : pc[t] = "create" =>
          Active = {} /\ \A u \in Tab : pc[u] = "create" => u = t

(* No step brings about a second active chat unnoticed.                    *)
LEMMA SingleStep ==
  ASSUME Types, Single, Next
  PROVE  Single'
PROOF
  <1> USE DEF docvars, reqvars
  <1>t. PICK t \in Tab :
          \/ Start(t) \/ Greet(t) \/ Reprompt(t) \/ Save(t) \/ Continue(t) \/ Suggest(t)
          \/ Kill(t)
          \/ \E c \in Chat : Create(t, c) \/ Ask(t, c) \/ Refuse(t, c)
          \/ \E f \in Field : Record(t, f)
    BY DEF Next
  <1>s. \A c \in Chat : \/ c \in Active' => c \in Active
                        \/ Create(t, c)
    BY <1>t, StatusStep DEF Active
  <1>p. pc \in [Tab -> Step]
    BY DEF Types
  <1>1. CASE twins'
    BY <1>1 DEF Single
  <1>2. CASE ~twins' /\ \E c \in Chat : Create(t, c)
    <2>1. PICK c \in Chat : Create(t, c)
      BY <1>2
    <2>2. ~twins /\ Active = {} /\ pc[t] = "create" /\ pc'[t] # "create"
          /\ \A u \in Tab : u # t => pc'[u] = pc[u]
      BY <1>2, <1>p, <2>1 DEF Create, Single, Finish, Goto
    <2>3. \A u \in Tab : pc'[u] # "create"
      BY <2>2, <1>2 DEF Single
    <2>4. \A d \in Chat : d # c => chat'[d] = chat[d]
      BY <2>1 DEF Create, Types
    <2>5. Active' \subseteq {c}
      BY <2>2, <2>4 DEF Active
    <2> QED
      BY <2>3, <2>5 DEF Single
  <1>3. CASE ~twins' /\ ~\E c \in Chat : Create(t, c)
    <2>1. Active' \subseteq Active /\ ~twins
      <3>1. Active' \subseteq Chat
        BY DEF Active
      <3>2. twins => twins'
        BY <1>t, <1>3 DEF Start, Greet, Reprompt, Save, Continue, Suggest, Kill, Ask, Refuse,
                          Record, vars
      <3> QED
        BY <1>3, <1>s, <3>1, <3>2
    <2>2. CASE \E u \in Tab : pc'[u] = "create" /\ pc[u] # "create"
      <3>1. Start(t) /\ Active = {} /\ pc' = [pc EXCEPT ![t] = "create"]
        <4>1. CASE Start(t)
          BY <2>2, <4>1 DEF Start, Goto
        <4>2. CASE ~Start(t)
          BY <1>t, <1>3, <1>p, <2>2, <4>2
             DEF Greet, Reprompt, Save, Continue, Suggest, Kill, Ask, Refuse, Record, vars,
                 Goto, Finish, CloseTurn, Answer
        <4> QED
          BY <4>1, <4>2
      <3>2. \A u \in Tab : pc[u] # "create"
        BY <1>3, <3>1 DEF Start
      <3> QED
        BY <1>p, <2>1, <3>1, <3>2 DEF Single
    <2>3. CASE \A u \in Tab : pc'[u] = "create" => pc[u] = "create"
      BY <2>1, <2>3 DEF Single
    <2> QED
      BY <2>2, <2>3
  <1> QED
    BY <1>1, <1>2, <1>3 DEF Single

(* One chat of the document is active, unless two tabs started one at the  *)
(* same time.                                                              *)
THEOREM OneActiveChatAlways == Spec => []OneActiveChat
PROOF
  <1>1. Init => Single
    BY DEF Init, Single, Active
  <1>2. Types /\ Single /\ [Next]_vars => Single'
    BY SingleStep DEF Single, Active, vars, docvars, reqvars
  <1>3. Single => OneActiveChat
    <2>1. SUFFICES ASSUME Single, ~twins PROVE Cardinality(Active) <= 1
      BY DEF OneActiveChat
    <2>2. CASE Active = {}
      BY <2>2, FS_EmptySet
    <2>3. CASE Active # {}
      <3>1. PICK c \in Active : TRUE
        BY <2>3
      <3>2. Active = {c}
        BY <2>1, <3>1 DEF Single
      <3>3. Cardinality(Active) = 1
        BY <3>2, FS_Singleton
      <3> QED
        BY <3>3
    <2> QED
      BY <2>2, <2>3
  <1> QED
    BY <1>1, <1>2, <1>3, TypesAlways, PTL DEF Spec
-----------------------------------------------------------------------------
(* What an answer stored is kept.                                          *)

(* While no two requests held copies of the data: one copy at a time, and  *)
(* it has all the data has, but for the field it is about.                 *)
Sole ==
  /\ \A t, u \in Holding : t = u
  /\ \A t \in Tab : pc[t] = "save" => filled \ mine[t].field \subseteq mine[t].filled
  /\ \A t \in Tab : pc[t] = "tip" => mine[t].filled = filled
Kept == overlap \/ (Sole /\ \A f \in Field : said[f] = "usable" => f \in filled)

(* Known fields: with a value, or with a last answer that did not parse.   *)
Known == {f \in Field : f \in filled \/ said[f] = "unusable"}

(* A step other than the two that write the data leaves data and answers   *)
(* alone, and the copies it takes are complete.                            *)
LEMMA KeptStep ==
  ASSUME Types, Kept, Next
  PROVE  Kept' /\ (overlap' \/ Known \subseteq Known')
PROOF
  <1> USE DEF docvars, reqvars
  <1>t. PICK t \in Tab :
          \/ Start(t) \/ Greet(t) \/ Reprompt(t) \/ Save(t) \/ Continue(t) \/ Suggest(t)
          \/ Kill(t)
          \/ \E c \in Chat : Create(t, c) \/ Ask(t, c) \/ Refuse(t, c)
          \/ \E f \in Field : Record(t, f)
    BY DEF Next
  <1>p. pc \in [Tab -> Step] /\ mine \in [Tab -> Copy] /\ filled \subseteq Field
        /\ said \in [Field -> {"nothing", "usable", "unusable"}]
    BY DEF Types
  <1>1. CASE overlap'
    BY <1>1 DEF Kept
  <1>2. CASE ~overlap' /\ \E f \in Field : Record(t, f)
    <2>1. PICK f \in Field : Record(t, f)
      BY <1>2
    <2>2. ~overlap /\ Holding = {} /\ said' = said /\ filled' = filled /\ pc[t] = "think"
          /\ pc' = [pc EXCEPT ![t] = "save"]
      BY <1>2, <2>1 DEF Record, Goto
    <2>3. mine'[t].field = {f} /\ filled \ {f} \subseteq mine'[t].filled
      BY <1>p, <2>1 DEF Record
    <2>4. \A u \in Tab : pc'[u] \in {"save", "tip"} => u = t /\ pc'[u] = "save"
      BY <1>p, <2>2 DEF Holding
    <2>5. Sole'
      BY <2>2, <2>3, <2>4 DEF Sole, Holding
    <2> QED
      BY <2>2, <2>5 DEF Kept, Known
  <1>3. CASE ~overlap' /\ Save(t)
    <2>1. ~overlap /\ pc[t] = "save" /\ Sole /\ mine' = mine /\ filled' = mine[t].filled
      BY <1>3 DEF Save, Kept
    <2>2. \A f \in Field : said'[f] = IF f \notin mine[t].field THEN said[f]
                                     ELSE IF f \in mine[t].filled THEN "usable" ELSE "unusable"
      BY <1>3, <2>1 DEF Save
    <2>3. filled \ mine[t].field \subseteq filled'
      BY <2>1 DEF Sole
    <2>4. \A f \in Field : said'[f] = "usable" => f \in filled'
      BY <2>1, <2>2, <2>3 DEF Kept
    <2>5. Known \subseteq Known'
      BY <2>1, <2>2, <2>3 DEF Known
    <2>6. pc'[t] \in {"tip", "close"} /\ \A u \in Tab : u # t => pc'[u] = pc[u]
      BY <1>3, <1>p DEF Save, Goto
    <2>7. \A u \in Tab : pc'[u] \in {"save", "tip"} => u = t
      BY <2>1, <2>6 DEF Sole, Holding
    <2>8. Sole'
      BY <2>1, <2>6, <2>7 DEF Sole, Holding
    <2> QED
      BY <2>4, <2>5, <2>8 DEF Kept
  <1>4. CASE ~overlap' /\ ~Save(t) /\ ~\E f \in Field : Record(t, f)
    <2>1. /\ ~overlap /\ Sole /\ said' = said
          /\ filled' = filled \/ (pc[t] = "tip" /\ filled' = mine[t].filled)
      BY <1>t, <1>4 DEF Kept, Start, Greet, Reprompt, Continue, Suggest, Kill, Create, Ask,
                        Refuse, vars
    <2>2. filled' = filled
      BY <2>1 DEF Sole
    <2>3. /\ pc'[t] \in {"save", "tip"} => pc'[t] = pc[t] /\ mine'[t] = mine[t]
          /\ \A u \in Tab : u # t => pc'[u] = pc[u] /\ mine'[u] = mine[u]
      <3>1. CASE UNCHANGED <<pc, mine>>
        BY <3>1
      <3>2. CASE Finish(t)
        <4>1. pc' = [pc EXCEPT ![t] = "idle"] /\ mine' = [mine EXCEPT ![t] = NoCopy]
          BY <3>2 DEF Finish, Goto
        <4>2. pc'[t] = "idle" /\ \A u \in Tab : u # t => pc'[u] = pc[u]
          BY <1>p, <4>1
        <4>3. \A u \in Tab : u # t => mine'[u] = mine[u]
          BY <1>p, <4>1
        <4> QED
          BY <4>2, <4>3
      <3>3. CASE /\ pc' = [pc EXCEPT ![t] = "create"] \/ pc' = [pc EXCEPT ![t] = "greet"]
                 /\ mine' = mine
        BY <1>p, <3>3
      <3>4. CASE \E c \in Chat : Goto(t, "think")
                                /\ mine' = [mine EXCEPT ![t].resolved = chat[c].resolved]
        <4>1. pc'[t] = "think" /\ \A u \in Tab : u # t => pc'[u] = pc[u]
          BY <1>p, <3>4 DEF Goto
        <4>2. \A u \in Tab : u # t => mine'[u] = mine[u]
          BY <1>p, <3>4
        <4> QED
          BY <4>1, <4>2
      <3>5. Start(t) => UNCHANGED <<pc, mine>> \/ (pc' = [pc EXCEPT ![t] = "create"] /\ mine' = mine)
        BY DEF Start, Goto
      <3>6. Greet(t) \/ Reprompt(t) \/ Continue(t) \/ Suggest(t) \/ Kill(t) => Finish(t)
        BY DEF Greet, Reprompt, Continue, Suggest, Kill, CloseTurn, Answer
      <3>7. ASSUME NEW c \in Chat, Create(t, c)
            PROVE  Finish(t) \/ (pc' = [pc EXCEPT ![t] = "greet"] /\ mine' = mine)
        BY <3>7 DEF Create, Goto
      <3>8. ASSUME NEW c \in Chat, Ask(t, c) \/ Refuse(t, c)
            PROVE  \/ UNCHANGED <<pc, mine>>
                   \/ Goto(t, "think") /\ mine' = [mine EXCEPT ![t].resolved = chat[c].resolved]
        BY <3>8 DEF Ask, Refuse, vars
      <3> QED
        BY <1>t, <1>4, <3>1, <3>2, <3>3, <3>4, <3>5, <3>6, <3>7, <3>8
    <2>4. \A u \in Tab : pc'[u] \in {"save", "tip"} => pc'[u] = pc[u] /\ mine'[u] = mine[u]
      BY <2>3
    <2>5. Sole'
      BY <2>1, <2>2, <2>4 DEF Sole, Holding
    <2> QED
      BY <2>1, <2>2, <2>5 DEF Kept, Known
  <1> QED
    BY <1>t, <1>1, <1>2, <1>3, <1>4

(* A usable answer stays in the CV until the next answer about its field,  *)
(* as long as no two requests held copies of the data at the same time.    *)
THEOREM AnswersAreKeptAlways == Spec => []AnswersAreKept
PROOF
  <1>1. Init => Kept
    BY DEF Init, Kept, Sole, Holding
  <1>2. Types /\ Kept /\ [Next]_vars => Kept'
    <2>1. CASE UNCHANGED vars
      BY <2>1 DEF Kept, Sole, Holding, vars, docvars, reqvars
    <2> QED
      BY <2>1, KeptStep
  <1>3. Kept => AnswersAreKept
    BY DEF Kept, AnswersAreKept
  <1> QED
    BY <1>1, <1>2, <1>3, TypesAlways, PTL DEF Spec
-----------------------------------------------------------------------------
(* A chat that is done.                                                    *)

(* A request past its start is about a chat that was created, and a tab    *)
(* calls a chat done only once it is.                                      *)
Told ==
  /\ \A t \in Tab : pc[t] \notin {"idle", "create"} => chat[target[t]].status # "none"
  /\ \A t \in Tab : view[t].status = "completed" =>
       view[t].chat \in Chat /\ chat[view[t].chat].status = "completed"

(* Every step keeps that.                                                  *)
LEMMA ToldStep ==
  ASSUME Types, Told, Next
  PROVE  Told'
PROOF
  <1> USE DEF docvars, reqvars
  <1>t. PICK t \in Tab :
          \/ Start(t) \/ Greet(t) \/ Reprompt(t) \/ Save(t) \/ Continue(t) \/ Suggest(t)
          \/ Kill(t)
          \/ \E c \in Chat : Create(t, c) \/ Ask(t, c) \/ Refuse(t, c)
          \/ \E f \in Field : Record(t, f)
    BY DEF Next
  <1>p. pc \in [Tab -> Step] /\ target \in [Tab -> Chat \cup {None}] /\ chat \in [Chat -> Row]
        /\ view \in [Tab -> [chat : Chat \cup {None}, status : Status]]
        /\ \A u \in Tab : pc[u] \notin {"idle", "create"} => target[u] \in Chat
    BY DEF Types
  <1>s. \A c \in Chat : /\ chat[c].status # "none" => chat'[c].status # "none"
                        /\ chat[c].status = "completed" => chat'[c].status = "completed"
    BY <1>t, StatusStep DEF Create
  <1>1. \A u \in Tab : pc'[u] \notin {"idle", "create"} => chat'[target'[u]].status # "none"
    <2>1. ASSUME NEW c \in Chat, Create(t, c)
          PROVE  \/ Finish(t)
                 \/ /\ pc' = [pc EXCEPT ![t] = "greet"] /\ target' = [target EXCEPT ![t] = c]
                    /\ chat'[c].status # "none"
      BY <1>p, <2>1 DEF Create, Goto
    <2>2. ASSUME NEW c \in Chat, Ask(t, c) \/ Refuse(t, c)
          PROVE  \/ UNCHANGED <<pc, target>>
                 \/ /\ pc' = [pc EXCEPT ![t] = "think"] /\ target' = [target EXCEPT ![t] = c]
                    /\ chat'[c].status # "none"
      BY <1>p, <2>2 DEF Ask, Refuse, Goto, vars
    <2>3. Greet(t) \/ Reprompt(t) \/ Continue(t) \/ Suggest(t) \/ Kill(t) => Finish(t)
      BY DEF Greet, Reprompt, Continue, Suggest, Kill, CloseTurn, Answer
    <2>4. Start(t) => /\ target' = target
                      /\ pc' = pc \/ pc' = [pc EXCEPT ![t] = "create"]
      BY DEF Start, Goto
    <2>5. Save(t) \/ (\E f \in Field : Record(t, f)) =>
            /\ target' = target /\ pc[t] \in {"save", "think"}
            /\ \A u \in Tab : u # t => pc'[u] = pc[u]
      BY <1>p DEF Save, Record, Goto
    <2>6. \/ Finish(t)
          \/ /\ target' = target
             /\ \A u \in Tab : pc'[u] \in {"create", pc[u]} \/ (u = t /\ pc[u] \in {"save", "think"})
          \/ \E c \in Chat, q \in {"greet", "think"} :
               /\ pc' = [pc EXCEPT ![t] = q] /\ target' = [target EXCEPT ![t] = c]
               /\ chat'[c].status # "none"
      <3>1. CASE Start(t)
        BY <1>p, <2>4, <3>1
      <3>2. CASE Save(t) \/ \E f \in Field : Record(t, f)
        BY <2>5, <3>2
      <3> QED
        BY <1>t, <2>1, <2>2, <2>3, <3>1, <3>2
    <2>7. CASE Finish(t)
      <3>1. pc' = [pc EXCEPT ![t] = "idle"] /\ target' = [target EXCEPT ![t] = None]
        BY <2>7 DEF Finish, Goto
      <3> QED
        BY <1>p, <1>s, <3>1 DEF Told
    <2>8. CASE /\ target' = target
               /\ \A u \in Tab : pc'[u] \in {"create", pc[u]} \/ (u = t /\ pc[u] \in {"save", "think"})
      BY <1>p, <1>s, <2>8 DEF Told
    <2>9. ASSUME NEW c \in Chat, NEW q \in {"greet", "think"},
                 pc' = [pc EXCEPT ![t] = q], target' = [target EXCEPT ![t] = c],
                 chat'[c].status # "none"
          PROVE  \A u \in Tab : pc'[u] \notin {"idle", "create"} => chat'[target'[u]].status # "none"
      BY <1>p, <1>s, <2>9 DEF Told
    <2> QED
      BY <2>6, <2>7, <2>8, <2>9
  <1>2. \A u \in Tab : view'[u].status = "completed" =>
          view'[u].chat \in Chat /\ chat'[view'[u].chat].status = "completed"
    <2>1. ASSUME NEW c \in Chat, NEW s \in Status, Show(t, c, s),
                 s = "completed" => chat'[c].status = "completed"
          PROVE  \A u \in Tab : view'[u].status = "completed" =>
                   view'[u].chat \in Chat /\ chat'[view'[u].chat].status = "completed"
      BY <1>p, <1>s, <2>1 DEF Told, Show
    <2>2. CASE Start(t)
      <3>1. CASE Active # {}
        <4>1. PICK c \in Active : Show(t, c, "active")
          BY <2>2, <3>1 DEF Start
        <4>2. c \in Chat /\ "active" \in Status /\ "active" # "completed"
          BY DEF Active, Status
        <4> QED
          BY <2>1, <4>1, <4>2
      <3>2. CASE Active = {}
        BY <1>p, <1>s, <2>2, <3>2 DEF Start, Told, NoView
      <3> QED
        BY <3>1, <3>2
    <2>3. CASE Greet(t)
      <3>1. Show(t, target[t], "active") /\ target[t] \in Chat /\ "active" \in Status
        BY <1>p, <2>3 DEF Greet, Status
      <3> QED
        BY <2>1, <3>1
    <2>4. CASE Reprompt(t)
      <3>1. target[t] \in Chat /\ Show(t, target[t], chat[target[t]].status)
        BY <1>p, <2>4 DEF Reprompt, Answer
      <3>2. chat[target[t]].status \in Status
        BY <1>p, <3>1 DEF Row
      <3> QED
        BY <1>s, <2>1, <3>1, <3>2
    <2>5. CASE Continue(t) \/ Suggest(t)
      <3>1. PICK n \in {1, 2} : CloseTurn(t, n) /\ target[t] \in Chat
        BY <1>p, <2>5 DEF Continue, Suggest
      <3> DEFINE s == IF Unresolved(target[t], mine[t].resolved) = {} THEN "completed"
                      ELSE chat[target[t]].status
      <3>2. /\ chat' = [chat EXCEPT ![target[t]].messages = @ + n, ![target[t]].status = s]
            /\ Show(t, target[t], s)
        BY <3>1 DEF CloseTurn, Answer
      <3>3. s \in Status
        BY <1>p, <3>1 DEF Row, Status
      <3> HIDE DEF s
      <3>4. chat'[target[t]].status = s
        BY <1>p, <3>1, <3>2 DEF Row
      <3> QED
        BY <2>1, <3>1, <3>2, <3>3, <3>4
    <2>6. CASE \E c \in Chat : Create(t, c)
      <3>1. PICK c \in Chat : Create(t, c)
        BY <2>6
      <3>2. CASE filled = Field
        <4>1. Show(t, c, "completed") /\ chat'[c].status = "completed" /\ "completed" \in Status
          BY <1>p, <3>1, <3>2 DEF Create, Status
        <4> QED
          BY <2>1, <4>1
      <3>3. CASE filled # Field
        BY <1>s, <3>1, <3>3 DEF Create, Told
      <3> QED
        BY <3>2, <3>3
    <2>7. CASE view' = view
      BY <1>s, <2>7 DEF Told
    <2>8. Save(t) \/ Kill(t) \/ (\E c \in Chat : Ask(t, c) \/ Refuse(t, c))
          \/ (\E f \in Field : Record(t, f)) => view' = view
      BY DEF Save, Kill, Ask, Refuse, Record, vars
    <2> QED
      BY <1>t, <2>2, <2>3, <2>4, <2>5, <2>6, <2>7, <2>8
  <1> QED
    BY <1>1, <1>2 DEF Told

(* What a row, or a request's copy, takes for known is among the known.    *)
RowDone(r, known) ==
  r.status # "none" =>
    /\ Required \ r.missing \subseteq known /\ r.resolved \subseteq known
    /\ r.status = "completed" => Field \subseteq known
CopyDone(step, m, known) ==
  /\ step \in {"think", "tip", "close"} => m.resolved \subseteq known
  /\ step = "save" => m.resolved \ m.field \subseteq known
Done ==
  \/ overlap
  \/ /\ \A c \in Chat : RowDone(chat[c], Known)
     /\ \A t \in Tab : CopyDone(pc[t], mine[t], Known)

(* With the requests' copies complete, every step keeps that.              *)
LEMMA DoneStep ==
  ASSUME Types, Kept, Told, Done, Next
  PROVE  Done'
PROOF
  <1> USE DEF docvars, reqvars
  <1>t. PICK t \in Tab :
          \/ Start(t) \/ Greet(t) \/ Reprompt(t) \/ Save(t) \/ Continue(t) \/ Suggest(t)
          \/ Kill(t)
          \/ \E c \in Chat : Create(t, c) \/ Ask(t, c) \/ Refuse(t, c)
          \/ \E f \in Field : Record(t, f)
    BY DEF Next
  <1>p. pc \in [Tab -> Step] /\ mine \in [Tab -> Copy] /\ chat \in [Chat -> Row]
        /\ filled \subseteq Field
        /\ \A u \in Tab : pc[u] \notin {"idle", "create"} => target[u] \in Chat
    BY DEF Types
  <1>1. SUFFICES ASSUME ~overlap' PROVE Done'
    BY DEF Done
  <1>k. ~overlap /\ Known \subseteq Known'
    <2>1. overlap => overlap'
      BY <1>t DEF Start, Greet, Reprompt, Continue, Suggest, Kill, Create, Ask, Refuse, vars, Save,
                  Record
    <2> QED
      BY <1>1, <2>1, KeptStep
  <1>r. \A c \in Chat : RowDone(chat[c], Known')
    BY <1>k DEF Done, RowDone
  <1>m. \A u \in Tab : CopyDone(pc[u], mine[u], Known')
    BY <1>k DEF Done, CopyDone
  <1>2. \A c \in Chat : RowDone(chat'[c], Known')
    <2>1. ASSUME NEW c \in Chat, NEW r, chat' = [chat EXCEPT ![c] = r], RowDone(r, Known')
          PROVE  \A d \in Chat : RowDone(chat'[d], Known')
      BY <1>p, <1>r, <2>1
    <2>2. CASE Greet(t) \/ Reprompt(t)
      <3>1. PICK n \in {1, 2} : /\ target[t] \in Chat
                                /\ chat' = [chat EXCEPT ![target[t]].messages = @ + n]
        BY <1>p, <2>2 DEF Greet, Reprompt
      <3>2. RowDone([chat[target[t]] EXCEPT !.messages = @ + n], Known')
        BY <1>p, <1>r, <3>1 DEF RowDone, Row
      <3> QED
        BY <2>1, <3>1, <3>2
    <2>3. CASE Save(t)
      <3>1. /\ target[t] \in Chat /\ pc[t] = "save" /\ filled' = mine[t].filled
            /\ chat' = [chat EXCEPT ![target[t]].resolved = mine[t].resolved,
                                     ![target[t]].messages = @ + 1]
        BY <1>p, <2>3 DEF Save
      <3>2. \A f \in Field \cap mine[t].field :
              said'[f] = IF f \in mine[t].filled THEN "usable" ELSE "unusable"
        BY <1>k, <2>3 DEF Save
      <3>3. mine[t].resolved \subseteq Known'
        <4>1. mine[t].resolved \subseteq Field /\ mine[t].resolved \ mine[t].field \subseteq Known'
          BY <1>p, <1>m, <3>1 DEF CopyDone, Copy
        <4>2. mine[t].field \cap Field \subseteq Known'
          BY <3>1, <3>2 DEF Known
        <4> QED
          BY <4>1, <4>2
      <3>4. RowDone([chat[target[t]] EXCEPT !.resolved = mine[t].resolved, !.messages = @ + 1], Known')
        BY <1>p, <1>r, <3>1, <3>3 DEF RowDone, Row
      <3>5. chat' = [chat EXCEPT ![target[t]] = [chat[target[t]] EXCEPT !.resolved = mine[t].resolved,
                                                                       !.messages = @ + 1]]
        BY <3>1
      <3> QED
        BY <2>1, <3>1, <3>4, <3>5
    <2>4. CASE Continue(t) \/ Suggest(t)
      <3>1. PICK n \in {1, 2} : /\ CloseTurn(t, n) /\ target[t] \in Chat
                                /\ pc[t] \in {"close", "tip"}
        BY <1>p, <2>4 DEF Continue, Suggest
      <3> DEFINE s == IF Unresolved(target[t], mine[t].resolved) = {} THEN "completed"
                      ELSE chat[target[t]].status
      <3>2. chat' = [chat EXCEPT ![target[t]].messages = @ + n, ![target[t]].status = s]
        BY <3>1 DEF CloseTurn
      <3>3. RowDone(chat[target[t]], Known') /\ chat[target[t]].status # "none"
            /\ mine[t].resolved \subseteq Known'
        BY <1>r, <1>m, <3>1 DEF Told, CopyDone
      <3>4. s = "completed" => Field \subseteq Known'
        <4>1. CASE Unresolved(target[t], mine[t].resolved) = {}
          BY <3>3, <4>1 DEF Unresolved, RowDone, Field
        <4>2. CASE Unresolved(target[t], mine[t].resolved) # {}
          BY <3>3, <4>2 DEF RowDone
        <4> QED
          BY <4>1, <4>2
      <3> HIDE DEF s
      <3>5. RowDone([chat[target[t]] EXCEPT !.messages = @ + n, !.status = s], Known')
        BY <1>p, <3>1, <3>3, <3>4 DEF RowDone, Row
      <3>6. chat' = [chat EXCEPT ![target[t]] = [chat[target[t]] EXCEPT !.messages = @ + n,
                                                                       !.status = s]]
        BY <3>2
      <3> QED
        BY <2>1, <3>1, <3>5, <3>6
    <2>5. CASE \E c \in Chat : Create(t, c)
      <3>1. PICK c \in Chat : Create(t, c)
        BY <2>5
      <3> DEFINE new == [status |-> IF filled = Field THEN "completed" ELSE "active",
                         missing |-> Required \ filled, resolved |-> {}, messages |-> 0]
      <3>2. chat' = [chat EXCEPT ![c] = new]
        BY <3>1 DEF Create
      <3>3. Required \cap filled \subseteq Known' /\ (filled = Field => Field \subseteq Known')
        BY <1>k DEF Known, Field
      <3>4. RowDone(new, Known')
        BY <3>3 DEF RowDone
      <3> HIDE DEF new
      <3> QED
        BY <2>1, <3>2, <3>4
    <2>6. CASE \E c \in Chat : Ask(t, c)
      <3>1. PICK c \in Chat : Ask(t, c)
        BY <2>6
      <3>2. CASE Full(c) \/ Unresolved(c, chat[c].resolved) = {}
        <4> DEFINE s == IF Full(c) THEN "abandoned" ELSE "completed"
        <4>1. chat' = [chat EXCEPT ![c].status = s] /\ chat[c].status = "active"
          BY <3>1, <3>2 DEF Ask
        <4>2. s = "completed" => Unresolved(c, chat[c].resolved) = {}
          BY <3>2
        <4>3. RowDone(chat[c], Known')
          BY <1>r
        <4>4. s = "completed" => Field \subseteq Known'
          BY <4>1, <4>2, <4>3 DEF Unresolved, RowDone, Field
        <4> HIDE DEF s
        <4>5. RowDone([chat[c] EXCEPT !.status = s], Known')
          BY <1>p, <4>1, <4>3, <4>4 DEF RowDone, Row
        <4> QED
          BY <2>1, <4>1, <4>5
      <3>3. CASE ~(Full(c) \/ Unresolved(c, chat[c].resolved) = {})
        BY <1>r, <3>1, <3>3 DEF Ask
      <3> QED
        BY <3>2, <3>3
    <2>7. CASE chat' = chat
      BY <1>r, <2>7
    <2>8. Start(t) \/ Kill(t) \/ (\E c \in Chat : Refuse(t, c)) \/ (\E f \in Field : Record(t, f))
            => chat' = chat
      BY DEF Start, Kill, Refuse, Record, vars
    <2> QED
      BY <1>t, <2>2, <2>3, <2>4, <2>5, <2>6, <2>7, <2>8
  <1>3. \A u \in Tab : CopyDone(pc'[u], mine'[u], Known')
    <2>1. ASSUME NEW q, NEW m, CopyDone(q, m, Known'), pc' = [pc EXCEPT ![t] = q],
                 mine' = [mine EXCEPT ![t] = m]
          PROVE  \A u \in Tab : CopyDone(pc'[u], mine'[u], Known')
      BY <1>p, <1>m, <2>1
    <2>2. CASE \E f \in Field : Record(t, f)
      <3>1. PICK f \in Field : Record(t, f)
        BY <2>2
      <3>2. PICK v \in SUBSET Field :
              mine' = [mine EXCEPT ![t] = [resolved |-> mine[t].resolved \cup {f}, field |-> {f},
                                           filled |-> (filled \ {f}) \cup v, tip |-> tip]]
        BY <3>1 DEF Record
      <3>3. mine[t].resolved \subseteq Known'
        BY <1>m, <3>1 DEF Record, CopyDone
      <3>4. CopyDone("save", [resolved |-> mine[t].resolved \cup {f}, field |-> {f},
                              filled |-> (filled \ {f}) \cup v, tip |-> tip], Known')
        BY <3>3 DEF CopyDone
      <3>5. pc' = [pc EXCEPT ![t] = "save"]
        BY <3>1 DEF Record, Goto
      <3> QED
        BY <2>1, <3>2, <3>4, <3>5
    <2>3. CASE Save(t)
      <3>1. pc[t] = "save" /\ mine' = mine
            /\ \E q \in {"tip", "close"} : pc' = [pc EXCEPT ![t] = q]
        BY <2>3 DEF Save, Goto
      <3>2. mine[t].resolved \subseteq Known'
        <4>1. mine[t].resolved \subseteq Field /\ mine[t].resolved \ mine[t].field \subseteq Known'
          BY <1>p, <1>m, <3>1 DEF CopyDone, Copy
        <4>2. \A f \in Field \cap mine[t].field :
                said'[f] = IF f \in mine[t].filled THEN "usable" ELSE "unusable"
          BY <1>k, <2>3 DEF Save
        <4>3. mine[t].field \cap Field \subseteq Known'
          BY <2>3, <4>2 DEF Known, Save
        <4> QED
          BY <4>1, <4>3
      <3>3. \A u \in Tab : u # t => CopyDone(pc'[u], mine'[u], Known')
        BY <1>p, <1>m, <3>1
      <3>4. CopyDone(pc'[t], mine'[t], Known')
        BY <1>p, <3>1, <3>2 DEF CopyDone
      <3> QED
        BY <3>3, <3>4
    <2>4. CASE \E c \in Chat : Ask(t, c) \/ Refuse(t, c)
      <3>1. PICK c \in Chat : Ask(t, c) \/ Refuse(t, c)
        BY <2>4
      <3>2. CASE UNCHANGED <<pc, mine>>
        BY <1>m, <3>2
      <3>3. CASE ~UNCHANGED <<pc, mine>>
        <4>1. /\ pc' = [pc EXCEPT ![t] = "think"] /\ chat[c].status = "active"
              /\ mine' = [mine EXCEPT ![t] = [mine[t] EXCEPT !.resolved = chat[c].resolved]]
          BY <3>1, <3>3 DEF Ask, Refuse, Goto, vars
        <4>2. chat[c].resolved \subseteq Known'
          BY <1>r, <4>1 DEF RowDone
        <4>3. CopyDone("think", [mine[t] EXCEPT !.resolved = chat[c].resolved], Known')
          BY <1>p, <4>2 DEF CopyDone, Copy
        <4> QED
          BY <2>1, <4>1, <4>3
      <3> QED
        BY <3>2, <3>3
    <2>5. CASE Finish(t)
      <3>1. CopyDone("idle", NoCopy, Known')
        BY DEF CopyDone
      <3> QED
        BY <2>1, <2>5, <3>1 DEF Finish, Goto
    <2>6. CASE Start(t) \/ \E c \in Chat : Create(t, c)
      <3>1. \/ Finish(t)
            \/ /\ mine' = mine
               /\ pc' = pc \/ \E q \in {"create", "greet"} : pc' = [pc EXCEPT ![t] = q]
        BY <2>6 DEF Start, Create, Goto
      <3>2. CASE /\ mine' = mine
                 /\ pc' = pc \/ \E q \in {"create", "greet"} : pc' = [pc EXCEPT ![t] = q]
        <4>1. \A u \in Tab : pc'[u] \in {pc[u], "create", "greet"}
          BY <1>p, <3>2
        <4> QED
          BY <1>m, <3>2, <4>1 DEF CopyDone
      <3> QED
        BY <2>5, <3>1, <3>2
    <2>7. Greet(t) \/ Reprompt(t) \/ Continue(t) \/ Suggest(t) \/ Kill(t) => Finish(t)
      BY DEF Greet, Reprompt, Continue, Suggest, Kill, CloseTurn, Answer
    <2> QED
      BY <1>t, <2>2, <2>3, <2>4, <2>5, <2>6, <2>7
  <1> QED
    BY <1>2, <1>3 DEF Done

(* A chat that is completed, or that a tab calls done, leaves every field  *)
(* with a value or with a last answer that could not be parsed, as long as *)
(* no two requests held copies of the data at the same time.               *)
THEOREM DoneMeansFilledAlways == Spec => []DoneMeansFilled
PROOF
  <1> DEFINE Inv == Kept /\ Told /\ Done
  <1>1. Init => Inv
    <2>1. Init => Kept
      BY DEF Init, Kept, Sole, Holding
    <2>2. Init => Told
      BY DEF Init, Told, NoView
    <2>3. Init => Done
      BY DEF Init, Done, RowDone, CopyDone
    <2> QED
      BY <2>1, <2>2, <2>3
  <1>2. Types /\ Inv /\ [Next]_vars => Inv'
    <2>1. CASE UNCHANGED vars
      BY <2>1 DEF Kept, Sole, Holding, Told, Done, Known, vars, docvars, reqvars
    <2>2. ASSUME Types, Inv, Next PROVE Inv'
      BY <2>2, KeptStep, ToldStep, DoneStep
    <2> QED
      BY <2>1, <2>2
  <1>3. Inv => DoneMeansFilled
    <2>1. SUFFICES ASSUME Told, Done, ~overlap PROVE DoneMeansFilled
      BY DEF DoneMeansFilled
    <2>2. \A c \in Chat : chat[c].status = "completed" => Field \subseteq Known
      BY <2>1 DEF Done, RowDone
    <2>3. \A c \in Chat, t \in Tab : view[t] = [chat |-> c, status |-> "completed"]
                                     => chat[c].status = "completed"
      BY <2>1 DEF Told
    <2> QED
      BY <2>2, <2>3 DEF DoneMeansFilled, Known
  <1> HIDE DEF Inv
  <1> QED
    BY <1>1, <1>2, <1>3, TypesAlways, PTL DEF Spec
-----------------------------------------------------------------------------
(* The messages of a chat.                                                 *)

(* Requests that may still add one message to a chat, two, or three.       *)
AddsOne(c)   == {t \in Tab : target[t] = c /\ pc[t] \in {"greet", "think", "save", "tip", "close"}}
AddsTwo(c)   == {t \in Tab : target[t] = c /\ pc[t] \in {"think", "save", "tip"}}
AddsThree(c) == {t \in Tab : target[t] = c /\ pc[t] \in {"think", "save"}}

Expected(c) == chat[c].messages + Cardinality(AddsOne(c)) + Cardinality(AddsTwo(c))
                                + Cardinality(AddsThree(c))
Bounded == \A c \in Chat : Expected(c) < 2 * MaxTurns + 3 * Cardinality(Tab)

(* Sets of requests are no larger than the set of tabs.                    *)
LEMMA TabSets ==
  ASSUME NEW S \in SUBSET Tab
  PROVE  /\ IsFiniteSet(S) /\ Cardinality(S) \in Nat /\ Cardinality(Tab) \in Nat
         /\ Cardinality(S) <= Cardinality(Tab)
         /\ \A R \in SUBSET S : Cardinality(R) <= Cardinality(S)
         /\ \A R \in SUBSET S : \A t \in S \ R : Cardinality(R) < Cardinality(S)
PROOF
  <1>1. /\ IsFiniteSet(S) /\ Cardinality(S) \in Nat /\ Cardinality(Tab) \in Nat
        /\ Cardinality(S) <= Cardinality(Tab)
    BY ChatAssumption, FS_Subset, FS_CardinalityType
  <1>2. ASSUME NEW R \in SUBSET S
        PROVE  /\ Cardinality(R) \in Nat /\ Cardinality(R) <= Cardinality(S)
               /\ R # S => Cardinality(R) # Cardinality(S)
    BY <1>1, FS_Subset, FS_CardinalityType
  <1> QED
    BY <1>1, <1>2

(* A chat with few messages is within the bound whoever is at work.        *)
LEMMA FewMessages ==
  ASSUME Types', NEW c \in Chat, chat'[c].messages < 2 * MaxTurns
  PROVE  Expected(c)' < 2 * MaxTurns + 3 * Cardinality(Tab)
PROOF
  <1> DEFINE A == AddsOne(c)'  B == AddsTwo(c)'  D == AddsThree(c)'
  <1>1. A \in SUBSET Tab /\ B \in SUBSET Tab /\ D \in SUBSET Tab
    BY DEF AddsOne, AddsTwo, AddsThree
  <1>2. /\ Cardinality(A) \in Nat /\ Cardinality(B) \in Nat /\ Cardinality(D) \in Nat
        /\ Cardinality(A) <= Cardinality(Tab) /\ Cardinality(B) <= Cardinality(Tab)
        /\ Cardinality(D) <= Cardinality(Tab) /\ Cardinality(Tab) \in Nat
    BY <1>1, TabSets
  <1>3. chat'[c].messages \in Nat /\ MaxTurns \in Nat
    BY ChatAssumption DEF Types, Row
  <1>4. Expected(c)' = chat'[c].messages + Cardinality(A) + Cardinality(B) + Cardinality(D)
    BY DEF Expected
  <1> HIDE DEF A, B, D
  <1> QED
    BY <1>2, <1>3, <1>4

(* A request adds no more messages than it was expected to.                *)
LEMMA AsExpected ==
  ASSUME Types, Types', Bounded, NEW c \in Chat, NEW t \in Tab, NEW n \in 0..2,
         chat'[c].messages = chat[c].messages + n,
         \A u \in Tab : u # t => pc'[u] = pc[u] /\ target'[u] = target[u],
         AddsOne(c)' \subseteq AddsOne(c),
         AddsTwo(c)' \subseteq AddsTwo(c),
         AddsThree(c)' \subseteq AddsThree(c),
         \/ n = 0
         \/ n = 1 /\ t \in AddsOne(c) /\ t \notin AddsOne(c)'
         \/ n = 1 /\ t \in AddsThree(c) /\ t \notin AddsThree(c)'
         \/ t \in AddsOne(c) /\ t \notin AddsOne(c)' /\ t \in AddsTwo(c) /\ t \notin AddsTwo(c)'
  PROVE  Expected(c)' < 2 * MaxTurns + 3 * Cardinality(Tab)
PROOF
  <1> DEFINE A == AddsOne(c)  B == AddsTwo(c)  D == AddsThree(c)
             E == AddsOne(c)' F == AddsTwo(c)' G == AddsThree(c)'
  <1>1. /\ A \in SUBSET Tab /\ B \in SUBSET Tab /\ D \in SUBSET Tab
        /\ E \in SUBSET A /\ F \in SUBSET B /\ G \in SUBSET D
    BY DEF AddsOne, AddsTwo, AddsThree
  <1>2. /\ Cardinality(A) \in Nat /\ Cardinality(E) \in Nat /\ Cardinality(E) <= Cardinality(A)
        /\ t \in A \ E => Cardinality(E) < Cardinality(A)
    BY <1>1, TabSets
  <1>3. /\ Cardinality(B) \in Nat /\ Cardinality(F) \in Nat /\ Cardinality(F) <= Cardinality(B)
        /\ t \in B \ F => Cardinality(F) < Cardinality(B)
    BY <1>1, TabSets
  <1>4. /\ Cardinality(D) \in Nat /\ Cardinality(G) \in Nat /\ Cardinality(G) <= Cardinality(D)
        /\ t \in D \ G => Cardinality(G) < Cardinality(D)
    BY <1>1, TabSets
  <1>5. chat[c].messages \in Nat /\ MaxTurns \in Nat /\ Cardinality(Tab) \in Nat
    BY ChatAssumption, TabSets DEF Types, Row
  <1>6. /\ Expected(c) = chat[c].messages + Cardinality(A) + Cardinality(B) + Cardinality(D)
        /\ Expected(c)' = chat'[c].messages + Cardinality(E) + Cardinality(F) + Cardinality(G)
        /\ Expected(c) < 2 * MaxTurns + 3 * Cardinality(Tab)
    BY DEF Expected, Bounded
  <1>7. \/ n = 0
        \/ n = 1 /\ t \in A \ E
        \/ n = 1 /\ t \in D \ G
        \/ t \in A \ E /\ t \in B \ F
    OBVIOUS
  <1> HIDE DEF A, B, D, E, F, G
  <1> DEFINE a == Cardinality(A)  b == Cardinality(B)  d == Cardinality(D)
             e == Cardinality(E)  f == Cardinality(F)  g == Cardinality(G)
             m == chat[c].messages  limit == 2 * MaxTurns + 3 * Cardinality(Tab)
  <1>8. /\ a \in Nat /\ b \in Nat /\ d \in Nat /\ e \in Nat /\ f \in Nat /\ g \in Nat
        /\ m \in Nat /\ limit \in Nat
        /\ e <= a /\ f <= b /\ g <= d
        /\ m + a + b + d < limit
        /\ n = 0 \/ (n = 1 /\ e < a) \/ (n = 1 /\ g < d) \/ (e < a /\ f < b)
    BY <1>2, <1>3, <1>4, <1>5, <1>6, <1>7
  <1>9. Expected(c)' = (m + n) + e + f + g
    BY <1>6
  <1> HIDE DEF a, b, d, e, f, g, m, limit
  <1>10. (m + n) + e + f + g < limit
    BY <1>8
  <1> QED
    BY <1>9, <1>10 DEF limit

(* A request that ends, having added what it was expected to add.          *)
LEMMA EndsAsExpected ==
  ASSUME Types, Types', Bounded, NEW t \in Tab, Finish(t), NEW c \in Chat, NEW n \in 0..2,
         chat'[c].messages = chat[c].messages + n,
         n # 0 => target[t] = c,
         n = 1 => pc[t] \in {"greet", "tip", "close"},
         n = 2 => pc[t] \in {"think", "tip"}
  PROVE  Expected(c)' < 2 * MaxTurns + 3 * Cardinality(Tab)
PROOF
  <1>1. /\ \A u \in Tab : u # t => pc'[u] = pc[u] /\ target'[u] = target[u]
        /\ pc'[t] = "idle"
    BY DEF Finish, Goto, Types
  <1>2. /\ AddsOne(c)' \subseteq AddsOne(c) /\ AddsTwo(c)' \subseteq AddsTwo(c)
        /\ AddsThree(c)' \subseteq AddsThree(c)
        /\ t \notin AddsOne(c)' /\ t \notin AddsTwo(c)'
    BY <1>1 DEF AddsOne, AddsTwo, AddsThree
  <1>3. /\ n = 1 => t \in AddsOne(c)
        /\ n = 2 => t \in AddsOne(c) /\ t \in AddsTwo(c)
    BY DEF AddsOne, AddsTwo
  <1>4. n = 0 \/ n = 1 \/ n = 2
    OBVIOUS
  <1> QED
    BY <1>1, <1>2, <1>3, <1>4, AsExpected

LEMMA BoundedStep ==
  ASSUME Types, Types', Bounded, [Next]_vars
  PROVE  Bounded'
PROOF
  <1> USE DEF docvars, reqvars
  <1>0. CASE UNCHANGED vars
    BY <1>0 DEF vars, Bounded, Expected, AddsOne, AddsTwo, AddsThree
  <1>n. CASE Next
    <2>t. PICK t \in Tab :
            \/ Start(t) \/ Greet(t) \/ Reprompt(t) \/ Save(t) \/ Continue(t) \/ Suggest(t)
            \/ Kill(t)
            \/ \E c \in Chat : Create(t, c) \/ Ask(t, c) \/ Refuse(t, c)
            \/ \E f \in Field : Record(t, f)
      BY <1>n DEF Next
    <2> SUFFICES ASSUME NEW c \in Chat
                 PROVE  Expected(c)' < 2 * MaxTurns + 3 * Cardinality(Tab)
      BY DEF Bounded
    <2>m. chat[c].messages \in Nat /\ chat[c] \in Row /\ MaxTurns \in Nat \ {0}
      BY ChatAssumption DEF Types, Row
    (* A step that adds no message and no request to the chat.             *)
    <2>q. ASSUME chat'[c].messages = chat[c].messages,
                 \A u \in Tab : u # t => pc'[u] = pc[u] /\ target'[u] = target[u],
                 \/ target'[t] # c
                 \/ pc'[t] \in {"idle", "create"}
                 \/ target'[t] = target[t] /\ pc[t] = "think" /\ pc'[t] = "save"
                 \/ target'[t] = target[t] /\ pc'[t] = pc[t]
                 \/ target'[t] = target[t] /\ pc[t] = "save" /\ pc'[t] \in {"tip", "close"}
          PROVE  Expected(c)' < 2 * MaxTurns + 3 * Cardinality(Tab)
      <3>1. /\ AddsOne(c)' \subseteq AddsOne(c) /\ AddsTwo(c)' \subseteq AddsTwo(c)
            /\ AddsThree(c)' \subseteq AddsThree(c)
        BY <2>q DEF AddsOne, AddsTwo, AddsThree
      <3>2. chat'[c].messages = chat[c].messages + 0
        BY <2>m, <2>q
      <3> QED
        BY <2>q, <3>1, <3>2, AsExpected
    <2>1. CASE Start(t)
      <3>1. /\ UNCHANGED <<chat, target>> /\ \A u \in Tab : u # t => pc'[u] = pc[u]
            /\ pc'[t] \in {"idle", "create"}
        BY <2>1 DEF Start, Goto, Types
      <3> QED
        BY <2>q, <3>1
    <2>2. CASE \E d \in Chat : Create(t, d)
      <3>1. PICK d \in Chat : Create(t, d)
        BY <2>2
      <3>2. /\ \A u \in Tab : u # t => pc'[u] = pc[u] /\ target'[u] = target[u]
            /\ c # d => chat'[c] = chat[c] /\ (target'[t] # c \/ pc'[t] = "idle")
            /\ c = d => chat'[c].messages = 0
        BY <3>1 DEF Create, Finish, Goto, Types
      <3>3. CASE c = d
        BY <2>m, <3>2, <3>3, FewMessages
      <3>4. CASE c # d
        BY <2>q, <3>2, <3>4
      <3> QED
        BY <3>3, <3>4
    <2>3. CASE Greet(t)
      <3>1. target[t] \in Chat
        BY <2>3 DEF Greet, Types
      <3>2. /\ Finish(t) /\ pc[t] = "greet"
            /\ c # target[t] => chat'[c].messages = chat[c].messages + 0
            /\ c = target[t] => chat'[c].messages = chat[c].messages + 1
        BY <2>3, <2>m, <3>1 DEF Greet, Types, Row
      <3> QED
        BY <3>2, EndsAsExpected
    <2>4. CASE \E d \in Chat : Ask(t, d)
      <3>1. PICK d \in Chat : Ask(t, d)
        BY <2>4
      <3>2. chat'[c].messages = chat[c].messages
        BY <2>m, <3>1 DEF Ask, Types, Row
      <3>3. CASE Full(d) \/ Unresolved(d, chat[d].resolved) = {}
        <4>1. UNCHANGED reqvars
          BY <3>1, <3>3 DEF Ask
        <4> QED
          BY <2>q, <3>2, <4>1
      <3>4. CASE ~(Full(d) \/ Unresolved(d, chat[d].resolved) = {})
        <4>1. pc' = [pc EXCEPT ![t] = "think"] /\ target' = [target EXCEPT ![t] = d]
          BY <3>1, <3>4 DEF Ask, Goto
        <4>2. \A u \in Tab : u # t => pc'[u] = pc[u] /\ target'[u] = target[u]
          BY <4>1 DEF Types
        <4>3. CASE c # d
          <5>1. target'[t] # c
            BY <4>1, <4>3 DEF Types
          <5> QED
            BY <2>q, <3>2, <4>2, <5>1
        <4>4. CASE c = d
          <5>1. chat'[c].messages < 2 * MaxTurns
            BY <2>m, <3>2, <3>4, <4>4 DEF Full
          <5> QED
            BY <5>1, FewMessages
        <4> QED
          BY <4>3, <4>4
      <3> QED
        BY <3>3, <3>4
    <2>5. CASE \E d \in Chat : Refuse(t, d)
      <3>1. UNCHANGED <<chat, pc, target>>
        BY <2>5 DEF Refuse, vars
      <3> QED
        BY <2>q, <3>1
    <2>6. CASE Reprompt(t)
      <3>1. target[t] \in Chat
        BY <2>6 DEF Reprompt, Types
      <3>2. /\ Finish(t) /\ pc[t] = "think"
            /\ c # target[t] => chat'[c].messages = chat[c].messages + 0
            /\ c = target[t] => chat'[c].messages = chat[c].messages + 2
        BY <2>6, <2>m, <3>1 DEF Reprompt, Answer, Types, Row
      <3> QED
        BY <3>2, EndsAsExpected
    <2>7. CASE \E f \in Field : Record(t, f)
      <3>1. /\ UNCHANGED <<chat, target>> /\ \A u \in Tab : u # t => pc'[u] = pc[u]
            /\ pc[t] = "think" /\ pc'[t] = "save"
        BY <2>7 DEF Record, Goto, Types
      <3> QED
        BY <2>q, <3>1
    <2>8. CASE Save(t)
      <3>1. target[t] \in Chat
        BY <2>8 DEF Save, Types
      <3>2. /\ target' = target /\ \A u \in Tab : u # t => pc'[u] = pc[u]
            /\ pc[t] = "save" /\ pc'[t] \in {"tip", "close"}
            /\ c # target[t] => chat'[c].messages = chat[c].messages
            /\ c = target[t] => chat'[c].messages = chat[c].messages + 1
        BY <2>8, <2>m, <3>1 DEF Save, Goto, Types, Row
      <3>3. CASE c # target[t]
        BY <2>q, <3>2, <3>3
      <3>4. CASE c = target[t]
        <4>1. /\ AddsOne(c)' \subseteq AddsOne(c) /\ AddsTwo(c)' \subseteq AddsTwo(c)
              /\ AddsThree(c)' \subseteq AddsThree(c)
              /\ t \in AddsThree(c) /\ t \notin AddsThree(c)'
          BY <3>2, <3>4 DEF AddsOne, AddsTwo, AddsThree
        <4> QED
          BY <3>2, <3>4, <4>1, AsExpected
      <3> QED
        BY <3>3, <3>4
    <2>c. ASSUME NEW n \in {1, 2}, CloseTurn(t, n), pc[t] \in {"tip", "close"}, n = 2 => pc[t] = "tip"
          PROVE  Expected(c)' < 2 * MaxTurns + 3 * Cardinality(Tab)
      <3>1. target[t] \in Chat
        BY <2>c DEF Types
      <3>2. PICK s : chat' = [chat EXCEPT ![target[t]].messages = @ + n, ![target[t]].status = s]
        BY <2>c DEF CloseTurn
      <3>3. /\ c # target[t] => chat'[c].messages = chat[c].messages + 0
            /\ c = target[t] => chat'[c].messages = chat[c].messages + n
        BY <2>m, <3>1, <3>2 DEF Types, Row
      <3>4. Finish(t)
        BY <2>c DEF CloseTurn, Answer
      <3> QED
        BY <2>c, <3>3, <3>4, EndsAsExpected
    <2>9. CASE Continue(t) \/ Suggest(t)
      BY <2>9, <2>c DEF Continue, Suggest
    <2>10. CASE Kill(t)
      <3>1. Finish(t) /\ chat'[c].messages = chat[c].messages + 0
        BY <2>10, <2>m DEF Kill
      <3> QED
        BY <3>1, EndsAsExpected
    <2> QED
      BY <2>t, <2>1, <2>2, <2>3, <2>4, <2>5, <2>6, <2>7, <2>8, <2>9, <2>10
  <1> QED
    BY <1>0, <1>n

(* Every variable keeps its type, and the requests under way cannot carry  *)
(* a chat further past the turn limit than three messages each: for any    *)
(* fields and chats, any number of tabs and deaths.                        *)
THEOREM TypeCorrect == Spec => []TypeOK
PROOF
  <1>1. Init /\ Types => Bounded
    <2> SUFFICES ASSUME Init, Types, NEW c \in Chat
                 PROVE  Expected(c) < 2 * MaxTurns + 3 * Cardinality(Tab)
      BY DEF Bounded
    <2>1. AddsOne(c) = {} /\ AddsTwo(c) = {} /\ AddsThree(c) = {} /\ chat[c].messages = 0
      BY DEF Init, AddsOne, AddsTwo, AddsThree
    <2>2. Expected(c) = 0 + 0 + 0 + 0
      BY <2>1, FS_EmptySet DEF Expected
    <2>3. Cardinality(Tab) \in Nat /\ MaxTurns \in Nat \ {0}
      BY ChatAssumption, FS_CardinalityType
    <2> QED
      BY <2>2, <2>3
  <1>2. Types /\ Types' /\ Bounded /\ [Next]_vars => Bounded'
    BY BoundedStep
  <1>3. Types /\ Bounded => TypeOK
    <2> SUFFICES ASSUME Types, Bounded, NEW c \in Chat
                 PROVE  chat[c].messages < 2 * MaxTurns + 3 * Cardinality(Tab)
      BY DEF Types, TypeOK
    <2>1. AddsOne(c) \in SUBSET Tab /\ AddsTwo(c) \in SUBSET Tab /\ AddsThree(c) \in SUBSET Tab
      BY DEF AddsOne, AddsTwo, AddsThree
    <2>2. /\ Cardinality(AddsOne(c)) \in Nat /\ Cardinality(AddsTwo(c)) \in Nat
          /\ Cardinality(AddsThree(c)) \in Nat /\ Cardinality(Tab) \in Nat
      BY <2>1, TabSets
    <2>3. chat[c].messages \in Nat /\ MaxTurns \in Nat
      BY ChatAssumption DEF Types, Row
    <2> QED
      BY <2>2, <2>3 DEF Bounded, Expected
  <1> QED
    BY <1>1, <1>2, <1>3, TypesAlways, PTL DEF Spec
=============================================================================
