-------------------------- MODULE AgentTurnsProofs --------------------------
(***************************************************************************)
(* The answering of a customer, for any number of messages, drafts,        *)
(* retries, late commands and clerks: an order of the agent is the draft   *)
(* the customer confirmed, and what the agent says of an order is true.    *)
(***************************************************************************)
EXTENDS AgentTurns, FiniteSetTheorems, TLAPS

-----------------------------------------------------------------------------
\* The rows.

DraftRow ==
  [status : DraftStatus, version : Versions, content : Versions, complete : BOOLEAN,
   agent : BOOLEAN]

TurnRow ==
  [step : Steps, draft : Drafts \cup {Null}, version : Versions, ordered : BOOLEAN,
   reply : Reply, tries : 0..MaxTries]

\* The drafts, the orders and the links.
DataInv ==
  /\ intent \in [Messages -> Intents \cup {"none"}]
  /\ botOwns \in BOOLEAN
  /\ link \in Drafts \cup {Null}
  /\ ordered \in Keys \cup {Null}
  /\ relinked \in BOOLEAN
  /\ draft \in [Drafts -> DraftRow]
  /\ order \in [Keys -> OrderRow \cup {NoOrder}]
  /\ \A d \in Drafts :
       /\ draft[d].status = "awaiting_confirmation" => draft[d].complete
       /\ draft[d].status = "absent" => draft[d].content = 0
       /\ draft[d].content <= draft[d].version
  /\ ActiveDraftIsLinked
  /\ OneOrderPerDraft

\* What is true when it is said stays true.
Truth(r) ==
  /\ r.kind = "summary" =>
       /\ r.draft \in Drafts
       /\ r.content \in Nat
       /\ r.content <= draft[r.draft].content
       /\ r.content = draft[r.draft].content => draft[r.draft].complete
  /\ r.kind = "cancelled" => r.draft \in Drafts /\ draft[r.draft].status = "cancelled"
  /\ r.kind = "ordered" =>
       /\ r.draft \in Drafts
       /\ \E k \in Keys : order[k].draft = r.draft /\ order[k].content = r.content

\* What a turn of message m with row t knows, whatever the others do.
TurnOK(m, t) ==
  /\ t \in TurnRow
  /\ t.step \in {"load", "submit", "submitting", "cancel", "cancelling", "confirm",
                 "confirming"} => t.draft \in Drafts
  /\ t.step \in {"confirm", "confirming"} => intent[m] = "confirm"
  /\ Truth(t.reply)

CommandOK(c) ==
  /\ c \in Command
  /\ c.act \in {"submitting", "cancelling", "confirming"} => c.draft \in Drafts
  /\ c.act = "confirming" => intent[c.message] = "confirm"

TurnsInv ==
  /\ DataInv
  /\ latest \in Messages \cup {Null}
  /\ summary \in [draft : Drafts \cup {Null}, content : Versions]
  /\ said \in [Messages -> Reply]
  /\ turn \in [Messages -> TurnRow]
  /\ \A m \in Messages : Truth(said[m]) /\ TurnOK(m, turn[m])
  /\ \A c \in late : CommandOK(c)

\* What no step takes back.
Grows ==
  /\ \A m \in Messages : intent[m] # "none" => intent'[m] = intent[m]
  /\ \A d \in Drafts :
       /\ draft[d].content <= draft'[d].content
       /\ (draft[d].content = draft'[d].content /\ draft[d].complete) => draft'[d].complete
       /\ draft[d].status = "cancelled" => draft'[d].status = "cancelled"
  /\ \A k \in Keys : order[k] # NoOrder =>
       order'[k].draft = order[k].draft /\ order'[k].content = order[k].content

LEMMA Contents ==
  ASSUME DataInv, NEW d \in Drafts
  PROVE  draft[d].content \in Nat /\ draft[d].version \in Nat
<1>1. draft[d] \in DraftRow
  BY DEF DataInv
<1> QED
  BY <1>1, AgentTurnsAssumption DEF DraftRow, Versions

LEMMA TruthStays ==
  ASSUME DataInv, DataInv', Grows, NEW r, Truth(r)
  PROVE  Truth(r)'
<1>1. ASSUME NEW k \in Keys, order[k].draft \in Drafts
      PROVE  order'[k].draft = order[k].draft /\ order'[k].content = order[k].content
  BY <1>1, AgentTurnsAssumption DEF Grows, NoOrder
<1>2. ASSUME r.kind = "summary"
      PROVE  /\ r.draft \in Drafts /\ r.content \in Nat
             /\ r.content <= draft'[r.draft].content
             /\ r.content = draft'[r.draft].content => draft'[r.draft].complete
  <2> PICK d, c : d = r.draft /\ c = r.content
    OBVIOUS
  <2>1. d \in Drafts /\ c \in Nat /\ c <= draft[d].content
        /\ (c = draft[d].content => draft[d].complete)
    BY <1>2 DEF Truth
  <2>2. draft[d].content \in Nat /\ draft'[d].content \in Nat
    <3>1. draft'[d] \in DraftRow
      BY <2>1 DEF DataInv
    <3> QED
      BY <2>1, <3>1, Contents, AgentTurnsAssumption DEF DraftRow, Versions
  <2>3. /\ draft[d].content <= draft'[d].content
        /\ (draft[d].content = draft'[d].content /\ draft[d].complete) => draft'[d].complete
    BY <2>1 DEF Grows
  <2> PICK a, b : a = draft[d].content /\ b = draft'[d].content
    OBVIOUS
  <2>4. c <= b /\ (c = b => c = a /\ a = b)
    BY <2>1, <2>2, <2>3
  <2> QED
    BY <2>1, <2>3, <2>4
<1> QED
  BY <1>1, <1>2 DEF Truth, Grows

LEMMA TurnStaysOK ==
  ASSUME DataInv, DataInv', Grows, NEW m \in Messages, NEW t, TurnOK(m, t)
  PROVE  TurnOK(m, t)'
<1>1. Truth(t.reply)'
  BY TruthStays DEF TurnOK
<1> QED
  BY <1>1 DEF TurnOK, Grows

LEMMA CommandStaysOK ==
  ASSUME DataInv, Grows, NEW c, CommandOK(c)
  PROVE  CommandOK(c)'
<1>1. c.message \in Messages
  BY DEF CommandOK, Command
<1> QED
  BY <1>1 DEF CommandOK, Grows

LEMMA FreshReply == NoReply \in Reply /\ Truth(NoReply)
  BY AgentTurnsAssumption DEF NoReply, Reply, ReplyKind, Versions, Truth

LEMMA FreshTurn == Fresh \in TurnRow /\ \A m \in Messages : TurnOK(m, Fresh)
<1>1. Fresh \in TurnRow
  BY FreshReply, AgentTurnsAssumption DEF Fresh, TurnRow, Steps, Versions
<1> QED
  BY <1>1, FreshReply DEF Fresh, TurnOK

LEMMA TurnsInitially == Init => TurnsInv
<1> SUFFICES ASSUME Init PROVE TurnsInv
  OBVIOUS
<1>1. DataInv
  <2>1. NoDraft \in DraftRow
    BY AgentTurnsAssumption DEF NoDraft, DraftRow, DraftStatus, Versions
  <2>2. \A d \in Drafts : draft[d] = NoDraft
    BY DEF Init
  <2>3. NoDraft.status = "absent" /\ NoDraft.content = 0 /\ NoDraft.version = 0
    BY DEF NoDraft
  <2>4. ActiveDraftIsLinked
    BY <2>2, <2>3 DEF ActiveDraftIsLinked, Active
  <2>5. OneOrderPerDraft
    BY DEF Init, OneOrderPerDraft, Keys
  <2>6. \A d \in Drafts :
          /\ draft[d].status = "awaiting_confirmation" => draft[d].complete
          /\ draft[d].status = "absent" => draft[d].content = 0
          /\ draft[d].content <= draft[d].version
    BY <2>2, <2>3
  <2> QED
    BY <2>1, <2>4, <2>5, <2>6 DEF Init, DataInv
<1>2. \A m \in Messages : Truth(said[m]) /\ TurnOK(m, turn[m])
  BY FreshReply, FreshTurn DEF Init
<1> QED
  BY <1>1, <1>2, FreshReply, FreshTurn, AgentTurnsAssumption DEF Init, TurnsInv, Versions

-----------------------------------------------------------------------------
\* The commands of the order service.

LEMMA NothingGrows ==
  ASSUME DataInv, UNCHANGED <<intent, botOwns, link, ordered, relinked, draft, order>>
  PROVE  DataInv' /\ Grows
<1>1. \A d \in Drafts : draft[d].content <= draft[d].content
  BY Contents
<1>2. Grows
  BY <1>1 DEF Grows
<1> QED
  BY <1>2 DEF DataInv, ActiveDraftIsLinked, Active, OneOrderPerDraft

\* A change of one draft that is not confirmed by it, nor made by it.
LEMMA DraftChanges ==
  ASSUME DataInv, NEW d \in Drafts, NEW row \in DraftRow,
         draft' = [draft EXCEPT ![d] = row], UNCHANGED <<intent, conversation, order>>,
         draft[d].status \notin {"absent", "confirmed"},
         draft[d].status = "cancelled" => row.status = "cancelled",
         row.status # "absent", row.agent = draft[d].agent,
         row.status \in {"draft", "awaiting_confirmation"} =>
           draft[d].status \in {"draft", "awaiting_confirmation"},
         draft[d].content <= row.content, row.content <= row.version,
         draft[d].content = row.content /\ draft[d].complete => row.complete,
         row.status = "awaiting_confirmation" => row.complete
  PROVE  DataInv' /\ Grows
<1>1. draft' \in [Drafts -> DraftRow] /\ draft'[d] = row
      /\ \A e \in Drafts \ {d} : draft'[e] = draft[e]
  BY DEF DataInv
<1>2. Grows
  <2>1. \A e \in Drafts : draft[e].content <= draft[e].content
    BY Contents
  <2> QED
    BY <1>1, <2>1 DEF Grows
<1>3. ActiveDraftIsLinked'
  BY <1>1 DEF DataInv, conversation, ActiveDraftIsLinked, Active
<1>4. OneOrderPerDraft'
  BY <1>1 DEF DataInv, conversation, OneOrderPerDraft
<1>5. \A e \in Drafts :
        /\ draft'[e].status = "awaiting_confirmation" => draft'[e].complete
        /\ draft'[e].status = "absent" => draft'[e].content = 0
        /\ draft'[e].content <= draft'[e].version
  BY <1>1 DEF DataInv
<1> QED
  BY <1>1, <1>2, <1>3, <1>4, <1>5 DEF DataInv, conversation

LEMMA CreateGrows ==
  ASSUME DataInv, NEW d \in Drafts, NEW full \in BOOLEAN, CanCreate(d), CreateDraft(d, full),
         UNCHANGED intent
  PROVE  DataInv' /\ Grows /\ draft'[d].version \in Versions
<1> DEFINE row == [status |-> "draft", version |-> 1, content |-> 1, complete |-> full,
                   agent |-> TRUE]
<1>1. row \in DraftRow
  BY AgentTurnsAssumption DEF DraftRow, DraftStatus, Versions
<1>2. draft' = [draft EXCEPT ![d] = row] /\ link' = d
      /\ UNCHANGED <<botOwns, ordered, relinked, order>>
  BY DEF CreateDraft
<1>3. row.status = "draft" /\ row.version \in Versions /\ row.content = 1 /\ row.version = 1
  BY <1>1 DEF DraftRow
<1> HIDE DEF row
<1>4. draft' \in [Drafts -> DraftRow] /\ draft'[d] = row
      /\ \A e \in Drafts \ {d} : draft'[e] = draft[e]
  BY <1>1, <1>2 DEF DataInv
<1>5. draft[d].status = "absent" /\ draft[d].content = 0 /\ ~Active(link)
  BY DEF DataInv, CanCreate
<1>6. Grows
  <2>1. \A e \in Drafts : draft[e].content <= draft[e].content
    BY Contents
  <2> QED
    BY <1>2, <1>3, <1>4, <1>5, <2>1 DEF Grows
<1>7. ActiveDraftIsLinked'
  BY <1>2, <1>4, <1>5 DEF DataInv, ActiveDraftIsLinked, Active
<1>8. OneOrderPerDraft'
  BY <1>2, <1>4, <1>5 DEF DataInv, OneOrderPerDraft
<1>9. \A e \in Drafts :
        /\ draft'[e].status = "awaiting_confirmation" => draft'[e].complete
        /\ draft'[e].status = "absent" => draft'[e].content = 0
        /\ draft'[e].content <= draft'[e].version
  BY <1>3, <1>4 DEF DataInv
<1> QED
  BY <1>2, <1>3, <1>4, <1>6, <1>7, <1>8, <1>9 DEF DataInv

LEMMA DraftTypes ==
  ASSUME DataInv, NEW d \in Drafts
  PROVE  /\ draft[d] \in DraftRow
         /\ draft[d].status \in DraftStatus /\ draft[d].complete \in BOOLEAN
         /\ draft[d].content \in Versions /\ draft[d].version \in Versions
         /\ draft[d].version \in Nat /\ draft[d].content \in Nat
         /\ draft[d].content <= draft[d].version
         /\ Room(d) => draft[d].version + 1 \in Versions
<1>1. draft[d] \in DraftRow
  BY DEF DataInv
<1>2. draft[d].version \in Versions /\ draft[d].content \in Versions
  BY <1>1 DEF DraftRow
<1>3. draft[d].content <= draft[d].version
  BY DEF DataInv
<1> QED
  BY <1>1, <1>2, <1>3, AgentTurnsAssumption DEF DraftRow, Versions, Room

LEMMA UpdateGrows ==
  ASSUME DataInv, NEW d \in Drafts, NEW complete \in BOOLEAN, NEW v, CanUpdate(d, v),
         UpdateDraft(d, complete), UNCHANGED intent
  PROVE  DataInv' /\ Grows /\ draft'[d].version \in Versions
<1> PICK s : s = draft[d]
  OBVIOUS
<1> PICK n : n = [s EXCEPT !.status = "draft", !.version = @ + 1, !.content = s.version + 1,
                           !.complete = complete]
  OBVIOUS
<1>1. /\ s \in DraftRow /\ s.version + 1 \in Versions
      /\ s.version \in Nat /\ s.content \in Nat /\ s.content <= s.version
      /\ s.status \in {"draft", "awaiting_confirmation"}
  BY DraftTypes DEF CanUpdate, Active
<1>2. "draft" \in DraftStatus
  BY DEF DraftStatus
<1>3. /\ n \in DraftRow /\ n.status = "draft" /\ n.version \in Versions /\ n.agent = s.agent
      /\ n.content = s.version + 1 /\ n.version = s.version + 1
  BY <1>1, <1>2, Zenon DEF DraftRow
<1>6. s.content <= n.content /\ s.content # n.content /\ n.content <= n.version
  BY <1>1, <1>3
<1>4. draft' = [draft EXCEPT ![d] = n] /\ UNCHANGED <<conversation, order>>
  BY DEF UpdateDraft
<1>5. draft'[d] = n
  BY <1>4 DEF DataInv
<1> QED
  BY <1>1, <1>3, <1>4, <1>5, <1>6, DraftChanges

LEMMA AgentUpdateGrows ==
  ASSUME DataInv, NEW d \in Drafts, NEW full \in BOOLEAN, NEW v, CanUpdate(d, v),
         AgentUpdates(d, full), UNCHANGED intent
  PROVE  DataInv' /\ Grows /\ draft'[d].version \in Versions
<1> PICK complete \in BOOLEAN : complete = (draft[d].complete \/ full)
  OBVIOUS
<1>1. UpdateDraft(d, complete)
  BY DEF AgentUpdates
<1> QED
  BY <1>1, UpdateGrows

LEMMA SubmitGrows ==
  ASSUME DataInv, NEW d \in Drafts, NEW v, CanSubmit(d, v), SubmitDraft(d), UNCHANGED intent
  PROVE  /\ DataInv' /\ Grows
         /\ draft'[d].complete /\ draft'[d].content = draft[d].content
<1> PICK s : s = draft[d]
  OBVIOUS
<1> PICK n : n = [s EXCEPT !.status = "awaiting_confirmation", !.version = @ + 1]
  OBVIOUS
<1>1. /\ s \in DraftRow /\ s.version + 1 \in Versions /\ s.complete
      /\ s.version \in Nat /\ s.content \in Nat /\ s.content <= s.version
      /\ s.status = "draft"
  BY DraftTypes DEF CanSubmit
<1>2. "awaiting_confirmation" \in DraftStatus
  BY DEF DraftStatus
<1>3. /\ n \in DraftRow /\ n.status = "awaiting_confirmation" /\ n.agent = s.agent
      /\ n.complete = s.complete /\ n.content = s.content /\ n.version = s.version + 1
  BY <1>1, <1>2, Zenon DEF DraftRow
<1>6. s.content <= n.content /\ n.content <= n.version
  BY <1>1, <1>3
<1>4. draft' = [draft EXCEPT ![d] = n] /\ UNCHANGED <<conversation, order>>
  BY DEF SubmitDraft
<1>5. draft'[d] = n
  BY <1>4 DEF DataInv
<1> QED
  BY <1>1, <1>3, <1>4, <1>5, <1>6, DraftChanges

LEMMA CancelGrows ==
  ASSUME DataInv, NEW d \in Drafts, NEW v, CanCancel(d, v), CancelDraft(d), UNCHANGED intent
  PROVE  DataInv' /\ Grows /\ draft'[d].status = "cancelled"
<1> PICK s : s = draft[d]
  OBVIOUS
<1>1. CASE s.status = "cancelled"
  BY <1>1, NothingGrows DEF CancelDraft, conversation
<1>2. CASE s.status # "cancelled"
  <2> PICK n : n = [s EXCEPT !.status = "cancelled", !.version = @ + 1]
    OBVIOUS
  <2>1. /\ s \in DraftRow /\ s.version + 1 \in Versions
        /\ s.version \in Nat /\ s.content \in Nat /\ s.content <= s.version
        /\ s.status \in {"draft", "awaiting_confirmation"}
    BY <1>2, DraftTypes DEF CanCancel, Active
  <2>2. "cancelled" \in DraftStatus
    BY DEF DraftStatus
  <2>3. /\ n \in DraftRow /\ n.status = "cancelled" /\ n.agent = s.agent
        /\ n.complete = s.complete /\ n.content = s.content /\ n.version = s.version + 1
    BY <2>1, <2>2, Zenon DEF DraftRow
  <2>6. s.content <= n.content /\ n.content <= n.version
    BY <2>1, <2>3
  <2>4. draft' = [draft EXCEPT ![d] = n] /\ UNCHANGED <<conversation, order>>
    BY <1>2 DEF CancelDraft
  <2>5. draft'[d] = n
    BY <2>4 DEF DataInv
  <2> QED
    BY <2>1, <2>3, <2>4, <2>5, <2>6, DraftChanges
<1> QED
  BY <1>1, <1>2

\* A confirmation under key k, by the agent (who links the order) or by a clerk.
LEMMA ConfirmGrows ==
  ASSUME DataInv, NEW d \in Drafts, NEW k \in Keys, NEW v, CanConfirm(k, d, v),
         ConfirmDraft(k, d, v), UNCHANGED <<intent, botOwns, link, relinked>>,
         \/ /\ k \in Messages /\ intent[k] = "confirm"
            /\ ordered \in {Null, k} /\ ordered' = k
         \/ k \notin Messages /\ ordered' = ordered
  PROVE  /\ DataInv' /\ Grows
         /\ order'[k] \in OrderRow /\ order'[k].draft = d
<1>1. ASSUME NEW m \in Messages, order[m] # NoOrder, ~relinked
      PROVE  ordered' = m
  BY <1>1, AgentTurnsAssumption DEF DataInv, OneOrderPerDraft
<1>2. order[k] \in OrderRow \cup {NoOrder} /\ ordered' \in Keys \cup {Null}
  BY DEF DataInv
<1>5. \A e \in Drafts : draft[e].content <= draft[e].content
  BY Contents
<1>3. CASE Replayed(k, d, v)
  <2>1. UNCHANGED <<draft, order>>
    BY <1>3 DEF ConfirmDraft
  <2>2. order[k] # NoOrder /\ order[k].draft = d
    BY <1>3 DEF Replayed
  <2>3. Grows
    BY <1>5, <2>1 DEF Grows
  <2>4. OneOrderPerDraft'
    BY <1>1, <2>1 DEF DataInv, OneOrderPerDraft
  <2>5. ActiveDraftIsLinked'
    BY <2>1 DEF DataInv, ActiveDraftIsLinked, Active
  <2> QED
    BY <1>2, <2>1, <2>2, <2>3, <2>4, <2>5 DEF DataInv
<1>4. CASE ~Replayed(k, d, v)
  <2> PICK s : s = draft[d]
    OBVIOUS
  <2>13. PICK n : n = [s EXCEPT !.status = "confirmed"]
    OBVIOUS
  <2>14. PICK row : row = [draft |-> d, version |-> v, content |-> s.content,
                           status |-> "confirmed"]
    OBVIOUS
  <2>1. /\ order[k] = NoOrder /\ s.status = "awaiting_confirmation" /\ v = s.version
        /\ s \in DraftRow /\ s.version \in Versions
        /\ s.content \in Versions /\ s.content <= s.version /\ s.complete
    BY <1>4, DraftTypes DEF CanConfirm, DataInv
  <2>2. "confirmed" \in DraftStatus
    BY DEF DraftStatus
  <2>3. /\ n \in DraftRow /\ n.status = "confirmed" /\ n.complete = s.complete
        /\ n.content = s.content /\ n.version = s.version
    BY <2>1, <2>2, <2>13, Zenon DEF DraftRow
  <2>4. row \in OrderRow /\ row # NoOrder /\ row.draft = d
    BY <2>1, <2>14, AgentTurnsAssumption DEF OrderRow, NoOrder
  <2>5. draft' = [draft EXCEPT ![d] = n] /\ order' = [order EXCEPT ![k] = row]
    BY <1>4, <2>13, <2>14 DEF ConfirmDraft
  <2>6. /\ draft' \in [Drafts -> DraftRow] /\ draft'[d] = n
        /\ \A e \in Drafts \ {d} : draft'[e] = draft[e]
    BY <2>3, <2>5 DEF DataInv
  <2>7. /\ order' \in [Keys -> OrderRow \cup {NoOrder}] /\ order'[k] = row
        /\ \A j \in Keys \ {k} : order'[j] = order[j]
    BY <2>4, <2>5 DEF DataInv
  <2>8. Grows
    BY <1>5, <2>1, <2>3, <2>6, <2>7 DEF Grows
  <2>9. \A j \in Keys : order[j] # NoOrder => order[j].draft # d
    BY <2>1 DEF DataInv, OneOrderPerDraft
  <2>10. OneOrderPerDraft'
    <3>1. \A i, j \in Keys : order'[i] # NoOrder /\ order'[j] # NoOrder
                               /\ order'[i].draft = order'[j].draft => i = j
      BY <2>4, <2>7, <2>9 DEF DataInv, OneOrderPerDraft
    <3>2. ASSUME NEW j \in Keys, order'[j] # NoOrder
          PROVE  draft'[order'[j].draft].status = "confirmed"
      <4>1. CASE j = k
        BY <2>3, <2>4, <2>6, <2>7, <4>1
      <4>2. CASE j # k
        <5>1. order[j] # NoOrder /\ order'[j] = order[j] /\ order[j] \in OrderRow
          BY <2>7, <3>2, <4>2 DEF DataInv
        <5>2. order[j].draft \in Drafts \ {d}
          BY <2>9, <5>1 DEF OrderRow
        <5> QED
          BY <2>6, <5>1, <5>2 DEF DataInv, OneOrderPerDraft
      <4> QED
        BY <4>1, <4>2
    <3>3. \A m \in Messages : order'[m] # NoOrder =>
            intent'[m] = "confirm" /\ (relinked' \/ ordered' = m)
      BY <1>1, <2>7 DEF DataInv, OneOrderPerDraft, Keys
    <3> QED
      BY <3>1, <3>2, <3>3 DEF OneOrderPerDraft
  <2>11. ActiveDraftIsLinked'
    BY <2>3, <2>6 DEF DataInv, ActiveDraftIsLinked, Active
  <2>12. \A e \in Drafts :
           /\ draft'[e].status = "awaiting_confirmation" => draft'[e].complete
           /\ draft'[e].status = "absent" => draft'[e].content = 0
           /\ draft'[e].content <= draft'[e].version
    BY <2>1, <2>3, <2>6 DEF DataInv
  <2> QED
    BY <1>2, <2>4, <2>6, <2>7, <2>8, <2>10, <2>11, <2>12 DEF DataInv
<1> QED
  BY <1>3, <1>4

LEMMA AgentConfirmGrows ==
  ASSUME DataInv, NEW d \in Drafts, NEW m \in Messages, NEW v, intent[m] = "confirm",
         AgentConfirms(m, d, v), UNCHANGED intent
  PROVE  /\ DataInv' /\ Grows
         /\ order'[m] \in OrderRow /\ order'[m].draft = d
<1>1. m \in Keys
  BY DEF Keys
<1>2. CanConfirm(m, d, v) /\ ConfirmDraft(m, d, v) /\ ordered \in {Null, m} /\ ordered' = m
      /\ UNCHANGED <<intent, botOwns, link, relinked>>
  BY DEF AgentConfirms, CanLinkOrder
<1> QED
  BY <1>1, <1>2, ConfirmGrows

-----------------------------------------------------------------------------
\* The turns.

\* Turn m goes on with row n.
LEMMA TurnMoves ==
  ASSUME TurnsInv, DataInv', Grows, NEW m \in Messages, NEW n,
         turn' = [turn EXCEPT ![m] = n], TurnOK(m, n)', UNCHANGED <<latest, said, summary>>,
         \A c \in late' : c \in late \/ CommandOK(c)
  PROVE  TurnsInv'
<1>1. \A c \in late' : CommandOK(c)'
  BY CommandStaysOK DEF TurnsInv
<1>2. turn' \in [Messages -> TurnRow]
  BY DEF TurnsInv, TurnOK
<1>3. ASSUME NEW o \in Messages
      PROVE  Truth(said[o])' /\ TurnOK(o, turn[o])'
  <2> PICK r, t : r = said[o] /\ t = turn[o]
    OBVIOUS
  <2>1. Truth(r)' /\ TurnOK(o, t)'
    BY TruthStays, TurnStaysOK DEF TurnsInv
  <2>2. said'[o] = r /\ turn'[o] = IF o = m THEN n ELSE t
    BY DEF TurnsInv
  <2> QED
    BY <2>1, <2>2
<1> QED
  BY <1>1, <1>2, <1>3 DEF TurnsInv

\* Nothing of the turns and replies changes.
LEMMA DeskKeeps ==
  ASSUME TurnsInv, DataInv', Grows, UNCHANGED <<latest, said, summary, turn>>,
         late' \subseteq late
  PROVE  TurnsInv'
<1>1. \A c \in late' : CommandOK(c)'
  BY CommandStaysOK DEF TurnsInv
<1>2. ASSUME NEW o \in Messages
      PROVE  Truth(said[o])' /\ TurnOK(o, turn[o])'
  <2> PICK r, t : r = said[o] /\ t = turn[o]
    OBVIOUS
  <2>1. Truth(r)' /\ TurnOK(o, t)'
    BY TruthStays, TurnStaysOK DEF TurnsInv
  <2> QED
    BY <2>1
<1> QED
  BY <1>1, <1>2 DEF TurnsInv

LEMMA ReplyTypes ==
  ASSUME NEW kind \in ReplyKind, NEW d \in Drafts \cup {Null}, NEW content \in Versions
  PROVE  Says(kind, d, content) \in Reply
  BY DEF Says, Reply

LEMMA PlainReplies ==
  ASSUME NEW r \in Direct \cup Composed \cup NoActiveDraft \cup {NoReply}
  PROVE  r \in Reply /\ Truth(r) /\ Truth(r)'
<1>1. 0 \in Versions
  BY AgentTurnsAssumption DEF Versions
<1> QED
  BY <1>1 DEF Direct, Composed, NoActiveDraft, Says, Reply, ReplyKind, NoReply, Truth

\* A turn ends its work with a reply that is true.
LEMMA AnswerKeeps ==
  ASSUME TurnsInv, DataInv', Grows, NEW m \in Messages, NEW r \in Reply, Truth(r)',
         Answer(m, r), UNCHANGED <<latest, said, summary>>,
         \A c \in late' : c \in late \/ CommandOK(c)
  PROVE  TurnsInv'
<1> PICK n : n = [Fresh EXCEPT !.step = "answer", !.reply = r, !.tries = turn[m].tries]
  OBVIOUS
<1>1. Fresh \in TurnRow /\ turn[m].tries \in 0..MaxTries /\ "answer" \in Steps
  BY FreshTurn DEF TurnsInv, TurnRow, Steps
<1>2. n \in TurnRow /\ n.step = "answer" /\ n.reply = r
  BY <1>1, Zenon DEF TurnRow
<1>3. TurnOK(m, n)'
  BY <1>2 DEF TurnOK
<1>4. turn' = [turn EXCEPT ![m] = n]
  BY DEF Answer
<1> QED
  BY <1>3, <1>4, TurnMoves

LEMMA PlainAnswerKeeps ==
  ASSUME TurnsInv, DataInv', Grows, NEW m \in Messages, NEW kind \in {"other", "handoff"},
         Answer(m, Says(kind, Null, 0)), UNCHANGED <<latest, said, summary>>,
         \A c \in late' : c \in late \/ CommandOK(c)
  PROVE  TurnsInv'
<1>1. Says(kind, Null, 0) \in Direct
  BY DEF Direct
<1> QED
  BY <1>1, PlainReplies, AnswerKeeps

\* A turn goes to another step, for a draft that it has seen.
LEMMA GoesKeeps ==
  ASSUME TurnsInv, DataInv', Grows, NEW m \in Messages, NEW n \in TurnRow,
         turn' = [turn EXCEPT ![m] = n], n.reply = turn[m].reply,
         n.step \in {"load", "submit", "submitting", "cancel", "cancelling", "confirm",
                     "confirming"} => n.draft \in Drafts,
         n.step \in {"confirm", "confirming"} => intent[m] = "confirm",
         UNCHANGED <<latest, said, summary, late>>
  PROVE  TurnsInv'
<1>1. TurnOK(m, n)
  BY DEF TurnsInv, TurnOK
<1>2. TurnOK(m, n)'
  BY <1>1, TurnStaysOK DEF TurnsInv
<1> QED
  BY <1>2, TurnMoves

LEMMA StepNames ==
  /\ "cancel" \in Steps /\ "confirm" \in Steps
  /\ "save" \in Steps /\ "submit" \in Steps
  BY DEF Steps, Checks

LEMMA StepRow ==
  ASSUME NEW t \in TurnRow, NEW step \in Steps, NEW n, n = [t EXCEPT !.step = step]
  PROVE  n \in TurnRow /\ n.step = step /\ n.draft = t.draft /\ n.reply = t.reply
  BY Zenon DEF TurnRow

\* A query, or a reload: the data stays.
LEMMA ReadGrows ==
  ASSUME TurnsInv, UNCHANGED <<intent, conversation, draft, order>>
  PROVE  DataInv' /\ Grows
  BY NothingGrows DEF TurnsInv, conversation

LEMMA BeginKeeps ==
  ASSUME TurnsInv, NEW m \in Messages, Begin(m)
  PROVE  TurnsInv'
<1>1. DataInv' /\ Grows
  BY ReadGrows DEF Begin
<1>2. PICK step \in Steps, reply \in Direct \cup Composed \cup {NoReply} :
        /\ CASE intent[m] = "ask"    -> step = "answer" /\ reply \in Direct \cup Composed
             [] link # Null          -> step = "load" /\ reply = NoReply
             [] intent[m] = "create" -> step = "save" /\ reply = NoReply
             [] OTHER                -> step = "answer" /\ reply \in NoActiveDraft
        /\ turn' = [turn EXCEPT ![m] =
             [step |-> step, draft |-> link, version |-> 0, ordered |-> ordered # Null,
              reply |-> reply, tries |-> @.tries + 1]]
  BY DEF Begin
<1> PICK n : n = [step |-> step, draft |-> link, version |-> 0, ordered |-> ordered # Null,
                  reply |-> reply, tries |-> turn[m].tries + 1]
  OBVIOUS
<1>3. turn[m].tries + 1 \in 0..MaxTries
  <2>1. turn[m].tries \in 0..MaxTries /\ turn[m].tries < MaxTries
    BY DEF Begin, TurnsInv, TurnRow
  <2> QED
    BY <2>1, AgentTurnsAssumption
<1>4. link \in Drafts \cup {Null} /\ 0 \in Versions
  BY AgentTurnsAssumption DEF TurnsInv, DataInv, Versions
<1>5. n \in TurnRow
  BY <1>3, <1>4, PlainReplies DEF TurnRow
<1>6. /\ n.step \in {"load", "answer", "save"} /\ n.draft = link /\ n.reply = reply
      /\ n.step = "load" => link # Null
  BY <1>2
<1>7. TurnOK(m, n)'
  BY <1>4, <1>5, <1>6, PlainReplies DEF TurnOK
<1>8. turn' = [turn EXCEPT ![m] = n] /\ UNCHANGED <<latest, said, summary, late>>
  BY <1>2 DEF Begin
<1> QED
  BY <1>1, <1>7, <1>8, TurnMoves

LEMMA LoadKeeps ==
  ASSUME TurnsInv, NEW m \in Messages, Load(m)
  PROVE  TurnsInv'
<1>1. DataInv' /\ Grows /\ UNCHANGED <<latest, said, summary, late, draft>>
  BY ReadGrows DEF Load
<1> PICK t, d : t = turn[m] /\ d = t.draft
  OBVIOUS
<1>2. t \in TurnRow /\ d \in Drafts /\ DataInv
  BY DEF Load, At, TurnsInv, TurnOK
<1>3. draft[d].version \in Versions /\ draft[d].content \in Versions
  BY <1>2, DraftTypes
<1>4. ASSUME NEW kind \in {"other", "handoff"}, Answer(m, Says(kind, Null, 0))
      PROVE  TurnsInv'
  BY <1>1, <1>4, PlainAnswerKeeps
<1>5. ASSUME link = d, intent[m] = "cancel", AskCancel(m, d)
      PROVE  TurnsInv'
  <2>1. CASE draft[d].status = "cancelled"
    <3> PICK r : r = Says("cancelled", d, 0)
      OBVIOUS
    <3>1. r \in Reply /\ r.kind = "cancelled" /\ r.draft = d
      BY <1>2, ReplyTypes, AgentTurnsAssumption DEF ReplyKind, Versions, Says
    <3>2. Truth(r)'
      BY <1>1, <1>2, <2>1, <3>1 DEF Truth
    <3> QED
      BY <1>1, <1>5, <2>1, <3>1, <3>2, AnswerKeeps DEF AskCancel
  <2>2. CASE Answer(m, Says("handoff", Null, 0))
    BY <1>4, <2>2
  <2>3. CASE turn' = [turn EXCEPT ![m].step = "cancel", ![m].version = draft[d].version]
    <3> PICK n : n = [t EXCEPT !.step = "cancel", !.version = draft[d].version]
      OBVIOUS
    <3>1. n \in TurnRow /\ n.step = "cancel" /\ n.draft = d /\ n.reply = t.reply
      BY <1>2, <1>3, StepNames, Zenon DEF TurnRow
    <3>2. turn' = [turn EXCEPT ![m] = n]
      BY <2>3
    <3> QED
      BY <1>1, <1>2, <3>1, <3>2, GoesKeeps
  <2> QED
    BY <1>5, <2>1, <2>2, <2>3 DEF AskCancel
<1>6. ASSUME link = d, intent[m] = "confirm", AskConfirm(m, d)
      PROVE  TurnsInv'
  <2>1. CASE Answer(m, Says("other", Null, 0))
    BY <1>4, <2>1
  <2>2. CASE turn' = [turn EXCEPT ![m].step = "confirm", ![m].version = draft[d].version]
    <3> PICK n : n = [t EXCEPT !.step = "confirm", !.version = draft[d].version]
      OBVIOUS
    <3>1. n \in TurnRow /\ n.step = "confirm" /\ n.draft = d /\ n.reply = t.reply
      BY <1>2, <1>3, StepNames, Zenon DEF TurnRow
    <3>2. turn' = [turn EXCEPT ![m] = n]
      BY <2>2
    <3> QED
      BY <1>1, <1>2, <1>6, <3>1, <3>2, GoesKeeps
  <2> QED
    BY <1>6, <2>1, <2>2 DEF AskConfirm
<1>7. ASSUME link = d, intent[m] = "affirm", Affirm(m, d)
      PROVE  TurnsInv'
  <2>1. CASE draft[d].status = "awaiting_confirmation"
    <3> PICK r : r = Says("summary", d, draft[d].content)
      OBVIOUS
    <3>1. r \in Reply /\ r.kind = "summary" /\ r.draft = d /\ r.content = draft[d].content
      BY <1>2, <1>3, ReplyTypes DEF ReplyKind, Says
    <3>2. draft[d].content \in Nat /\ draft[d].content <= draft[d].content /\ draft[d].complete
      BY <1>2, <2>1, Contents DEF DataInv
    <3>3. Truth(r)'
      BY <1>1, <1>2, <3>1, <3>2 DEF Truth
    <3> QED
      BY <1>1, <1>7, <2>1, <3>1, <3>3, AnswerKeeps DEF Affirm
  <2>2. CASE draft[d].status # "awaiting_confirmation"
    BY <1>4, <1>7, <2>2 DEF Affirm
  <2> QED
    BY <2>1, <2>2
<1>8. ASSUME link = d, Edit(m, d)
      PROVE  TurnsInv'
  <2>1. CASE Answer(m, Says("other", Null, 0))
    BY <1>4, <2>1
  <2>2. CASE turn' = [turn EXCEPT ![m].step = "save", ![m].version = draft[d].version]
    <3> PICK n : n = [t EXCEPT !.step = "save", !.version = draft[d].version]
      OBVIOUS
    <3>1. n \in TurnRow /\ n.step = "save" /\ n.reply = t.reply
      BY <1>2, <1>3, StepNames, Zenon DEF TurnRow
    <3>2. turn' = [turn EXCEPT ![m] = n]
      BY <2>2
    <3> QED
      BY <1>1, <1>2, <3>1, <3>2, GoesKeeps
  <2>3. CASE turn' = [turn EXCEPT ![m].step = "save", ![m].draft = Null]
    <3> PICK n : n = [t EXCEPT !.step = "save", !.draft = Null]
      OBVIOUS
    <3>1. n \in TurnRow /\ n.step = "save" /\ n.reply = t.reply
      BY <1>2, <1>3, StepNames, Zenon DEF TurnRow
    <3>2. turn' = [turn EXCEPT ![m] = n]
      BY <2>3
    <3> QED
      BY <1>1, <1>2, <3>1, <3>2, GoesKeeps
  <2> QED
    BY <1>8, <2>1, <2>2, <2>3 DEF Edit
<1>9. \/ Answer(m, Says("handoff", Null, 0))
      \/ /\ link = d
         /\ \/ intent[m] = "cancel" /\ AskCancel(m, d)
            \/ intent[m] = "confirm" /\ AskConfirm(m, d)
            \/ intent[m] = "affirm" /\ Affirm(m, d)
            \/ Edit(m, d)
  BY DEF Load
<1> QED
  BY <1>4, <1>5, <1>6, <1>7, <1>8, <1>9

LEMMA CheckKeeps ==
  ASSUME TurnsInv, NEW m \in Messages, Check(m)
  PROVE  TurnsInv'
<1>1. DataInv' /\ Grows /\ UNCHANGED <<latest, said, summary, late>>
  BY ReadGrows DEF Check
<1> PICK t : t = turn[m]
  OBVIOUS
<1>2. t \in TurnRow /\ TurnOK(m, t) /\ t.step \in {"save", "submit", "cancel"}
  BY DEF Check, Checks, TurnsInv
<1>3. CASE Answer(m, Says("other", Null, 0))
  BY <1>1, <1>3, PlainAnswerKeeps
<1>4. CASE GoTo(m, ActOf[t.step])
  <2> PICK step : step = ActOf[t.step]
    OBVIOUS
  <2>1. /\ step \in {"saving", "submitting", "cancelling"}
        /\ step # "saving" => t.step \in {"submit", "cancel"}
    BY <1>2 DEF ActOf
  <2> PICK n : n = [t EXCEPT !.step = step]
    OBVIOUS
  <2>2. n \in TurnRow /\ n.step = step /\ n.draft = t.draft /\ n.reply = t.reply
    BY <1>2, <2>1, StepRow DEF Steps, Acts
  <2>3. turn' = [turn EXCEPT ![m] = n]
    BY <1>4 DEF GoTo
  <2>4. n.step # "saving" => n.draft \in Drafts
    BY <1>2, <2>1, <2>2 DEF TurnOK
  <2> QED
    BY <1>1, <2>1, <2>2, <2>3, <2>4, GoesKeeps
<1> QED
  BY <1>3, <1>4 DEF Check

LEMMA ConfirmCheckKeeps ==
  ASSUME TurnsInv, NEW m \in Messages, ConfirmCheck(m)
  PROVE  TurnsInv'
<1>1. DataInv' /\ Grows /\ UNCHANGED <<latest, said, summary, late, order>>
  BY ReadGrows DEF ConfirmCheck
<1> PICK t : t = turn[m]
  OBVIOUS
<1>2. t \in TurnRow /\ t.step = "confirm" /\ t.draft \in Drafts /\ intent[m] = "confirm"
  BY DEF ConfirmCheck, At, TurnsInv, TurnOK
<1>3. CASE Answer(m, Says("other", Null, 0)) \/ Answer(m, Says("handoff", Null, 0))
  BY <1>1, <1>3, PlainAnswerKeeps
<1>4. CASE GoTo(m, "confirming")
  <2> PICK n : n = [t EXCEPT !.step = "confirming"]
    OBVIOUS
  <2>1. n \in TurnRow /\ n.step = "confirming" /\ n.draft = t.draft /\ n.reply = t.reply
    BY <1>2, StepRow DEF Steps, Acts
  <2>2. turn' = [turn EXCEPT ![m] = n]
    BY <1>4 DEF GoTo
  <2> QED
    BY <1>1, <1>2, <2>1, <2>2, GoesKeeps
<1>5. ASSUME ordered # Null, order[ordered].draft = t.draft,
             Answer(m, Says("ordered", t.draft, order[ordered].content))
      PROVE  TurnsInv'
  <2> PICK r : r = Says("ordered", t.draft, order[ordered].content)
    OBVIOUS
  <2>1. ordered \in Keys /\ order[ordered] \in OrderRow
    BY <1>2, <1>5, AgentTurnsAssumption DEF TurnsInv, DataInv, NoOrder
  <2>2. r \in Reply /\ r.kind = "ordered" /\ r.draft = t.draft
        /\ r.content = order[ordered].content
    BY <1>2, <2>1, ReplyTypes DEF ReplyKind, Says, OrderRow
  <2>3. Truth(r)'
    BY <1>1, <1>2, <1>5, <2>1, <2>2 DEF Truth
  <2> QED
    BY <1>1, <1>5, <2>2, <2>3, AnswerKeeps
<1> QED
  BY <1>3, <1>4, <1>5 DEF ConfirmCheck

LEMMA RefusedKeeps ==
  ASSUME TurnsInv, NEW m \in Messages, Refused(m), UNCHANGED <<intent, latest, said, summary, late>>
  PROVE  TurnsInv'
<1>1. DataInv' /\ Grows
  BY ReadGrows DEF Refused
<1> QED
  BY <1>1, PlainAnswerKeeps DEF Refused

LEMMA SavedKeeps ==
  ASSUME TurnsInv, DataInv', Grows, NEW m \in Messages, NEW d \in Drafts, Saved(m, d),
         draft'[d].version \in Versions, UNCHANGED <<latest, said, summary, late>>
  PROVE  TurnsInv'
<1> PICK t, v : t = turn[m] /\ v = draft'[d].version
  OBVIOUS
<1> PICK n : n = [t EXCEPT !.step = "submit", !.draft = d, !.version = v]
  OBVIOUS
<1>1. t \in TurnRow
  BY DEF TurnsInv
<1>2. n \in TurnRow /\ n.step = "submit" /\ n.draft = d /\ n.reply = t.reply
  BY <1>1, StepNames, Zenon DEF TurnRow
<1>3. CASE turn' = [turn EXCEPT ![m] = n]
  BY <1>2, <1>3, GoesKeeps
<1>4. CASE Answer(m, Says("other", Null, 0))
  BY <1>4, PlainAnswerKeeps
<1> QED
  BY <1>3, <1>4 DEF Saved

LEMMA SaveActKeeps ==
  ASSUME TurnsInv, NEW m \in Messages, SaveAct(m)
  PROVE  TurnsInv'
<1>1. UNCHANGED <<intent, latest, said, summary, late>> /\ DataInv
  BY DEF SaveAct, TurnsInv
<1>2. ASSUME NEW e \in Drafts, NEW full \in Completion, CanCreate(e), CreateDraft(e, full),
             Saved(m, e)
      PROVE  TurnsInv'
  BY <1>1, <1>2, CreateGrows, SavedKeeps DEF Completion
<1>3. ASSUME NEW d \in Drafts, NEW full \in Completion, CanUpdate(d, turn[m].version),
             AgentUpdates(d, full), Saved(m, d)
      PROVE  TurnsInv'
  BY <1>1, <1>3, AgentUpdateGrows, SavedKeeps DEF Completion
<1>4. CASE Refused(m)
  BY <1>1, <1>4, RefusedKeeps
<1>5. turn[m].draft \in Drafts \cup {Null}
  BY DEF TurnsInv, TurnRow
<1> QED
  BY <1>2, <1>3, <1>4, <1>5 DEF SaveAct

LEMMA SubmitActKeeps ==
  ASSUME TurnsInv, NEW m \in Messages, SubmitAct(m)
  PROVE  TurnsInv'
<1>1. UNCHANGED <<intent, latest, said, summary, late>> /\ DataInv
  BY DEF SubmitAct, TurnsInv
<1> PICK d : d = turn[m].draft
  OBVIOUS
<1>2. d \in Drafts
  BY DEF SubmitAct, At, TurnsInv, TurnOK
<1>3. ASSUME CanSubmit(d, turn[m].version), SubmitDraft(d),
             Answer(m, Says("summary", d, draft[d].content))
      PROVE  TurnsInv'
  <2> PICK r : r = Says("summary", d, draft[d].content)
    OBVIOUS
  <2>1. r \in Reply /\ r.kind = "summary" /\ r.draft = d /\ r.content = draft[d].content
    BY <1>1, <1>2, DraftTypes, ReplyTypes DEF ReplyKind, Says
  <2>2. DataInv' /\ Grows /\ draft'[d].complete /\ draft'[d].content = r.content
    BY <1>1, <1>2, <1>3, <2>1, SubmitGrows
  <2>4. r.content \in Nat /\ r.content <= r.content
    BY <1>1, <1>2, <2>1, Contents
  <2>3. Truth(r)'
    BY <1>2, <2>1, <2>2, <2>4 DEF Truth
  <2> QED
    BY <1>1, <1>3, <2>1, <2>2, <2>3, AnswerKeeps
<1>4. CASE Refused(m)
  BY <1>1, <1>4, RefusedKeeps
<1> QED
  BY <1>3, <1>4 DEF SubmitAct

LEMMA CancelActKeeps ==
  ASSUME TurnsInv, NEW m \in Messages, CancelAct(m)
  PROVE  TurnsInv'
<1>1. UNCHANGED <<intent, latest, said, summary, late>> /\ DataInv
  BY DEF CancelAct, TurnsInv
<1> PICK d : d = turn[m].draft
  OBVIOUS
<1>2. d \in Drafts
  BY DEF CancelAct, At, TurnsInv, TurnOK
<1>3. ASSUME CanCancel(d, turn[m].version), CancelDraft(d), Answer(m, Says("cancelled", d, 0))
      PROVE  TurnsInv'
  <2> PICK r : r = Says("cancelled", d, 0)
    OBVIOUS
  <2>1. r \in Reply /\ r.kind = "cancelled" /\ r.draft = d
    BY <1>2, ReplyTypes, AgentTurnsAssumption DEF ReplyKind, Versions, Says
  <2>2. DataInv' /\ Grows /\ draft'[d].status = "cancelled"
    BY <1>1, <1>2, <1>3, CancelGrows
  <2>3. Truth(r)'
    BY <1>2, <2>1, <2>2 DEF Truth
  <2> QED
    BY <1>1, <1>3, <2>1, <2>2, <2>3, AnswerKeeps
<1>4. CASE Refused(m)
  BY <1>1, <1>4, RefusedKeeps
<1> QED
  BY <1>3, <1>4 DEF CancelAct

LEMMA ConfirmActKeeps ==
  ASSUME TurnsInv, NEW m \in Messages, ConfirmAct(m)
  PROVE  TurnsInv'
<1>1. UNCHANGED <<intent, latest, said, summary, late>> /\ DataInv
  BY DEF ConfirmAct, TurnsInv
<1> PICK d : d = turn[m].draft
  OBVIOUS
<1>2. d \in Drafts /\ intent[m] = "confirm"
  BY DEF ConfirmAct, At, TurnsInv, TurnOK
<1>3. ASSUME AgentConfirms(m, d, turn[m].version),
             Answer(m, IF order'[m].status = "confirmed"
                       THEN Says("ordered", d, order'[m].content) ELSE Says("other", Null, 0))
      PROVE  TurnsInv'
  <2>1. DataInv' /\ Grows /\ order'[m] \in OrderRow /\ order'[m].draft = d
    BY <1>1, <1>2, <1>3, AgentConfirmGrows
  <2>2. CASE order'[m].status = "confirmed"
    <3> PICK c : c = order'[m].content
      OBVIOUS
    <3> PICK r : r = Says("ordered", d, c)
      OBVIOUS
    <3>1. c \in Versions
      BY <2>1 DEF OrderRow
    <3>2. r \in Reply /\ r.kind = "ordered" /\ r.draft = d /\ r.content = c
      BY <1>2, <3>1, ReplyTypes DEF ReplyKind, Says
    <3>3. Truth(r)'
      BY <1>2, <2>1, <3>2 DEF Truth, Keys
    <3> QED
      BY <1>1, <1>3, <2>1, <2>2, <3>2, <3>3, AnswerKeeps
  <2>3. CASE order'[m].status # "confirmed"
    BY <1>1, <1>3, <2>1, <2>3, PlainAnswerKeeps
  <2> QED
    BY <2>2, <2>3
<1>4. CASE Refused(m)
  BY <1>1, <1>4, RefusedKeeps
<1> QED
  BY <1>3, <1>4 DEF ConfirmAct

LEMMA LeftBehindOK ==
  ASSUME TurnsInv, NEW m \in Messages, LeftBehind(m)
  PROVE  \A c \in late' : c \in late \/ CommandOK(c)
<1> PICK t : t = turn[m]
  OBVIOUS
<1>1. t \in TurnRow /\ TurnOK(m, t)
  BY DEF TurnsInv
<1>2. ASSUME t.step \in Acts
      PROVE  CommandOK(Pending(m))
  BY <1>1, <1>2 DEF Pending, CommandOK, Command, TurnOK, TurnRow, Acts
<1> QED
  BY <1>2 DEF LeftBehind

LEMMA FailuresKeep ==
  ASSUME TurnsInv, NEW m \in Messages, ToolFails(m) \/ TurnFails(m)
  PROVE  TurnsInv'
<1>1. DataInv' /\ Grows /\ UNCHANGED <<latest, said, summary>>
  BY ReadGrows DEF ToolFails, TurnFails
<1>2. \A c \in late' : c \in late \/ CommandOK(c)
  BY LeftBehindOK DEF ToolFails, TurnFails
<1>3. CASE ToolFails(m)
  BY <1>1, <1>2, <1>3, PlainAnswerKeeps DEF ToolFails
<1>4. CASE TurnFails(m)
  <2> PICK n : n = [Fresh EXCEPT !.tries = turn[m].tries]
    OBVIOUS
  <2>1. turn[m].tries \in 0..MaxTries /\ Fresh \in TurnRow
    BY FreshTurn DEF TurnsInv, TurnRow
  <2>2. n \in TurnRow /\ n.step = Fresh.step /\ n.reply = Fresh.reply
    BY <2>1, Zenon DEF TurnRow
  <2>3. n.step = "idle" /\ n.reply = NoReply
    BY <2>2 DEF Fresh
  <2>4. TurnOK(m, n)'
    BY <2>2, <2>3, PlainReplies DEF TurnOK
  <2>5. turn' = [turn EXCEPT ![m] = n]
    BY <1>4 DEF TurnFails
  <2> QED
    BY <1>1, <1>2, <2>4, <2>5, TurnMoves
<1> QED
  BY <1>3, <1>4

LEMMA StoreReplyKeeps ==
  ASSUME TurnsInv, NEW m \in Messages, StoreReply(m)
  PROVE  TurnsInv'
<1>1. /\ UNCHANGED <<intent, latest, link, ordered, relinked, draft, order, late>>
      /\ botOwns' \in BOOLEAN
  BY DEF StoreReply, TurnsInv, DataInv
<1>2. DataInv' /\ Grows
  <2>1. \A d \in Drafts : draft[d].content <= draft[d].content
    BY Contents DEF TurnsInv
  <2>2. Grows
    BY <1>1, <2>1 DEF Grows
  <2> QED
    BY <1>1, <2>2 DEF TurnsInv, DataInv, ActiveDraftIsLinked, Active, OneOrderPerDraft
<1> PICK t : t = turn[m]
  OBVIOUS
<1> PICK n : n = [Fresh EXCEPT !.step = "ended"]
  OBVIOUS
<1>3. t \in TurnRow /\ Truth(t.reply) /\ t.reply \in Reply
  BY DEF TurnsInv, TurnOK, TurnRow
<1>4. Fresh \in TurnRow /\ "ended" \in Steps
  BY FreshTurn DEF Steps
<1>5. n \in TurnRow /\ n.step = "ended" /\ n.reply = Fresh.reply
  BY <1>4, Zenon DEF TurnRow
<1>6. Fresh.reply = NoReply
  BY DEF Fresh
<1>7. TurnOK(m, n)'
  BY <1>5, <1>6, PlainReplies DEF TurnOK
<1>8. turn' = [turn EXCEPT ![m] = n]
  BY DEF StoreReply
<1>9. said' = said \/ said' = [said EXCEPT ![m] = t.reply]
  BY DEF StoreReply
<1>10. said' \in [Messages -> Reply]
  BY <1>3, <1>9 DEF TurnsInv
<1>11. summary' \in [draft : Drafts \cup {Null}, content : Versions]
  BY <1>3 DEF StoreReply, TurnsInv, Reply
<1>12. ASSUME NEW o \in Messages
       PROVE  Truth(said[o])' /\ TurnOK(o, turn[o])'
  <2> PICK r, u : r = said[o] /\ u = turn[o]
    OBVIOUS
  <2>1. Truth(r)' /\ TurnOK(o, u)' /\ Truth(t.reply)'
    BY <1>2, <1>3, TruthStays, TurnStaysOK DEF TurnsInv
  <2>2. said'[o] = r \/ said'[o] = t.reply
    BY <1>9 DEF TurnsInv
  <2>3. turn'[o] = IF o = m THEN n ELSE u
    BY <1>8 DEF TurnsInv
  <2> QED
    BY <1>7, <2>1, <2>2, <2>3
<1>13. turn' \in [Messages -> TurnRow]
  BY <1>5, <1>8 DEF TurnsInv
<1>14. \A c \in late' : CommandOK(c)'
  BY <1>1, <1>2, CommandStaysOK DEF TurnsInv
<1> QED
  BY <1>1, <1>2, <1>10, <1>11, <1>12, <1>13, <1>14 DEF TurnsInv

LEMMA LateCommitKeeps ==
  ASSUME TurnsInv, NEW c \in late, LateCommit(c)
  PROVE  TurnsInv'
<1>1. UNCHANGED <<intent, latest, said, summary, turn>> /\ late' \subseteq late /\ DataInv
  BY DEF LateCommit, TurnsInv
<1>2. CommandOK(c) /\ c.message \in Messages /\ c.draft \in Drafts \cup {Null}
  BY DEF TurnsInv, CommandOK, Command
<1>3. DataInv' /\ Grows
  <2>1. CASE \E e \in Drafts, full \in Completion : CanCreate(e) /\ CreateDraft(e, full)
    BY <1>1, <2>1, CreateGrows DEF Completion
  <2>2. CASE c.draft # Null /\ CanUpdate(c.draft, c.version)
             /\ \E full \in Completion : AgentUpdates(c.draft, full)
    BY <1>1, <1>2, <2>2, AgentUpdateGrows DEF Completion
  <2>3. CASE c.act = "submitting" /\ CanSubmit(c.draft, c.version) /\ SubmitDraft(c.draft)
    BY <1>1, <1>2, <2>3, SubmitGrows DEF CommandOK
  <2>4. CASE c.act = "confirming" /\ AgentConfirms(c.message, c.draft, c.version)
    BY <1>1, <1>2, <2>4, AgentConfirmGrows DEF CommandOK
  <2>5. CASE c.act = "cancelling" /\ CanCancel(c.draft, c.version) /\ CancelDraft(c.draft)
    BY <1>1, <1>2, <2>5, CancelGrows DEF CommandOK
  <2> QED
    BY <2>1, <2>2, <2>3, <2>4, <2>5 DEF LateCommit
<1> QED
  BY <1>1, <1>3, DeskKeeps

LEMMA ClerksKeep ==
  ASSUME TurnsInv, NEW d \in Drafts,
         \/ DeskEdit(d) \/ DeskSubmit(d) \/ DeskCancel(d)
         \/ \E k \in DeskKeys : DeskConfirm(k, d)
  PROVE  TurnsInv'
<1>1. UNCHANGED <<intent, latest, said, summary, turn, late>> /\ DataInv
  BY DEF DeskEdit, DeskSubmit, DeskCancel, DeskConfirm, TurnsInv
<1>2. DataInv' /\ Grows
  <2>1. CASE DeskEdit(d)
    BY <1>1, <2>1, UpdateGrows DEF DeskEdit
  <2>2. CASE DeskSubmit(d)
    BY <1>1, <2>2, SubmitGrows DEF DeskSubmit
  <2>3. CASE DeskCancel(d)
    BY <1>1, <2>3, CancelGrows DEF DeskCancel
  <2>4. ASSUME NEW k \in DeskKeys, DeskConfirm(k, d)
        PROVE  DataInv' /\ Grows
    <3>1. k \in Keys /\ k \notin Messages
      BY AgentTurnsAssumption DEF Keys
    <3> QED
      BY <1>1, <2>4, <3>1, ConfirmGrows DEF DeskConfirm, conversation
  <2> QED
    BY <2>1, <2>2, <2>3, <2>4
<1> QED
  BY <1>1, <1>2, DeskKeeps

LEMMA OthersKeep ==
  ASSUME TurnsInv, (\E k \in Keys : OrderMoves(k)) \/ TakeOver \/ Relink
  PROVE  TurnsInv'
<1>1. UNCHANGED <<intent, latest, said, summary, turn, late>> /\ DataInv
  BY DEF OrderMoves, TakeOver, Relink, TurnsInv
<1>5. \A d \in Drafts : draft[d].content <= draft[d].content
  BY <1>1, Contents
<1>2. ASSUME NEW k \in Keys, OrderMoves(k)
      PROVE  DataInv' /\ Grows
  <2> PICK s : s = order[k]
    OBVIOUS
  <2> PICK row : row = [s EXCEPT !.status = "moved"]
    OBVIOUS
  <2>1. s \in OrderRow /\ s # NoOrder
    BY <1>1, <1>2 DEF OrderMoves, DataInv, NoOrder
  <2>2. row \in OrderRow /\ row.draft = s.draft /\ row.content = s.content
    BY <2>1 DEF OrderRow
  <2>3. row # NoOrder
    BY <2>2, AgentTurnsAssumption DEF OrderRow, NoOrder
  <2>4. order' = [order EXCEPT ![k] = row] /\ UNCHANGED <<intent, conversation, draft>>
    BY <1>2 DEF OrderMoves
  <2>5. /\ order' \in [Keys -> OrderRow \cup {NoOrder}]
        /\ \A j \in Keys : /\ order'[j].draft = order[j].draft
                           /\ order'[j].content = order[j].content
                           /\ order'[j] # NoOrder <=> order[j] # NoOrder
    BY <1>1, <2>1, <2>2, <2>3, <2>4 DEF DataInv
  <2>6. Grows
    BY <1>5, <2>4, <2>5 DEF Grows
  <2>7. OneOrderPerDraft'
    BY <1>1, <2>4, <2>5 DEF DataInv, OneOrderPerDraft, conversation, Keys
  <2>8. ActiveDraftIsLinked'
    BY <1>1, <2>4 DEF DataInv, ActiveDraftIsLinked, Active, conversation
  <2> QED
    BY <1>1, <2>4, <2>5, <2>6, <2>7, <2>8 DEF DataInv, conversation
<1>3. ASSUME TakeOver
      PROVE  DataInv' /\ Grows
  BY <1>1, <1>3, <1>5
     DEF TakeOver, DataInv, Grows, ActiveDraftIsLinked, Active, OneOrderPerDraft
<1>4. ASSUME Relink
      PROVE  DataInv' /\ Grows
  BY <1>1, <1>4, <1>5 DEF Relink, DataInv, Grows, ActiveDraftIsLinked, OneOrderPerDraft
<1> QED
  BY <1>1, <1>2, <1>3, <1>4, DeskKeeps

LEMMA ReceiveKeeps ==
  ASSUME TurnsInv, NEW m \in Messages, Receive(m)
  PROVE  TurnsInv'
<1>1. PICK i \in Intents : intent' = [intent EXCEPT ![m] = i]
  BY DEF Receive
<1>2. /\ intent[m] = "none" /\ latest' = m
      /\ UNCHANGED <<said, conversation, draft, order, summary, turn, late>>
  BY DEF Receive
<1>3. intent' \in [Messages -> Intents \cup {"none"}]
      /\ \A o \in Messages : intent[o] # "none" => intent'[o] = intent[o]
  BY <1>1, <1>2 DEF TurnsInv, DataInv
<1>4. Grows
  <2>1. \A d \in Drafts : draft[d].content <= draft[d].content
    BY Contents DEF TurnsInv
  <2> QED
    BY <1>2, <1>3, <2>1 DEF Grows
<1>5. OneOrderPerDraft'
  BY <1>2, <1>3 DEF TurnsInv, DataInv, OneOrderPerDraft, conversation
<1>6. DataInv'
  BY <1>2, <1>3, <1>5 DEF TurnsInv, DataInv, ActiveDraftIsLinked, Active, conversation
<1>7. \A c \in late' : CommandOK(c)'
  BY <1>2, <1>4, CommandStaysOK DEF TurnsInv
<1>8. ASSUME NEW o \in Messages
      PROVE  Truth(said[o])' /\ TurnOK(o, turn[o])'
  <2> PICK r, t : r = said[o] /\ t = turn[o]
    OBVIOUS
  <2>1. Truth(r)' /\ TurnOK(o, t)'
    BY <1>4, <1>6, TruthStays, TurnStaysOK DEF TurnsInv
  <2> QED
    BY <1>2, <2>1
<1> QED
  BY <1>2, <1>6, <1>7, <1>8 DEF TurnsInv

LEMMA TurnsStep == TurnsInv /\ [Next]_vars => TurnsInv'
<1> SUFFICES ASSUME TurnsInv, [Next]_vars PROVE TurnsInv'
  OBVIOUS
<1>1. CASE UNCHANGED vars
  BY <1>1, ReadGrows, DeskKeeps DEF vars
<1>2. ASSUME NEW m \in Messages, TurnNext(m)
      PROVE  TurnsInv'
  BY <1>2, BeginKeeps, LoadKeeps, CheckKeeps, ConfirmCheckKeeps, SaveActKeeps, SubmitActKeeps,
     ConfirmActKeeps, CancelActKeeps, StoreReplyKeeps, FailuresKeep DEF TurnNext
<1> QED
  BY <1>1, <1>2, ReceiveKeeps, LateCommitKeeps, ClerksKeep, OthersKeep DEF Next

\* The agent's rows keep their types, whatever is retried, late or done beside it.
THEOREM TurnsTypeCorrect == Spec => []TypeOK
<1>1. TurnsInv => TypeOK
  BY DEF TurnsInv, DataInv, DraftRow, TurnRow, TypeOK, CommandOK
<1> QED
  BY <1>1, TurnsInitially, TurnsStep, PTL DEF Spec

\* The agent never loses sight of an active draft of its own, for any number of
\* messages, retries, late commands, clerks and drafts.
THEOREM ActiveDraftIsLinkedInvariant == Spec => []ActiveDraftIsLinked
<1>1. TurnsInv => ActiveDraftIsLinked
  BY DEF TurnsInv, DataInv
<1> QED
  BY <1>1, TurnsInitially, TurnsStep, PTL DEF Spec

\* An approval makes at most one order and a draft becomes at most one, and the
\* agent's order is linked unless a member has changed the links.
THEOREM AgentOrdersOnceInvariant == Spec => []OneOrderPerDraft
<1>1. TurnsInv => OneOrderPerDraft
  BY DEF TurnsInv, DataInv
<1> QED
  BY <1>1, TurnsInitially, TurnsStep, PTL DEF Spec

\* What the customer was told of a draft or an order is so, and stays so.
THEOREM RepliesAreTrueInvariant == Spec => []RepliesAreTrue
<1>1. TurnsInv => RepliesAreTrue
  BY DEF TurnsInv, Truth, RepliesAreTrue
<1> QED
  BY <1>1, TurnsInitially, TurnsStep, PTL DEF Spec
-----------------------------------------------------------------------------
\* The contract of the order service.

ContractStep == Contract!Next \/ UNCHANGED <<DraftView, PlacedOrders>>

LEMMA ViewOf ==
  ASSUME NEW d \in Drafts
  PROVE  /\ DraftView[d].status = draft[d].status
         /\ DraftView[d].version = draft[d].version
         /\ DraftView[d].content = draft[d].content
         /\ DraftView[d] = [status |-> draft[d].status, version |-> draft[d].version,
                            content |-> draft[d].content]
BY DEF DraftView

\* A draft row that changes is one entry of the view that changes.
LEMMA ViewChanges ==
  ASSUME DataInv, NEW d \in Drafts, NEW row, draft' = [draft EXCEPT ![d] = row]
  PROVE  DraftView' = [DraftView EXCEPT ![d] =
           [status |-> row.status, version |-> row.version, content |-> row.content]]
<1>1. draft'[d] = row /\ \A e \in Drafts \ {d} : draft'[e] = draft[e]
  BY DEF DataInv
<1> QED
  BY <1>1 DEF DraftView

LEMMA PlacedKept ==
  ASSUME \A k \in Keys : /\ order'[k] # NoOrder <=> order[k] # NoOrder
                         /\ order'[k].draft = order[k].draft
                         /\ order'[k].content = order[k].content
  PROVE  PlacedOrders' = PlacedOrders
BY DEF PlacedOrders

LEMMA ServiceIdle == UNCHANGED <<draft, order>> => UNCHANGED <<DraftView, PlacedOrders>>
BY DEF DraftView, PlacedOrders

LEMMA CreateStep ==
  ASSUME DataInv, NEW d \in Drafts, NEW full, CanCreate(d), CreateDraft(d, full)
  PROVE  Contract!Next
<1> PICK row : row = [status |-> "draft", version |-> 1, content |-> 1, complete |-> full,
                      agent |-> TRUE]
  OBVIOUS
<1>1. draft' = [draft EXCEPT ![d] = row] /\ UNCHANGED order
  BY DEF CreateDraft
<1>2. DraftView' = [DraftView EXCEPT ![d] =
        [status |-> "draft", version |-> 1, content |-> 1]]
  BY <1>1, ViewChanges
<1>3. DraftView[d].status = "absent" /\ PlacedOrders' = PlacedOrders
  BY <1>1, ViewOf DEF CanCreate, PlacedOrders
<1>4. 1 \in Versions
  BY AgentTurnsAssumption DEF Versions
<1>5. Contract!Create(d, 1)
  BY <1>2, <1>3 DEF Contract!Create
<1> QED
  BY <1>4, <1>5 DEF Contract!Next

\* The next version of an open draft.
LEMMA ReviseStep ==
  ASSUME DataInv, NEW d \in Drafts, NEW row, Active(d),
         draft' = [draft EXCEPT ![d] = row], UNCHANGED order,
         row.version = draft[d].version + 1
  PROVE  Contract!Revise(d, row.status, row.content)
<1>1. DraftView' = [DraftView EXCEPT ![d] =
        [status |-> row.status, version |-> row.version, content |-> row.content]]
  BY ViewChanges
<1>2. DraftView[d].version = draft[d].version /\ DraftView[d].status = draft[d].status
  BY ViewOf
<1>3. PlacedOrders' = PlacedOrders
  BY DEF PlacedOrders
<1> QED
  BY <1>1, <1>2, <1>3 DEF Contract!Revise, Active

LEMMA UpdateStep ==
  ASSUME DataInv, NEW d \in Drafts, NEW v, NEW complete, CanUpdate(d, v),
         UpdateDraft(d, complete)
  PROVE  Contract!Next
<1> PICK row : row = [draft[d] EXCEPT !.status = "draft", !.version = @ + 1,
                        !.content = draft[d].version + 1, !.complete = complete]
  OBVIOUS
<1>1. Active(d) /\ Room(d) /\ draft[d] \in DraftRow /\ draft[d].version + 1 \in Versions
  BY DraftTypes DEF CanUpdate
<1>2. draft' = [draft EXCEPT ![d] = row] /\ UNCHANGED order
  BY DEF UpdateDraft
<1>3. /\ row.status = "draft" /\ row.version = draft[d].version + 1
      /\ row.content = draft[d].version + 1
  BY <1>1 DEF DraftRow
<1>4. Contract!Edit(d, row.content)
  BY <1>1, <1>2, <1>3, ReviseStep DEF Contract!Edit
<1> QED
  BY <1>1, <1>3, <1>4 DEF Contract!Next

LEMMA SubmitStep ==
  ASSUME DataInv, NEW d \in Drafts, NEW v, CanSubmit(d, v), SubmitDraft(d)
  PROVE  Contract!Next
<1> PICK row : row = [draft[d] EXCEPT !.status = "awaiting_confirmation", !.version = @ + 1]
  OBVIOUS
<1>1. Active(d) /\ draft[d] \in DraftRow /\ DraftView[d].status = "draft" /\ d # Null
  BY DraftTypes, ViewOf, AgentTurnsAssumption DEF CanSubmit, Active
<1>2. draft' = [draft EXCEPT ![d] = row] /\ UNCHANGED order
  BY DEF SubmitDraft
<1>3. /\ row.status = "awaiting_confirmation" /\ row.version = draft[d].version + 1
      /\ row.content = DraftView[d].content
  BY <1>1, ViewOf DEF DraftRow
<1>4. Contract!Submit(d)
  BY <1>1, <1>2, <1>3, ReviseStep DEF Contract!Submit
<1> QED
  BY <1>4 DEF Contract!Next

LEMMA CancelStep ==
  ASSUME DataInv, NEW d \in Drafts, NEW v, CanCancel(d, v), CancelDraft(d)
  PROVE  ContractStep
<1>1. CASE draft[d].status = "cancelled"
  BY <1>1, ServiceIdle DEF CancelDraft, ContractStep
<1>2. CASE draft[d].status # "cancelled"
  <2> PICK row : row = [draft[d] EXCEPT !.status = "cancelled", !.version = @ + 1]
    OBVIOUS
  <2>1. Active(d) /\ draft[d] \in DraftRow
    BY <1>2, DraftTypes DEF CanCancel
  <2>2. draft' = [draft EXCEPT ![d] = row] /\ UNCHANGED order
    BY <1>2 DEF CancelDraft
  <2>3. /\ row.status = "cancelled" /\ row.version = draft[d].version + 1
        /\ row.content = DraftView[d].content
    BY <2>1, ViewOf DEF DraftRow
  <2>4. Contract!Cancel(d)
    BY <2>1, <2>2, <2>3, ReviseStep DEF Contract!Cancel
  <2> QED
    BY <2>4 DEF Contract!Next, ContractStep
<1> QED
  BY <1>1, <1>2

\* A confirmation, by the agent or by a clerk, repeated or not.
LEMMA PlaceStep ==
  ASSUME DataInv, NEW d \in Drafts, NEW k \in Keys, NEW v, CanConfirm(k, d, v),
         ConfirmDraft(k, d, v)
  PROVE  ContractStep
<1>1. CASE Replayed(k, d, v)
  BY <1>1, ServiceIdle DEF ConfirmDraft, ContractStep
<1>2. CASE ~Replayed(k, d, v)
  <2> PICK row : row = [draft[d] EXCEPT !.status = "confirmed"]
    OBVIOUS
  <2> PICK new : new = [draft |-> d, version |-> v, content |-> draft[d].content,
                        status |-> "confirmed"]
    OBVIOUS
  <2>1. /\ order[k] = NoOrder /\ draft[d].status = "awaiting_confirmation"
        /\ draft[d] \in DraftRow
    BY <1>2, DraftTypes DEF CanConfirm
  <2>2. draft' = [draft EXCEPT ![d] = row] /\ order' = [order EXCEPT ![k] = new]
    BY <1>2 DEF ConfirmDraft
  <2>3. /\ row.status = "confirmed" /\ row.version = draft[d].version
        /\ row.content = draft[d].content
    BY <2>1 DEF DraftRow
  <2>4. DraftView' = [DraftView EXCEPT ![d].status = "confirmed"]
    <3>1. DraftView' = [DraftView EXCEPT ![d] =
            [status |-> row.status, version |-> row.version, content |-> row.content]]
      BY <2>2, ViewChanges
    <3>2. [DraftView[d] EXCEPT !.status = "confirmed"] =
            [status |-> row.status, version |-> row.version, content |-> row.content]
      <4> PICK was, version, content :
            was = DraftView[d] /\ version = row.version /\ content = row.content
        OBVIOUS
      <4>1. was = [status |-> was.status, version |-> version, content |-> content]
        BY <2>3, ViewOf
      <4>2. [was EXCEPT !.status = "confirmed"] =
              [status |-> "confirmed", version |-> version, content |-> content]
        BY <4>1
      <4> QED
        BY <2>3, <4>2
    <3> QED
      BY <3>1, <3>2
  <2>5. /\ new # NoOrder /\ new.draft = d /\ new.content = DraftView[d].content
    BY ViewOf, AgentTurnsAssumption DEF NoOrder
  <2>6. order'[k] = new /\ \A j \in Keys \ {k} : order'[j] = order[j]
    BY <2>2 DEF DataInv
  <2>7. PlacedOrders' =
          PlacedOrders \cup {[key |-> k, draft |-> d, content |-> DraftView[d].content]}
    BY <2>1, <2>5, <2>6 DEF PlacedOrders
  <2>8. \A p \in PlacedOrders : p.key # k
    BY <2>1 DEF PlacedOrders
  <2>9. DraftView[d].status = "awaiting_confirmation"
    BY <2>1, ViewOf
  <2>10. Contract!Place(k, d)
    BY <2>4, <2>7, <2>8, <2>9 DEF Contract!Place
  <2> QED
    BY <2>10 DEF Contract!Next, ContractStep
<1> QED
  BY <1>1, <1>2

\* The turns.
LEMMA TurnSteps ==
  ASSUME TurnsInv, NEW m \in Messages, TurnNext(m)
  PROVE  ContractStep
<1>1. DataInv /\ TurnOK(m, turn[m]) /\ m \in Keys
      /\ turn[m].draft \in Drafts \cup {Null}
  BY DEF TurnsInv, TurnOK, TurnRow, Keys
<1>2. CASE Begin(m) \/ Load(m) \/ Check(m) \/ ConfirmCheck(m) \/ StoreReply(m)
             \/ ToolFails(m) \/ TurnFails(m)
  <2>1. UNCHANGED <<draft, order>>
    BY <1>2 DEF Begin, Load, Check, ConfirmCheck, StoreReply, ToolFails, TurnFails
  <2> QED
    BY <2>1, ServiceIdle DEF ContractStep
<1>3. CASE SaveAct(m)
  <2>1. ASSUME NEW e \in Drafts, NEW full, CanCreate(e), CreateDraft(e, full)
        PROVE  ContractStep
    BY <1>1, <2>1, CreateStep DEF ContractStep
  <2>2. ASSUME NEW full, turn[m].draft # Null, CanUpdate(turn[m].draft, turn[m].version),
               AgentUpdates(turn[m].draft, full)
        PROVE  ContractStep
    BY <1>1, <2>2, UpdateStep DEF AgentUpdates, ContractStep
  <2>3. ASSUME Refused(m)
        PROVE  ContractStep
    BY <2>3, ServiceIdle DEF Refused, ContractStep
  <2> QED
    BY <1>3, <2>1, <2>2, <2>3 DEF SaveAct
<1>4. CASE SubmitAct(m)
  <2>1. turn[m].draft \in Drafts
    BY <1>1, <1>4 DEF SubmitAct, At, TurnOK
  <2> QED
    BY <1>1, <1>4, <2>1, SubmitStep, ServiceIdle DEF SubmitAct, Refused, ContractStep
<1>5. CASE CancelAct(m)
  <2>1. turn[m].draft \in Drafts
    BY <1>1, <1>5 DEF CancelAct, At, TurnOK
  <2> QED
    BY <1>1, <1>5, <2>1, CancelStep, ServiceIdle DEF CancelAct, Refused, ContractStep
<1>6. CASE ConfirmAct(m)
  <2>1. turn[m].draft \in Drafts
    BY <1>1, <1>6 DEF ConfirmAct, At, TurnOK
  <2> QED
    BY <1>1, <1>6, <2>1, PlaceStep, ServiceIdle
       DEF ConfirmAct, AgentConfirms, Refused, ContractStep
<1> QED
  BY <1>2, <1>3, <1>4, <1>5, <1>6 DEF TurnNext

\* Commands left behind.
LEMMA LateSteps ==
  ASSUME TurnsInv, NEW c \in late, LateCommit(c)
  PROVE  ContractStep
<1>1. /\ DataInv /\ CommandOK(c) /\ c.message \in Messages /\ c.message \in Keys
      /\ c.draft \in Drafts \cup {Null}
  BY DEF TurnsInv, CommandOK, Command, Keys
<1>2. ASSUME NEW e \in Drafts, NEW full, CanCreate(e), CreateDraft(e, full)
      PROVE  ContractStep
  BY <1>1, <1>2, CreateStep DEF ContractStep
<1>3. ASSUME NEW full, c.draft # Null, CanUpdate(c.draft, c.version),
             AgentUpdates(c.draft, full)
      PROVE  ContractStep
  BY <1>1, <1>3, UpdateStep DEF AgentUpdates, ContractStep
<1>4. ASSUME c.act = "submitting", CanSubmit(c.draft, c.version), SubmitDraft(c.draft)
      PROVE  ContractStep
  BY <1>1, <1>4, SubmitStep DEF CommandOK, ContractStep
<1>5. ASSUME c.act = "confirming", AgentConfirms(c.message, c.draft, c.version)
      PROVE  ContractStep
  BY <1>1, <1>5, PlaceStep DEF CommandOK, AgentConfirms
<1>6. ASSUME c.act = "cancelling", CanCancel(c.draft, c.version), CancelDraft(c.draft)
      PROVE  ContractStep
  BY <1>1, <1>6, CancelStep DEF CommandOK
<1> QED
  BY <1>2, <1>3, <1>4, <1>5, <1>6 DEF LateCommit

\* Clerks and members.
LEMMA ClerkSteps ==
  ASSUME TurnsInv, NEW d \in Drafts,
         \/ DeskEdit(d) \/ DeskSubmit(d) \/ DeskCancel(d)
         \/ \E k \in DeskKeys : DeskConfirm(k, d)
  PROVE  ContractStep
<1>1. DataInv /\ DeskKeys \subseteq Keys
  BY DEF TurnsInv, Keys
<1>2. CASE DeskEdit(d)
  BY <1>1, <1>2, UpdateStep DEF DeskEdit, ContractStep
<1>3. CASE DeskSubmit(d)
  BY <1>1, <1>3, SubmitStep DEF DeskSubmit, ContractStep
<1>4. CASE DeskCancel(d)
  BY <1>1, <1>4, CancelStep DEF DeskCancel
<1>5. CASE \E k \in DeskKeys : DeskConfirm(k, d)
  BY <1>1, <1>5, PlaceStep DEF DeskConfirm
<1> QED
  BY <1>2, <1>3, <1>4, <1>5

LEMMA OrderMovesStep ==
  ASSUME TurnsInv, NEW k \in Keys, OrderMoves(k)
  PROVE  ContractStep
<1> PICK s : s = order[k]
  OBVIOUS
<1> PICK row : row = [s EXCEPT !.status = "moved"]
  OBVIOUS
<1>1. s \in OrderRow /\ s # NoOrder
  BY DEF TurnsInv, OrderMoves, DataInv, NoOrder
<1>2. row.draft = s.draft /\ row.content = s.content /\ row.draft \in Drafts
  BY <1>1 DEF OrderRow
<1>3. row # NoOrder
  BY <1>2, AgentTurnsAssumption DEF NoOrder
<1>4. order' = [order EXCEPT ![k] = row] /\ UNCHANGED draft
  BY DEF OrderMoves
<1>5. \A j \in Keys : /\ order'[j] # NoOrder <=> order[j] # NoOrder
                      /\ order'[j].draft = order[j].draft
                      /\ order'[j].content = order[j].content
  BY <1>1, <1>2, <1>3, <1>4 DEF TurnsInv, DataInv
<1>6. PlacedOrders' = PlacedOrders
  BY <1>5, PlacedKept
<1> QED
  BY <1>4, <1>6 DEF ContractStep, DraftView

\* Drafts and orders, worked on by turns, commands left behind, clerks and members,
\* are those of OrderContract: whatever overlaps, fails or comes late, each change
\* is one step of the contract.
THEOREM TurnsImplementOrderContract == Spec => ImplementsOrderContract
<1>1. Init => Contract!Init
  <2> SUFFICES ASSUME Init PROVE Contract!Init
    OBVIOUS
  <2>1. DraftView = [d \in Drafts |-> [status |-> "absent", version |-> 0, content |-> 0]]
    BY DEF Init, DraftView, NoDraft
  <2>2. PlacedOrders = {}
    BY DEF Init, PlacedOrders
  <2> QED
    BY <2>1, <2>2 DEF Contract!Init
<1>2. TurnsInv /\ [Next]_vars => [Contract!Next]_(Contract!vars)
  <2> SUFFICES ASSUME TurnsInv, [Next]_vars PROVE ContractStep
    BY DEF ContractStep, Contract!vars
  <2>1. CASE UNCHANGED vars \/ (\E m \in Messages : Receive(m)) \/ TakeOver \/ Relink
    <3>1. UNCHANGED <<draft, order>>
      BY <2>1 DEF vars, Receive, TakeOver, Relink
    <3> QED
      BY <3>1, ServiceIdle DEF ContractStep
  <2> QED
    BY <2>1, TurnSteps, LateSteps, ClerkSteps, OrderMovesStep DEF Next
<1> QED
  BY <1>1, <1>2, TurnsInitially, TurnsStep, PTL
     DEF Spec, ImplementsOrderContract, Contract!Spec
=============================================================================
