------------------------------ MODULE SiteProofs ------------------------------
(***************************************************************************)
(* Proofs about SandboxSite, for any tenants, limits, turns, calls and     *)
(* keys: what the builder agents spend and remember, and what a tab of the *)
(* sandbox does and shows. MCReferenceNode is there for the name of the    *)
(* property its run checks.                                                *)
(***************************************************************************)
EXTENDS MCReferenceNode, SumTheorems, SequenceTheorems

(* A tab of the sandbox. What a call may already have done is told by how  *)
(* it was answered; what the page knows of a project, the server once      *)
(* said; and a rejected key is one that expired, or none.                  *)
CallRows ==
  [step : {"new", "entering", "sent", "waiting", "done"},
   kind : CallKinds, about : Calls \cup {0}, key : Nat,
   verdict : {"none", "ok", "refused", "401", "lost"},
   again : BOOLEAN, rows : [Calls -> ProjectStates]]
PageRows ==
  [stage : {0, 1, 2, 3}, shown : Calls \cup {0}, status : ProjectStates,
   listed : [Calls -> ProjectStates], url : Calls \cup {0}, busy : BOOLEAN, talking : BOOLEAN]
ProjectRows == [of : Nat, status : ProjectStates]

ClientRowsTyped ==
  /\ request \in [Calls -> CallRows] /\ page \in PageRows
  /\ projectOf \in [Calls -> ProjectRows] /\ applied \in [Calls -> Nat]
  /\ stored \in Nat /\ issued \in Nat /\ signup \in {"none", "asked", "answered", "unknown"}
  /\ early \in BOOLEAN /\ left \in BOOLEAN

Ready(p) == projectOf[p].status = "ready"

(* An effect is had once, and only by a call that was answered or lost.    *)
EffectOnce(r, n) ==
  /\ r.step \in {"new", "entering"} => r.verdict = "none"
  /\ r.step = "waiting" => r.verdict = "401"
  /\ n <= 1
  /\ r.step # "done" /\ r.verdict \notin {"ok", "lost"} => n = 0

(* What a call asks of a project, and what it brings back about projects.  *)
AsksOfProject(r) == r.kind \in {"provision", "pay"}
BringsTruth(r) ==
  /\ AsksOfProject(r) => r.about \in Calls
  /\ AsksOfProject(r) /\ r.verdict = "ok" => Ready(r.about)
  /\ \A p \in Calls : r.rows[p] = "ready" => Ready(p)

(* The key a call went out with.                                           *)
SentWithKey(r) ==
  r.step = "sent" /\ ~r.again =>
    /\ early \/ r.key \in 1..issued
    /\ r.verdict = "401" => early \/ r.key \notin accepted

LeavesNoBlank(r) ==
  r.kind = "provision" /\ r.step \in {"entering", "sent", "waiting"} => page.shown # 0 \/ left

ProjectsInv == \A p \in Calls : applied[p] = 0 => projectOf[p] = [of |-> 0, status |-> "none"]
PageInv ==
  /\ \A p \in Calls : page.listed[p] = "ready" => Ready(p)
  /\ page.stage = 3 => page.shown # 0 /\ Ready(page.shown)
  /\ page.stage \in {1, 2} /\ page.shown = 0 => left
KeysInv ==
  /\ stored <= issued /\ accepted \subseteq 1..issued /\ (signup = "answered" => issued >= 1)
  /\ dropped # {} => early \/ \E k \in 1..issued : k \notin accepted
CallSound(r, n) == EffectOnce(r, n) /\ BringsTruth(r) /\ SentWithKey(r)
CallsInv == \A c \in Calls : CallSound(request[c], applied[c])
BlankInv == \A c \in Calls : LeavesNoBlank(request[c])

ClientInv == ClientRowsTyped /\ ProjectsInv /\ PageInv /\ KeysInv /\ CallsInv /\ BlankInv

LEMMA ClientInvHonest == ASSUME ClientInv PROVE ClientHonest
<1>1. \A c \in Calls : applied[c] <= 1
  BY DEF ClientInv, CallsInv, CallSound, EffectOnce
<1>2. page.stage = 3 => page.shown # 0 /\ projectOf[page.shown].status = "ready"
  BY DEF ClientInv, PageInv, Ready
<1>3. page.stage \in {1, 2} /\ page.shown = 0 => left
  BY DEF ClientInv, PageInv
<1>4. dropped # {} => early \/ 1..issued \ accepted # {}
  BY DEF ClientInv, KeysInv
<1> QED BY <1>1, <1>2, <1>3, <1>4 DEF ClientHonest

LEMMA UnsentIsRow ==
  /\ Unsent \in CallRows /\ [Unsent EXCEPT !.step = "done"] \in CallRows
  /\ [Unsent EXCEPT !.step = "entering", !.kind = "open"] \in CallRows
BY DEF Unsent, CallRows, CallKinds, NoRows, ProjectStates

LEMMA FreshIsRow == ASSUME NEW url \in Calls \cup {0} PROVE FreshPage(url) \in PageRows
BY DEF FreshPage, PageRows, NoRows, ProjectStates

LEMMA ClientStarts == ASSUME ClientInit PROVE ClientInv
<1>1. request \in [Calls -> CallRows]
  BY UnsentIsRow DEF ClientInit
<1>2. ClientRowsTyped
  BY <1>1, FreshIsRow DEF ClientInit, ClientRowsTyped, ProjectRows, ProjectStates
<1>3. ProjectsInv
  BY DEF ClientInit, ProjectsInv
<1>4. PageInv
  BY DEF ClientInit, PageInv, FreshPage, NoRows
<1>5. KeysInv
  BY DEF ClientInit, KeysInv
<1>6. ASSUME NEW c \in Calls
      PROVE  CallSound(request[c], applied[c]) /\ LeavesNoBlank(request[c])
  <2>1. PICK r : r = request[c]
    OBVIOUS
  <2>2. /\ r.step \in {"new", "entering"} /\ r.verdict = "none" /\ r.kind \in {"talk", "open"}
        /\ \A p \in Calls : r.rows[p] = "none"
    BY <2>1 DEF ClientInit, Unsent, NoRows
  <2>3. applied[c] = 0
    BY DEF ClientInit
  <2> QED BY <2>1, <2>2, <2>3
          DEF CallSound, EffectOnce, BringsTruth, AsksOfProject, SentWithKey, LeavesNoBlank
<1> QED BY <1>2, <1>3, <1>4, <1>5, <1>6 DEF ClientInv, CallsInv, BlankInv

(* A project that is ready stays ready, a call without a key is remembered, *)
(* and a key that was given out and expired is never accepted again.       *)
Onward ==
  /\ \A p \in Calls : Ready(p) => Ready(p)'
  /\ (early => early') /\ issued <= issued' /\ issued' \in Nat
  /\ \A k \in 1..issued : k \notin accepted => k \notin accepted'

LEMMA CallStands ==
  ASSUME ClientInv, Onward, NEW c \in Calls, request'[c] = request[c], applied'[c] = applied[c]
  PROVE  CallSound(request[c], applied[c])'
<1>1. PICK r \in CallRows : r = request[c]
  BY DEF ClientInv, ClientRowsTyped
<1>2. EffectOnce(r, applied[c]) /\ BringsTruth(r) /\ SentWithKey(r) /\ issued \in Nat
  BY <1>1 DEF ClientInv, CallsInv, CallSound, ClientRowsTyped
<1>3. EffectOnce(request[c], applied[c])'
  BY <1>1, <1>2 DEF EffectOnce
<1>4. BringsTruth(request[c])'
  BY <1>1, <1>2 DEF BringsTruth, AsksOfProject, Onward
<1>5. SentWithKey(request[c])'
  <2>1. r.key \in 1..issued => r.key \in 1..issued'
    BY <1>2 DEF Onward
  <2>2. \A k \in 1..issued : k \notin accepted => k \notin accepted'
    BY DEF Onward
  <2>3. early => early'
    BY DEF Onward
  <2> QED BY <1>1, <1>2, <2>1, <2>2, <2>3 DEF SentWithKey
<1> QED BY <1>3, <1>4, <1>5 DEF CallSound

LEMMA BlankStands ==
  ASSUME ClientInv, page.shown # 0 \/ left => page'.shown # 0 \/ left',
         \A c \in Calls :
           request'[c].kind = "provision" /\ request'[c].step \in {"entering", "sent", "waiting"}
             => request[c].kind = "provision" /\ request[c].step \in {"entering", "sent", "waiting"}
  PROVE  BlankInv'
BY DEF ClientInv, BlankInv, LeavesNoBlank

LEMMA KeysStand ==
  ASSUME ClientInv, UNCHANGED <<stored, issued, accepted, signup, dropped>>, early => early'
  PROVE  KeysInv'
BY DEF ClientInv, KeysInv

LEMMA ProjectsStand ==
  ASSUME ClientInv, UNCHANGED <<projectOf, applied>>
  PROVE  ProjectsInv'
BY DEF ClientInv, ProjectsInv

(* The page may show what it showed at any stage before the last.          *)
LEMMA PageStands ==
  ASSUME ClientInv, UNCHANGED projectOf, left => left', page' \in PageRows,
         page'.listed = page.listed, page'.shown = page.shown,
         page'.stage = page.stage \/ page'.stage = 0 \/ (page'.stage \in {1, 2} /\ (page.shown # 0 \/ left))
  PROVE  PageInv'
BY DEF ClientInv, PageInv, Ready

(* A call that is made.                                                    *)
LEMMA FireKeeps ==
  ASSUME ClientInv, NEW c \in Calls, NEW kind \in CallKinds, NEW about \in Calls \cup {0},
         kind \in {"provision", "pay"} => about \in Calls, kind = "provision" => page.shown # 0,
         Fire(c, kind, about), UNCHANGED left, page' \in PageRows, page'.listed = page.listed,
         page'.shown = page.shown, page'.stage = page.stage \/ (page'.stage = 2 /\ page.shown # 0)
  PROVE  ClientInv'
<1>1. PICK old \in CallRows : old = request[c] /\ old.step = "new"
  BY DEF ClientInv, ClientRowsTyped, Fire, NextCall
<1>2. PICK new : new = [old EXCEPT !.step = "sent", !.kind = kind, !.about = about, !.key = stored]
  OBVIOUS
<1>3. stored \in Nat /\ new \in CallRows
  BY <1>2 DEF ClientInv, ClientRowsTyped, CallRows
<1>4. request' = [request EXCEPT ![c] = new]
  BY <1>1, <1>2 DEF Fire
<1>5. /\ new.step = "sent" /\ new.kind = kind /\ new.about = about /\ new.key = stored
      /\ new.verdict = old.verdict /\ new.again = old.again /\ new.rows = old.rows
  BY <1>2 DEF CallRows
<1>6. ClientRowsTyped'
  BY <1>3, <1>4 DEF ClientInv, ClientRowsTyped, Fire, server
<1>7. request'[c] = new /\ \A d \in Calls : d # c => request'[d] = request[d]
  BY <1>4 DEF ClientInv, ClientRowsTyped
<1>8. Onward
  BY DEF Onward, Ready, Fire, server, ClientInv, ClientRowsTyped
<1>9. CallSound(new, applied[c])'
  <2>1. old.verdict = "none" /\ applied[c] = 0 /\ \A p \in Calls : old.rows[p] = "ready" => Ready(p)
    BY <1>1 DEF ClientInv, CallsInv, CallSound, EffectOnce, BringsTruth
  <2>2. applied' = applied /\ projectOf' = projectOf /\ issued' = issued /\ early' = (early \/ stored = 0)
    BY DEF Fire, server
  <2>3. EffectOnce(new, applied[c])'
    BY <1>5, <2>1, <2>2 DEF EffectOnce
  <2>4. BringsTruth(new)'
    BY <1>5, <2>1, <2>2 DEF BringsTruth, AsksOfProject, Ready
  <2>5. stored = 0 \/ stored \in 1..issued
    BY DEF ClientInv, KeysInv, ClientRowsTyped
  <2>6. SentWithKey(new)'
    BY <1>5, <2>1, <2>2, <2>5 DEF SentWithKey
  <2> QED BY <2>3, <2>4, <2>6 DEF CallSound
<1>10. CallsInv'
  <2>1. applied' = applied
    BY DEF Fire, server
  <2> QED BY <1>7, <1>8, <1>9, <2>1, CallStands DEF CallsInv
<1>11. BlankInv'
  <2>1. LeavesNoBlank(new)'
    BY <1>5 DEF LeavesNoBlank
  <2>2. \A d \in Calls : d # c => LeavesNoBlank(request[d])'
    BY <1>7 DEF ClientInv, BlankInv, LeavesNoBlank
  <2> QED BY <1>7, <2>1, <2>2 DEF BlankInv
<1>12. ProjectsInv' /\ KeysInv'
  BY ProjectsStand, KeysStand DEF Fire, server
<1>13. PageInv'
  BY PageStands DEF Fire, server
<1> QED BY <1>6, <1>10, <1>11, <1>12, <1>13 DEF ClientInv

LEMMA BusyIsRow ==
  ASSUME ClientInv, NEW b \in BOOLEAN
  PROVE  /\ [page EXCEPT !.busy = b] \in PageRows /\ [page EXCEPT !.talking = b] \in PageRows
         /\ \A n \in {0, 1, 2, 3} : [page EXCEPT !.stage = n, !.busy = b] \in PageRows
<1>1. page \in PageRows
  BY DEF ClientInv, ClientRowsTyped
<1> QED BY <1>1 DEF PageRows

LEMMA ClickKeeps ==
  ASSUME ClientInv, NEW c \in Calls,
         CreateBlueprint(c) \/ TalkToBuilder(c) \/ ProvisionShown(c) \/ RunPayment(c)
  PROVE  ClientInv'
<1>1. PICK old \in PageRows : old = page
  BY DEF ClientInv, ClientRowsTyped
<1>2. old.shown \in Calls \cup {0}
  BY DEF PageRows
<1>3. CASE CreateBlueprint(c)
  <2>1. page' = [old EXCEPT !.busy = TRUE] /\ page' \in PageRows
    BY <1>1, <1>3, BusyIsRow DEF CreateBlueprint
  <2>2. page'.listed = old.listed /\ page'.shown = old.shown /\ page'.stage = old.stage
    BY <2>1 DEF PageRows
  <2>3. Fire(c, "create", 0) /\ UNCHANGED left /\ "create" \in CallKinds
    BY <1>3 DEF CreateBlueprint, CallKinds
  <2> QED BY <1>1, <2>1, <2>2, <2>3, FireKeeps
<1>4. CASE TalkToBuilder(c)
  <2>1. page' = [old EXCEPT !.talking = TRUE] /\ page' \in PageRows
    BY <1>1, <1>4, BusyIsRow DEF TalkToBuilder
  <2>2. page'.listed = old.listed /\ page'.shown = old.shown /\ page'.stage = old.stage
    BY <2>1 DEF PageRows
  <2>3. Fire(c, "talk", 0) /\ UNCHANGED left /\ "talk" \in CallKinds
    BY <1>4 DEF TalkToBuilder, CallKinds
  <2> QED BY <1>1, <2>1, <2>2, <2>3, FireKeeps
<1>5. CASE ProvisionShown(c)
  <2>1. page' = [old EXCEPT !.stage = 2, !.busy = TRUE] /\ page' \in PageRows
    BY <1>1, <1>5, BusyIsRow DEF ProvisionShown
  <2>2. page'.listed = old.listed /\ page'.shown = old.shown /\ page'.stage = 2
    BY <2>1 DEF PageRows
  <2>3. Fire(c, "provision", old.shown) /\ UNCHANGED left /\ "provision" \in CallKinds /\ old.shown # 0
    BY <1>1, <1>5 DEF ProvisionShown, CallKinds
  <2>4. old.shown \in Calls
    BY <1>2, <2>3
  <2> QED BY <1>1, <2>1, <2>2, <2>3, <2>4, FireKeeps
<1>6. CASE RunPayment(c)
  <2>1. page' = [old EXCEPT !.busy = TRUE] /\ page' \in PageRows
    BY <1>1, <1>6, BusyIsRow DEF RunPayment
  <2>2. page'.listed = old.listed /\ page'.shown = old.shown /\ page'.stage = old.stage
    BY <2>1 DEF PageRows
  <2>3. Fire(c, "pay", old.shown) /\ UNCHANGED left /\ "pay" \in CallKinds /\ old.shown # 0
    BY <1>1, <1>6 DEF RunPayment, CallKinds
  <2>4. old.shown \in Calls
    BY <1>2, <2>3
  <2> QED BY <1>1, <2>1, <2>2, <2>3, <2>4, FireKeeps
<1> QED BY <1>3, <1>4, <1>5, <1>6

(* What neither a call nor the server is touched by.                       *)
LEMMA CallsStand ==
  ASSUME ClientInv, UNCHANGED <<request, projectOf, applied, early, accepted, issued>>
  PROVE  CallsInv'
<1>1. Onward
  BY DEF Onward, Ready, ClientInv, ClientRowsTyped
<1> QED BY <1>1, CallStands DEF CallsInv

LEMMA ResumeKeeps ==
  ASSUME ClientInv, NEW p \in Calls, Resume(p)
  PROVE  ClientInv'
<1>1. PICK old \in PageRows : old = page
  BY DEF ClientInv, ClientRowsTyped
<1>2. PICK status \in ProjectStates : status = old.listed[p]
  BY DEF PageRows
<1>3. PICK stage \in {1, 3} : stage = StageOf(status)
  BY DEF StageOf
<1>4. page' = [old EXCEPT !.shown = p, !.status = status, !.stage = stage, !.url = p]
  BY <1>1, <1>2, <1>3 DEF Resume
<1>5. /\ page' \in PageRows /\ page'.listed = old.listed /\ page'.shown = p /\ page'.stage = stage
  <2>1. page' \in PageRows
    BY <1>4 DEF PageRows
  <2> QED BY <1>4, <2>1 DEF PageRows
<1>6. p # 0
  BY ClientAssumption
<1>7. stage = 3 => Ready(p)
  BY <1>1, <1>2, <1>3 DEF StageOf, ClientInv, PageInv
<1>8. PageInv'
  BY <1>1, <1>5, <1>6, <1>7 DEF Resume, server, PageInv, Ready, ClientInv
<1>9. ClientRowsTyped'
  BY <1>5 DEF Resume, server, ClientInv, ClientRowsTyped
<1>10. ProjectsInv' /\ KeysInv' /\ CallsInv'
  BY ProjectsStand, KeysStand, CallsStand DEF Resume, server
<1>11. BlankInv'
  BY <1>5, <1>6, BlankStands DEF Resume
<1> QED BY <1>8, <1>9, <1>10, <1>11 DEF ClientInv

LEMMA NewProjectKeeps == ASSUME ClientInv, NewProject PROVE ClientInv'
<1>1. PICK old \in PageRows : old = page
  BY DEF ClientInv, ClientRowsTyped
<1>2. page' = [old EXCEPT !.shown = 0, !.status = "none", !.stage = 0, !.url = 0]
  BY <1>1 DEF NewProject
<1>3. /\ page' \in PageRows /\ page'.listed = old.listed /\ page'.shown = 0 /\ page'.stage = 0
  <2>1. page' \in PageRows
    BY <1>2 DEF PageRows, ProjectStates
  <2> QED BY <1>2, <2>1 DEF PageRows
<1>4. left' = (left \/ \E c \in Calling : request[c].kind = "provision")
  BY DEF NewProject
<1>5. PageInv'
  BY <1>1, <1>3 DEF NewProject, server, PageInv, Ready, ClientInv
<1>6. ClientRowsTyped'
  BY <1>3, <1>4 DEF NewProject, server, ClientInv, ClientRowsTyped
<1>7. ProjectsInv' /\ KeysInv' /\ CallsInv'
  BY ProjectsStand, KeysStand, CallsStand DEF NewProject, server
<1>8. BlankInv'
  BY <1>4 DEF NewProject, BlankInv, LeavesNoBlank, Calling
<1> QED BY <1>5, <1>6, <1>7, <1>8 DEF ClientInv

LEMMA ReloadKeeps == ASSUME ClientInv, NEW c \in Calls, Reload(c) PROVE ClientInv'
<1>1. PICK old \in PageRows : old = page
  BY DEF ClientInv, ClientRowsTyped
<1>2. old.url \in Calls \cup {0} /\ page' = FreshPage(old.url)
  BY <1>1 DEF Reload, PageRows
<1>3. /\ page' \in PageRows /\ page'.stage = 0 /\ \A p \in Calls : page'.listed[p] = "none"
  BY <1>2, FreshIsRow DEF FreshPage, NoRows
<1>4. stored \in Nat /\ (stored = 0 \/ stored \in 1..issued) /\ issued \in Nat
  BY DEF ClientInv, ClientRowsTyped, KeysInv
<1>5. PICK new \in CallRows : /\ new = Mounted(c) /\ new.verdict = "none" /\ new.kind = "open"
                              /\ new.step \in {"entering", "sent"} /\ new.key = stored
                              /\ (new.step = "sent" => stored # 0)
                              /\ \A p \in Calls : new.rows[p] = "none"
  <2>1. PICK base \in CallRows : /\ base = Unsent /\ base.verdict = "none" /\ base.key = 0
                                 /\ \A p \in Calls : base.rows[p] = "none"
    BY UnsentIsRow DEF Unsent, NoRows
  <2>2. CASE stored = 0
    <3>1. PICK new : new = [base EXCEPT !.step = "entering", !.kind = "open"]
      OBVIOUS
    <3>2. new \in CallRows /\ new = Mounted(c)
      BY <2>1, <2>2, <3>1, UnsentIsRow DEF Mounted
    <3>3. new.verdict = base.verdict /\ new.kind = "open" /\ new.step = "entering"
          /\ new.key = base.key /\ new.rows = base.rows
      BY <3>1 DEF CallRows
    <3> QED BY <2>1, <2>2, <3>2, <3>3
  <2>3. CASE stored # 0
    <3>1. PICK new : new = [base EXCEPT !.step = "sent", !.kind = "open", !.key = stored]
      OBVIOUS
    <3>2. new = Mounted(c)
      BY <2>1, <2>3, <3>1 DEF Mounted
    <3>3. new \in CallRows
      BY <1>4, <3>1 DEF CallRows, CallKinds
    <3>4. new.verdict = base.verdict /\ new.kind = "open" /\ new.step = "sent"
          /\ new.key = stored /\ new.rows = base.rows
      BY <3>1 DEF CallRows
    <3> QED BY <2>1, <2>3, <3>2, <3>3, <3>4
  <2> QED BY <2>2, <2>3
<1>6. new.step = "sent" => stored # 0
  BY <1>5
<1>7. PICK gone \in CallRows : /\ gone = [Unsent EXCEPT !.step = "done"] /\ gone.step = "done"
                               /\ gone.verdict = "none" /\ gone.kind = "talk"
                               /\ \A p \in Calls : gone.rows[p] = "none"
  BY UnsentIsRow DEF Unsent, NoRows
<1>8. ASSUME NEW d \in Calls
      PROVE  request'[d] = IF d = c THEN new ELSE IF d \in Calling THEN gone ELSE request[d]
  BY <1>5, <1>7 DEF Reload
<1>9. UNCHANGED <<stored, accepted, issued, projectOf, applied, dropped, early, left>>
  BY DEF Reload, server
<1>10. Onward
  BY <1>9 DEF Onward, Ready, ClientInv, ClientRowsTyped
<1>11. request[c].step = "new"
  BY DEF Reload, NextCall
<1>12. CallsInv'
  <2> SUFFICES ASSUME NEW d \in Calls PROVE CallSound(request[d], applied[d])'
    BY DEF CallsInv
  <2>1. applied[d] \in Nat /\ applied[d] <= 1
    BY DEF ClientInv, ClientRowsTyped, CallsInv, CallSound, EffectOnce
  <2>2. CASE d = c
    <3>1. applied[c] = 0
      BY <1>11 DEF ClientInv, CallsInv, CallSound, EffectOnce
    <3>2. request'[d] = new /\ applied'[d] = 0
      BY <1>8, <1>9, <2>2, <3>1
    <3> QED BY <1>4, <1>5, <1>6, <1>9, <3>2
            DEF CallSound, EffectOnce, BringsTruth, AsksOfProject, SentWithKey
  <2>3. CASE d # c /\ d \in Calling
    <3>1. request'[d] = gone /\ applied'[d] = applied[d]
      BY <1>8, <1>9, <2>3
    <3> QED BY <1>7, <2>1, <3>1
            DEF CallSound, EffectOnce, BringsTruth, AsksOfProject, SentWithKey
  <2>4. CASE d # c /\ d \notin Calling
    <3>1. request'[d] = request[d] /\ applied'[d] = applied[d]
      BY <1>8, <1>9, <2>4
    <3> QED BY <1>10, <3>1, CallStands
  <2> QED BY <2>2, <2>3, <2>4
<1>13. BlankInv'
  <2> SUFFICES ASSUME NEW d \in Calls PROVE LeavesNoBlank(request[d])'
    BY DEF BlankInv
  <2>1. d \notin Calling => request[d].step \notin {"entering", "sent", "waiting"}
    BY DEF Calling
  <2> QED BY <1>5, <1>7, <1>8, <2>1 DEF LeavesNoBlank
<1>14. PageInv'
  BY <1>3 DEF PageInv
<1>15. ProjectsInv'
  BY <1>9, ProjectsStand
<1>16. signup' \in {"none", "asked"}
  BY DEF Reload
<1>17. KeysInv'
  BY <1>9, <1>16 DEF ClientInv, KeysInv
<1>18. ClientRowsTyped'
  <2>1. request' \in [Calls -> CallRows]
    <3>1. request' = [d \in Calls |-> request'[d]]
      BY DEF Reload
    <3>2. \A d \in Calls : request'[d] \in CallRows
      BY <1>8 DEF ClientInv, ClientRowsTyped
    <3> QED BY <3>1, <3>2
  <2> QED BY <1>3, <1>9, <1>16, <2>1 DEF ClientInv, ClientRowsTyped
<1> QED BY <1>12, <1>13, <1>14, <1>15, <1>17, <1>18 DEF ClientInv

LEMMA SignupServedKeeps == ASSUME ClientInv, NEW k \in Keys, ServeSignup(k) PROVE ClientInv'
<1>1. issued \in Nat /\ stored <= issued /\ stored \in Nat /\ accepted \subseteq 1..issued
  BY DEF ClientInv, ClientRowsTyped, KeysInv
<1>2. issued' = issued + 1 /\ accepted' = accepted \cup {issued + 1} /\ signup' \in {"answered", "unknown"}
  BY DEF ServeSignup
<1>3. UNCHANGED <<stored, request, page, projectOf, applied, dropped, early, left>>
  BY DEF ServeSignup
<1>4. issued' \in Nat /\ issued <= issued' /\ issued' >= 1 /\ stored <= issued'
      /\ \A k2 \in 1..issued : k2 \in 1..issued' /\ k2 # issued + 1
  BY <1>1, <1>2
<1>5. accepted' \subseteq 1..issued'
  BY <1>1, <1>2
<1>6. Onward
  BY <1>2, <1>3, <1>4 DEF Onward, Ready
<1>7. CallsInv'
  BY <1>3, <1>6, CallStands DEF CallsInv
<1>8. KeysInv'
  BY <1>2, <1>3, <1>4, <1>5 DEF ClientInv, KeysInv
<1>9. ProjectsInv' /\ BlankInv' /\ PageInv'
  BY <1>3 DEF ClientInv, ProjectsInv, BlankInv, LeavesNoBlank, PageInv, Ready
<1>10. ClientRowsTyped'
  BY <1>2, <1>3, <1>4 DEF ClientInv, ClientRowsTyped
<1> QED BY <1>7, <1>8, <1>9, <1>10 DEF ClientInv

LEMMA ExpiryKeeps == ASSUME ClientInv, NEW k \in Keys, ExpireKey(k) PROVE ClientInv'
<1>1. UNCHANGED <<stored, signup, request, page, issued, projectOf, applied, dropped, early, left>>
      /\ accepted' = accepted \ {k}
  BY DEF ExpireKey
<1>2. Onward
  BY <1>1 DEF Onward, Ready, ClientInv, ClientRowsTyped
<1>3. CallsInv'
  BY <1>1, <1>2, CallStands DEF CallsInv
<1>4. KeysInv'
  BY <1>1 DEF ClientInv, KeysInv
<1>5. ProjectsInv' /\ BlankInv' /\ PageInv' /\ ClientRowsTyped'
  BY <1>1 DEF ClientInv, ProjectsInv, BlankInv, LeavesNoBlank, PageInv, Ready, ClientRowsTyped
<1> QED BY <1>3, <1>4, <1>5 DEF ClientInv

(* Only the answer to a call is new.                                       *)
LEMMA AnswerKeeps ==
  ASSUME ClientInv, NEW c \in Calls, NEW old \in CallRows, old = request[c],
         NEW new \in CallRows, request' = [request EXCEPT ![c] = new],
         new.step = old.step, new.kind = old.kind, Onward, CallSound(new, applied[c])',
         \A d \in Calls : d # c => applied'[d] = applied[d], UNCHANGED <<page, left>>
  PROVE  CallsInv' /\ BlankInv' /\ request' \in [Calls -> CallRows]
<1>1. request'[c] = new /\ \A d \in Calls : d # c => request'[d] = request[d]
  BY DEF ClientInv, ClientRowsTyped
<1>2. CallsInv'
  BY <1>1, CallStands DEF CallsInv
<1>3. BlankInv'
  BY <1>1 DEF ClientInv, BlankInv, LeavesNoBlank
<1>4. request' \in [Calls -> CallRows]
  BY DEF ClientInv, ClientRowsTyped
<1> QED BY <1>2, <1>3, <1>4

LEMMA RefuseKeeps == ASSUME ClientInv, NEW c \in Calls, Refuse(c) PROVE ClientInv'
<1>1. UNCHANGED <<stored, signup, page, accepted, issued, projectOf, applied, dropped, early, left>>
  BY DEF Refuse, server
<1>2. PICK old \in CallRows : old = request[c] /\ old.step = "sent" /\ old.verdict = "none"
  BY DEF ClientInv, ClientRowsTyped, Refuse, Unserved
<1>3. PICK verdict \in {"401", "refused", "lost"} :
        /\ request' = [request EXCEPT ![c].verdict = verdict]
        /\ verdict = "401" => old.key \notin accepted
  BY <1>2 DEF Refuse, Hears
<1>4. PICK new : new = [old EXCEPT !.verdict = verdict]
  OBVIOUS
<1>5. /\ new \in CallRows /\ new.step = old.step /\ new.kind = old.kind /\ new.about = old.about
      /\ new.key = old.key /\ new.again = old.again /\ new.rows = old.rows /\ new.verdict = verdict
  BY <1>4 DEF CallRows
<1>6. request' = [request EXCEPT ![c] = new]
  BY <1>2, <1>3, <1>4
<1>7. Onward
  BY <1>1 DEF Onward, Ready, ClientInv, ClientRowsTyped
<1>8. CallSound(new, applied[c])'
  <2>1. EffectOnce(old, applied[c]) /\ BringsTruth(old) /\ SentWithKey(old)
    BY <1>2 DEF ClientInv, CallsInv, CallSound
  <2>2. EffectOnce(new, applied[c])'
    BY <1>1, <1>2, <1>5, <2>1 DEF EffectOnce
  <2>3. BringsTruth(new)'
    BY <1>1, <1>2, <1>5, <2>1 DEF BringsTruth, AsksOfProject, Ready
  <2>4. SentWithKey(new)'
    BY <1>1, <1>2, <1>3, <1>5, <2>1 DEF SentWithKey
  <2> QED BY <2>2, <2>3, <2>4 DEF CallSound
<1>9. CallsInv' /\ BlankInv' /\ request' \in [Calls -> CallRows]
  BY <1>1, <1>2, <1>5, <1>6, <1>7, <1>8, AnswerKeeps
<1>10. ProjectsInv' /\ PageInv' /\ KeysInv'
  BY <1>1 DEF ClientInv, ProjectsInv, PageInv, KeysInv, Ready
<1>11. ClientRowsTyped'
  BY <1>1, <1>9 DEF ClientInv, ClientRowsTyped
<1> QED BY <1>9, <1>10, <1>11 DEF ClientInv

LEMMA ServeKeeps == ASSUME ClientInv, NEW c \in Calls, Serve(c) PROVE ClientInv'
<1>1. UNCHANGED <<stored, signup, page, accepted, issued, dropped, early, left>>
  BY DEF Serve
<1>2. PICK old \in CallRows : old = request[c] /\ old.step = "sent" /\ old.verdict = "none"
  BY DEF ClientInv, ClientRowsTyped, Serve, Unserved
<1>3. /\ applied[c] = 0 /\ projectOf[c] = [of |-> 0, status |-> "none"]
      /\ EffectOnce(old, 0) /\ BringsTruth(old) /\ SentWithKey(old)
  BY <1>2 DEF ClientInv, CallsInv, CallSound, EffectOnce, ProjectsInv
<1>4. PICK n \in {0, 1} : /\ applied' = [applied EXCEPT ![c] = n]
                          /\ (old.kind = "create" => n = 1)
  <2>1. CASE Alters(c)
    BY <1>3, <2>1 DEF Serve, ClientInv, ClientRowsTyped
  <2>2. CASE ~Alters(c)
    BY <1>2, <1>3, <2>2 DEF Serve, Alters, ClientInv, ClientRowsTyped
  <2> QED BY <2>1, <2>2
<1>5. applied' \in [Calls -> Nat] /\ applied'[c] = n /\ \A d \in Calls : d # c => applied'[d] = applied[d]
  BY <1>4 DEF ClientInv, ClientRowsTyped
<1>6. /\ old.key # 0 /\ old.key \in Nat
      /\ AsksOfProject(old) => old.about \in Calls /\ projectOf[old.about].of = old.key
  <2>1. old.key \in accepted /\ accepted \subseteq 1..issued /\ issued \in Nat
    BY <1>2 DEF Serve, ClientInv, KeysInv, ClientRowsTyped
  <2>2. AsksOfProject(old) => projectOf[old.about].of = old.key
    BY <1>2 DEF Serve, Permits, Owns, AsksOfProject
  <2>3. \A k \in 1..issued : k # 0 /\ k \in Nat
    BY <2>1
  <2>4. old.key # 0 /\ old.key \in Nat
    BY <2>1, <2>3
  <2>5. AsksOfProject(old) => old.about \in Calls
    BY <1>3 DEF BringsTruth
  <2> QED BY <2>2, <2>4, <2>5
<1>7. /\ projectOf' \in [Calls -> ProjectRows]
      /\ \A p \in Calls : Ready(p) => Ready(p)'
      /\ \A p \in Calls : p # c /\ projectOf[p].of = 0 => projectOf'[p] = projectOf[p]
      /\ n = 0 => projectOf'[c] = projectOf[c]
      /\ old.kind \in {"provision", "pay"} => projectOf'[old.about].status = "ready"
  <2>1. CASE old.kind = "create"
    <3>1. projectOf' = [projectOf EXCEPT ![c] = [of |-> old.key, status |-> "blueprint_ready"]]
      BY <1>2, <2>1 DEF Serve
    <3>2. [of |-> old.key, status |-> "blueprint_ready"] \in ProjectRows
      BY <1>6 DEF ProjectRows, ProjectStates
    <3> QED BY <1>3, <1>4, <2>1, <3>1, <3>2 DEF ClientInv, ClientRowsTyped, Ready
  <2>2. CASE old.kind = "provision"
    <3>1. PICK line \in ProjectRows : line = projectOf[old.about] /\ line.of # 0
      BY <1>6, <2>2 DEF AsksOfProject, ClientInv, ClientRowsTyped
    <3>2. projectOf' = [projectOf EXCEPT ![old.about] = [line EXCEPT !.status = "ready"]]
      BY <1>2, <2>2, <3>1 DEF Serve
    <3>3. [line EXCEPT !.status = "ready"] \in ProjectRows /\ [line EXCEPT !.status = "ready"].status = "ready"
      BY DEF ProjectRows, ProjectStates
    <3>4. old.about # c
      BY <1>3, <3>1
    <3>5. PICK ready \in ProjectRows : ready = [line EXCEPT !.status = "ready"] /\ ready.status = "ready"
      BY <3>3
    <3>6. PICK q \in Calls : q = old.about
      BY <1>6, <2>2 DEF AsksOfProject
    <3>7. q # c /\ projectOf[q].of # 0 /\ projectOf' = [projectOf EXCEPT ![q] = ready]
      BY <3>1, <3>2, <3>4, <3>5, <3>6
    <3>8. projectOf \in [Calls -> ProjectRows]
      BY DEF ClientInv, ClientRowsTyped
    <3>9. projectOf' \in [Calls -> ProjectRows] /\ projectOf'[q] = ready
          /\ \A p \in Calls : p # q => projectOf'[p] = projectOf[p]
      BY <3>7, <3>8
    <3>10. \A p \in Calls : Ready(p) => Ready(p)'
      BY <3>5, <3>9 DEF Ready
    <3>11. \A p \in Calls : p # c /\ projectOf[p].of = 0 => projectOf'[p] = projectOf[p]
      BY <3>7, <3>9
    <3>12. projectOf'[c] = projectOf[c]
      BY <3>7, <3>9
    <3>13. projectOf'[old.about].status = "ready"
      BY <3>5, <3>6, <3>9
    <3> QED BY <3>9, <3>10, <3>11, <3>12, <3>13
  <2>3. CASE old.kind \notin {"create", "provision"}
    <3>1. projectOf' = projectOf
      BY <1>2, <2>3 DEF Serve
    <3>2. old.kind = "pay" => projectOf[old.about].status = "ready"
      BY <1>2 DEF Serve, Permits
    <3> QED BY <2>3, <3>1, <3>2 DEF ClientInv, ClientRowsTyped, Ready
  <2> QED BY <2>1, <2>2, <2>3
<1>8. Onward
  BY <1>1, <1>7 DEF Onward, ClientInv, ClientRowsTyped
<1>9. PICK verdict \in {"ok", "lost"}, rows \in [Calls -> ProjectStates] :
        /\ request' = [request EXCEPT ![c] = [old EXCEPT !.verdict = verdict, !.rows = rows]]
        /\ \A p \in Calls : rows[p] = "ready" => Ready(p)
  <2>1. CASE Hears(c, "lost")
    <3>1. old.rows \in [Calls -> ProjectStates]
      BY DEF CallRows
    <3>2. [old EXCEPT !.verdict = "lost"] = [old EXCEPT !.verdict = "lost", !.rows = old.rows]
      BY DEF CallRows
    <3>3. request' = [request EXCEPT ![c] = [old EXCEPT !.verdict = "lost"]]
      BY <1>2, <2>1 DEF Hears
    <3>4. \A p \in Calls : old.rows[p] = "ready" => Ready(p)
      BY <1>3 DEF BringsTruth
    <3> QED BY <3>1, <3>2, <3>3, <3>4
  <2>2. CASE ~Hears(c, "lost")
    <3>1. PICK rows : rows = IF old.kind # "open" THEN NoRows
                             ELSE [p \in Calls |-> IF projectOf[p].of = old.key
                                                   THEN projectOf[p].status ELSE "none"]
      OBVIOUS
    <3>2. rows \in [Calls -> ProjectStates] /\ \A p \in Calls : rows[p] = "ready" => Ready(p)
      BY <3>1 DEF NoRows, ProjectStates, Ready, ClientInv, ClientRowsTyped, ProjectRows
    <3>3. request' = [request EXCEPT ![c] = [old EXCEPT !.verdict = "ok", !.rows = rows]]
      BY <1>2, <2>2, <3>1 DEF Serve
    <3> QED BY <3>2, <3>3
  <2> QED BY <2>1, <2>2
<1>10. PICK new : new = [old EXCEPT !.verdict = verdict, !.rows = rows]
  OBVIOUS
<1>11. /\ new \in CallRows /\ new.step = old.step /\ new.kind = old.kind /\ new.about = old.about
       /\ new.key = old.key /\ new.again = old.again /\ new.rows = rows /\ new.verdict = verdict
  BY <1>10 DEF CallRows
<1>12. CallSound(new, applied[c])'
  <2>1. EffectOnce(new, applied[c])'
    BY <1>2, <1>4, <1>5, <1>11 DEF EffectOnce
  <2>2. BringsTruth(new)'
    <3>1. \A p \in Calls : new.rows[p] = "ready" => Ready(p)'
      BY <1>7, <1>9, <1>11
    <3>2. AsksOfProject(new) => new.about \in Calls /\ Ready(new.about)'
      BY <1>6, <1>7, <1>11 DEF AsksOfProject, Ready
    <3> QED BY <3>1, <3>2 DEF BringsTruth, AsksOfProject
  <2>3. SentWithKey(new)'
    BY <1>1, <1>3, <1>11 DEF SentWithKey
  <2> QED BY <2>1, <2>2, <2>3 DEF CallSound
<1>13. CallsInv' /\ BlankInv' /\ request' \in [Calls -> CallRows]
  BY <1>1, <1>2, <1>5, <1>8, <1>9, <1>10, <1>11, <1>12, AnswerKeeps
<1>14. ProjectsInv'
  <2> SUFFICES ASSUME NEW p \in Calls, applied'[p] = 0
               PROVE  projectOf'[p] = [of |-> 0, status |-> "none"]
    BY DEF ProjectsInv
  <2>1. CASE p = c
    BY <1>3, <1>5, <1>7, <2>1
  <2>2. CASE p # c
    <3>1. projectOf[p] = [of |-> 0, status |-> "none"]
      BY <1>5, <2>2 DEF ClientInv, ProjectsInv
    <3> QED BY <1>7, <2>2, <3>1
  <2> QED BY <2>1, <2>2
<1>15. PageInv'
  <2>1. page.shown \in Calls \cup {0}
    BY DEF ClientInv, ClientRowsTyped, PageRows
  <2> QED BY <1>1, <1>7, <2>1 DEF ClientInv, PageInv
<1>16. KeysInv'
  BY <1>1, KeysStand
<1>17. ClientRowsTyped'
  BY <1>1, <1>5, <1>7, <1>13 DEF ClientInv, ClientRowsTyped
<1> QED BY <1>13, <1>14, <1>15, <1>16, <1>17 DEF ClientInv

LEMMA ReplaceKeeps == ASSUME ClientInv, NEW c \in Calls, ReplaceKey(c) PROVE ClientInv'
<1>1. UNCHANGED <<page, accepted, issued, projectOf, applied, early, left>>
  BY DEF ReplaceKey, server
<1>2. PICK old \in CallRows :
        old = request[c] /\ old.step = "sent" /\ old.verdict = "401" /\ ~old.again
  BY DEF ClientInv, ClientRowsTyped, ReplaceKey, Replaced, Answered, Rejected
<1>3. PICK new : new = [old EXCEPT !.step = "waiting"]
  OBVIOUS
<1>4. /\ new \in CallRows /\ new.step = "waiting" /\ new.kind = old.kind /\ new.about = old.about
      /\ new.rows = old.rows /\ new.verdict = "401"
  BY <1>2, <1>3 DEF CallRows
<1>5. request' = [request EXCEPT ![c] = new]
  BY <1>2, <1>3 DEF ReplaceKey
<1>6. request'[c] = new /\ (\A d \in Calls : d # c => request'[d] = request[d])
      /\ request' \in [Calls -> CallRows]
  BY <1>4, <1>5 DEF ClientInv, ClientRowsTyped
<1>7. EffectOnce(old, applied[c]) /\ BringsTruth(old) /\ SentWithKey(old)
  BY <1>2 DEF ClientInv, CallsInv, CallSound
<1>8. Onward
  BY <1>1 DEF Onward, Ready, ClientInv, ClientRowsTyped
<1>9. CallSound(new, applied[c])'
  BY <1>1, <1>2, <1>4, <1>7
     DEF CallSound, EffectOnce, BringsTruth, AsksOfProject, Ready, SentWithKey
<1>10. CallsInv'
  BY <1>1, <1>6, <1>8, <1>9, CallStands DEF CallsInv
<1>11. BlankInv'
  BY <1>1, <1>2, <1>4, <1>6 DEF ClientInv, BlankInv, LeavesNoBlank
<1>12. KeysInv'
  <2>1. stored' = 0 /\ issued' = issued /\ accepted' = accepted /\ early' = early /\ issued \in Nat
    BY <1>1 DEF ReplaceKey, ClientInv, ClientRowsTyped
  <2>2. signup' = "answered" => signup = "answered"
    BY DEF ReplaceKey
  <2>3. early \/ \E k \in 1..issued : k \notin accepted
    BY <1>2, <1>7 DEF SentWithKey
  <2>4. 0 <= issued
    BY <2>1
  <2> QED BY <2>1, <2>2, <2>3, <2>4 DEF ClientInv, KeysInv
<1>13. ProjectsInv' /\ PageInv'
  BY <1>1 DEF ClientInv, ProjectsInv, PageInv, Ready
<1>14. ClientRowsTyped'
  <2>1. stored' \in Nat /\ signup' \in {"none", "asked", "answered", "unknown"}
    BY DEF ReplaceKey, ClientInv, ClientRowsTyped
  <2> QED BY <1>1, <1>6, <2>1 DEF ClientInv, ClientRowsTyped
<1> QED BY <1>10, <1>11, <1>12, <1>13, <1>14 DEF ClientInv

(* Those who wait go on with the key that was given out, or fail.          *)
LEMMA SignupReturnsKeeps == ASSUME ClientInv, SignupReturns PROVE ClientInv'
<1>1. UNCHANGED <<page, accepted, issued, projectOf, applied, dropped, early, left>>
      /\ signup' = "none"
  BY DEF SignupReturns, server
<1>2. issued \in Nat /\ (signup = "answered" => issued \in 1..issued)
      /\ stored' \in Nat /\ stored' <= issued
  <2>1. issued \in Nat /\ stored \in Nat /\ stored <= issued /\ (signup = "answered" => issued >= 1)
    BY DEF ClientInv, ClientRowsTyped, KeysInv
  <2>2. stored' = issued \/ stored' = stored
    BY DEF SignupReturns
  <2>3. issued >= 1 => issued \in 1..issued
    BY <2>1
  <2>4. stored' \in Nat /\ stored' <= issued
    BY <2>1, <2>2
  <2> QED BY <2>1, <2>3, <2>4
<1>3. Onward
  BY <1>1 DEF Onward, Ready, ClientInv, ClientRowsTyped
<1>4. ASSUME NEW c \in Calls
      PROVE  /\ request'[c] \in CallRows /\ CallSound(request[c], applied[c])'
             /\ LeavesNoBlank(request[c])'
  <2>1. PICK old \in CallRows : old = request[c]
    BY DEF ClientInv, ClientRowsTyped
  <2>2. EffectOnce(old, applied[c]) /\ BringsTruth(old) /\ SentWithKey(old) /\ LeavesNoBlank(old)
    BY <2>1 DEF ClientInv, CallsInv, CallSound, BlankInv
  <2>3. CASE old.step \notin {"entering", "waiting"}
    <3>1. request'[c] = old
      BY <2>1, <2>3 DEF SignupReturns
    <3>2. CallSound(request[c], applied[c])'
      BY <1>1, <1>3, <2>1, <3>1, CallStands
    <3>3. LeavesNoBlank(request[c])'
      BY <1>1, <2>2, <3>1 DEF LeavesNoBlank
    <3> QED BY <3>1, <3>2, <3>3
  <2>4. CASE old.step \in {"entering", "waiting"}
    <3>1. PICK key \in Nat, verdict \in {"none", "401"}, again \in BOOLEAN :
            /\ request'[c] = [old EXCEPT !.step = "sent", !.key = key, !.verdict = verdict,
                                         !.again = again]
            /\ ~again => key \in 1..issued /\ verdict = "none"
      <4>1. CASE signup = "answered"
        <5>1. PICK again \in BOOLEAN : again = (old.step = "waiting")
          OBVIOUS
        <5>2. request'[c] = [old EXCEPT !.step = "sent", !.key = issued, !.verdict = "none",
                                        !.again = again]
          BY <2>1, <2>4, <4>1, <5>1 DEF SignupReturns
        <5> QED BY <1>2, <4>1, <5>2
      <4>2. CASE signup # "answered"
        <5>1. request'[c] = [old EXCEPT !.step = "sent", !.verdict = "401", !.again = TRUE]
          BY <2>1, <2>4, <4>2 DEF SignupReturns
        <5>2. [old EXCEPT !.step = "sent", !.verdict = "401", !.again = TRUE]
              = [old EXCEPT !.step = "sent", !.key = old.key, !.verdict = "401", !.again = TRUE]
          BY DEF CallRows
        <5>3. old.key \in Nat
          BY DEF CallRows
        <5> QED BY <5>1, <5>2, <5>3
      <4> QED BY <4>1, <4>2
    <3>2. PICK new : new = [old EXCEPT !.step = "sent", !.key = key, !.verdict = verdict,
                                       !.again = again]
      OBVIOUS
    <3>3. /\ new \in CallRows /\ new.step = "sent" /\ new.kind = old.kind /\ new.about = old.about
          /\ new.rows = old.rows /\ new.verdict = verdict /\ new.again = again /\ new.key = key
      BY <3>2 DEF CallRows
    <3>4. applied[c] = 0
      BY <2>2, <2>4 DEF EffectOnce
    <3>5. CallSound(new, applied[c])'
      <4>1. EffectOnce(new, applied[c])'
        BY <1>1, <3>3, <3>4 DEF EffectOnce
      <4>2. BringsTruth(new)'
        BY <1>1, <2>2, <3>3 DEF BringsTruth, AsksOfProject, Ready
      <4>3. SentWithKey(new)'
        BY <1>1, <3>1, <3>3 DEF SentWithKey
      <4> QED BY <4>1, <4>2, <4>3 DEF CallSound
    <3>6. LeavesNoBlank(new)'
      BY <1>1, <2>2, <2>4, <3>3 DEF LeavesNoBlank
    <3> QED BY <3>1, <3>2, <3>3, <3>5, <3>6
  <2> QED BY <2>3, <2>4
<1>5. request' \in [Calls -> CallRows]
  <2>1. request' = [c \in Calls |-> request'[c]]
    BY DEF SignupReturns
  <2> QED BY <1>4, <2>1
<1>6. CallsInv' /\ BlankInv'
  BY <1>4 DEF CallsInv, BlankInv
<1>7. ProjectsInv' /\ PageInv'
  BY <1>1 DEF ClientInv, ProjectsInv, PageInv, Ready
<1>8. KeysInv' /\ ClientRowsTyped'
  BY <1>1, <1>2, <1>5 DEF ClientInv, KeysInv, ClientRowsTyped
<1> QED BY <1>6, <1>7, <1>8 DEF ClientInv

(* What the page makes of an answer.                                       *)
ShownTruly(new) ==
  /\ new \in PageRows
  /\ \A p \in Calls : new.listed[p] = "ready" => Ready(p)
  /\ new.stage = 3 => new.shown # 0 /\ Ready(new.shown)
  /\ new.stage \in {1, 2} /\ new.shown = 0 => left
  /\ page.shown # 0 => new.shown # 0

LEMMA ShowsIsTrue ==
  ASSUME ClientInv, NEW p \in Calls, NEW new \in PageRows, new.shown = p,
         new.stage = 3 => Ready(p), \A q \in Calls : new.listed[q] = "ready" => Ready(q)
  PROVE  ShownTruly(new)
<1>1. p # 0
  BY ClientAssumption
<1> QED BY <1>1 DEF ShownTruly

LEMMA ShowsIsRow ==
  ASSUME ClientInv, NEW p \in Calls, NEW status \in ProjectStates, NEW stage \in {1, 3}
  PROVE  /\ Shows(p, status, stage) \in PageRows /\ Shows(p, status, stage).shown = p
         /\ Shows(p, status, stage).stage = stage
         /\ Shows(p, status, stage).listed = page.listed
<1>1. PICK old \in PageRows : old = page
  BY DEF ClientInv, ClientRowsTyped
<1>2. PICK new : new = [old EXCEPT !.shown = p, !.status = status, !.stage = stage, !.busy = FALSE]
  OBVIOUS
<1>3. new = Shows(p, status, stage)
  BY <1>1, <1>2 DEF Shows
<1>4. new \in PageRows
  <2>1. p \in Calls \cup {0} /\ stage \in {0, 1, 2, 3} /\ FALSE \in BOOLEAN
    OBVIOUS
  <2> QED BY <1>2, <2>1 DEF PageRows
<1>5. new.shown = p /\ new.stage = stage /\ new.listed = old.listed
  BY <1>2 DEF PageRows
<1> QED BY <1>1, <1>3, <1>4, <1>5

LEMMA AfterOkIsTrue ==
  ASSUME ClientInv, NEW c \in Calls, request[c].verdict = "ok"
  PROVE  ShownTruly(AfterOk(c))
<1>1. PICK old \in PageRows : old = page
  BY DEF ClientInv, ClientRowsTyped
<1>2. PICK r \in CallRows : r = request[c]
  BY DEF ClientInv, ClientRowsTyped
<1>3. BringsTruth(r) /\ r.rows \in [Calls -> ProjectStates] /\ r.verdict = "ok"
  BY <1>2 DEF ClientInv, CallsInv, CallSound, CallRows
<1>4. /\ old.listed \in [Calls -> ProjectStates] /\ old.url \in Calls \cup {0}
      /\ \A q \in Calls : old.listed[q] = "ready" => Ready(q)
  BY <1>1 DEF PageRows, ClientInv, PageInv
<1>5. ASSUME NEW new \in PageRows, NEW listed \in [Calls -> ProjectStates],
             \A q \in Calls : listed[q] = "ready" => Ready(q),
             new.listed = listed, new.stage = old.stage, new.shown = old.shown
      PROVE  ShownTruly(new)
  BY <1>1, <1>5 DEF ShownTruly, ClientInv, PageInv
<1>6. CASE r.kind = "open"
  <2>1. \A q \in Calls : r.rows[q] = "ready" => Ready(q)
    BY <1>3 DEF BringsTruth
  <2>2. CASE old.url # 0 /\ r.rows[old.url] # "none"
    <3>1. PICK p \in Calls : p = old.url
      BY <1>4, <2>2
    <3>2. PICK status \in ProjectStates : status = r.rows[p]
      BY <1>3
    <3>3. PICK stage \in {1, 3} : stage = StageOf(status) /\ (stage = 3 => status = "ready")
      BY DEF StageOf
    <3>4. PICK mid \in PageRows : /\ mid = Shows(p, status, stage) /\ mid.shown = p /\ mid.stage = stage
      BY <3>3, ShowsIsRow
    <3>5. PICK new : new = [mid EXCEPT !.listed = r.rows]
      OBVIOUS
    <3>6. AfterOk(c) = new
      BY <1>1, <1>2, <1>6, <2>2, <3>1, <3>2, <3>3, <3>4, <3>5 DEF AfterOk
    <3>7. new \in PageRows /\ new.shown = mid.shown /\ new.stage = mid.stage /\ new.listed = r.rows
      BY <1>3, <3>5 DEF PageRows
    <3>8. new.stage = 3 => Ready(p)
      BY <2>1, <3>2, <3>3, <3>4, <3>7
    <3> QED BY <2>1, <3>4, <3>6, <3>7, <3>8, ShowsIsTrue
  <2>3. CASE ~(old.url # 0 /\ r.rows[old.url] # "none")
    <3>1. PICK new : new = [old EXCEPT !.listed = r.rows, !.busy = FALSE]
      OBVIOUS
    <3>2. AfterOk(c) = new
      BY <1>1, <1>2, <1>6, <2>3, <3>1 DEF AfterOk
    <3>3. new \in PageRows /\ new.listed = r.rows /\ new.stage = old.stage /\ new.shown = old.shown
      BY <1>3, <3>1 DEF PageRows
    <3> QED BY <1>3, <1>5, <2>1, <3>2, <3>3
  <2> QED BY <2>2, <2>3
<1>7. CASE r.kind = "create"
  <2>1. PICK listed : listed = [old.listed EXCEPT ![c] = "blueprint_ready"]
    OBVIOUS
  <2>2. /\ listed \in [Calls -> ProjectStates] /\ "blueprint_ready" \in ProjectStates
        /\ \A q \in Calls : listed[q] = "ready" => Ready(q)
    BY <1>4, <2>1 DEF ProjectStates
  <2>3. PICK mid \in PageRows : /\ mid = Shows(c, "blueprint_ready", 1) /\ mid.shown = c
                               /\ mid.stage = 1 /\ mid.listed = old.listed
    BY <1>1, <2>2, ShowsIsRow
  <2>4. PICK new : new = [mid EXCEPT !.listed = listed, !.url = c]
    OBVIOUS
  <2>5. AfterOk(c) = new
    BY <1>2, <1>7, <2>1, <2>3, <2>4 DEF AfterOk
  <2>6. new \in PageRows /\ new.shown = mid.shown /\ new.stage = mid.stage /\ new.listed = listed
    BY <2>2, <2>4 DEF PageRows
  <2> QED BY <2>2, <2>3, <2>5, <2>6, ShowsIsTrue
<1>8. CASE r.kind = "provision"
  <2>1. PICK p \in Calls : p = r.about /\ Ready(p)
    BY <1>3, <1>8 DEF BringsTruth, AsksOfProject
  <2>2. PICK listed : listed = [old.listed EXCEPT ![p] = IF @ = "none" THEN @ ELSE "ready"]
    OBVIOUS
  <2>3. /\ listed \in [Calls -> ProjectStates] /\ "ready" \in ProjectStates
        /\ \A q \in Calls : listed[q] = "ready" => Ready(q)
    BY <1>4, <2>1, <2>2 DEF ProjectStates
  <2>4. PICK mid \in PageRows : /\ mid = Shows(p, "ready", 3) /\ mid.shown = p
                               /\ mid.stage = 3 /\ mid.listed = old.listed
    BY <1>1, <2>3, ShowsIsRow
  <2>5. PICK new : new = [mid EXCEPT !.listed = listed]
    OBVIOUS
  <2>6. AfterOk(c) = new
    BY <1>2, <1>8, <2>1, <2>2, <2>4, <2>5 DEF AfterOk
  <2>7. new \in PageRows /\ new.shown = mid.shown /\ new.stage = mid.stage /\ new.listed = listed
    BY <2>3, <2>5 DEF PageRows
  <2> QED BY <2>1, <2>3, <2>4, <2>6, <2>7, ShowsIsTrue
<1>9. CASE r.kind = "pay"
  <2>1. PICK p \in Calls : p = r.about /\ Ready(p)
    BY <1>3, <1>9 DEF BringsTruth, AsksOfProject
  <2>2. "ready" \in ProjectStates
    BY DEF ProjectStates
  <2>3. PICK new \in PageRows : /\ new = Shows(p, "ready", 3) /\ new.shown = p
                               /\ new.stage = 3 /\ new.listed = old.listed
    BY <1>1, <2>2, ShowsIsRow
  <2>4. AfterOk(c) = new
    BY <1>2, <1>9, <2>1, <2>3 DEF AfterOk
  <2> QED BY <1>4, <2>1, <2>3, <2>4, ShowsIsTrue
<1>10. CASE r.kind = "talk"
  <2>1. PICK new : new = [old EXCEPT !.talking = FALSE]
    OBVIOUS
  <2>2. AfterOk(c) = new
    BY <1>1, <1>2, <1>10, <2>1 DEF AfterOk
  <2>3. new \in PageRows /\ new.listed = old.listed /\ new.stage = old.stage /\ new.shown = old.shown
    BY <2>1 DEF PageRows
  <2> QED BY <1>4, <1>5, <2>2, <2>3
<1>11. r.kind \in CallKinds
  BY DEF CallRows
<1> QED BY <1>6, <1>7, <1>8, <1>9, <1>10, <1>11 DEF CallKinds

LEMMA AfterErrorIsTrue ==
  ASSUME ClientInv, NEW c \in Calls, request[c].step = "sent"
  PROVE  ShownTruly(AfterError(c))
<1>1. PICK old \in PageRows : old = page
  BY DEF ClientInv, ClientRowsTyped
<1>2. PICK r \in CallRows : r = request[c] /\ r.step = "sent"
  BY DEF ClientInv, ClientRowsTyped
<1>3. r.kind = "provision" => old.shown # 0 \/ left
  BY <1>1, <1>2 DEF ClientInv, BlankInv, LeavesNoBlank
<1>4. PICK stage \in {0, 1, 2, 3}, busy, talking \in BOOLEAN :
        /\ AfterError(c) = [old EXCEPT !.stage = stage, !.busy = busy, !.talking = talking]
        /\ stage = old.stage \/ (stage = 1 /\ (old.shown # 0 \/ left))
  <2>1. old.stage \in {0, 1, 2, 3} /\ old.busy \in BOOLEAN /\ old.talking \in BOOLEAN
    BY DEF PageRows
  <2>2. CASE r.kind = "talk"
    <3>1. AfterError(c) = [old EXCEPT !.talking = FALSE]
      BY <1>1, <1>2, <2>2 DEF AfterError
    <3>2. AfterError(c) = [old EXCEPT !.stage = old.stage, !.busy = old.busy, !.talking = FALSE]
      BY <3>1 DEF PageRows
    <3> QED BY <2>1, <3>2
  <2>3. CASE r.kind = "provision"
    <3>1. AfterError(c) = [old EXCEPT !.stage = 1, !.busy = FALSE]
      BY <1>1, <1>2, <2>3 DEF AfterError
    <3>2. AfterError(c) = [old EXCEPT !.stage = 1, !.busy = FALSE, !.talking = old.talking]
      BY <3>1 DEF PageRows
    <3> QED BY <1>3, <2>1, <2>3, <3>2
  <2>4. CASE r.kind \notin {"talk", "provision"}
    <3>1. AfterError(c) = [old EXCEPT !.busy = FALSE]
      BY <1>1, <1>2, <2>4 DEF AfterError
    <3>2. AfterError(c) = [old EXCEPT !.stage = old.stage, !.busy = FALSE, !.talking = old.talking]
      BY <3>1 DEF PageRows
    <3> QED BY <2>1, <3>2
  <2> QED BY <2>2, <2>3, <2>4
<1>5. PICK new : new = [old EXCEPT !.stage = stage, !.busy = busy, !.talking = talking]
  OBVIOUS
<1>6. new \in PageRows /\ new.listed = old.listed /\ new.shown = old.shown /\ new.stage = stage
  BY <1>5 DEF PageRows
<1>7. PageInv
  BY DEF ClientInv
<1> QED BY <1>1, <1>4, <1>5, <1>6, <1>7 DEF ShownTruly, PageInv

LEMMA ReturnKeeps == ASSUME ClientInv, NEW c \in Calls, Return(c) PROVE ClientInv'
<1>1. UNCHANGED <<stored, signup, accepted, issued, projectOf, applied, dropped, early, left>>
  BY DEF Return, server
<1>2. request[c].step = "sent"
  BY DEF Return, Answered
<1>3. ShownTruly(page')
  <2>1. CASE request[c].verdict = "ok"
    BY <2>1, AfterOkIsTrue DEF Return
  <2>2. CASE request[c].verdict # "ok"
    BY <1>2, <2>2, AfterErrorIsTrue DEF Return
  <2> QED BY <2>1, <2>2
<1>4. PICK gone \in CallRows : /\ gone = [Unsent EXCEPT !.step = "done"] /\ gone.step = "done"
                               /\ gone.verdict = "none" /\ gone.kind = "talk"
                               /\ \A p \in Calls : gone.rows[p] = "none"
  BY UnsentIsRow DEF Unsent, NoRows
<1>5. /\ request' \in [Calls -> CallRows] /\ request'[c] = gone
      /\ \A d \in Calls : d # c => request'[d] = request[d]
  BY <1>4 DEF Return, ClientInv, ClientRowsTyped
<1>6. Onward
  BY <1>1 DEF Onward, Ready, ClientInv, ClientRowsTyped
<1>7. CallSound(gone, applied[c])'
  <2>1. applied[c] <= 1 /\ applied'[c] = applied[c]
    BY <1>1 DEF ClientInv, CallsInv, CallSound, EffectOnce
  <2> QED BY <1>4, <2>1 DEF CallSound, EffectOnce, BringsTruth, AsksOfProject, SentWithKey
<1>8. CallsInv'
  BY <1>1, <1>5, <1>6, <1>7, CallStands DEF CallsInv
<1>9. BlankInv'
  <2>1. page.shown # 0 \/ left => page'.shown # 0 \/ left'
    BY <1>1, <1>3 DEF ShownTruly
  <2> QED BY <1>4, <1>5, <2>1, BlankStands
<1>10. PageInv'
  BY <1>1, <1>3 DEF ShownTruly, PageInv, Ready
<1>11. ProjectsInv' /\ KeysInv'
  BY <1>1, ProjectsStand, KeysStand
<1>12. ClientRowsTyped'
  BY <1>1, <1>3, <1>5 DEF ShownTruly, ClientInv, ClientRowsTyped
<1> QED BY <1>8, <1>9, <1>10, <1>11, <1>12 DEF ClientInv

(* The inductive invariant of the tab.                                     *)
THEOREM ClientInvariant == ClientSpec => []ClientInv
<1>1. ClientInit => ClientInv
  BY ClientStarts
<1>2. ClientInv /\ [ClientNext]_clientVars => ClientInv'
  <2> SUFFICES ASSUME ClientInv, [ClientNext]_clientVars PROVE ClientInv'
    OBVIOUS
  <2>1. CASE NewProject \/ SignupReturns
    BY <2>1, NewProjectKeeps, SignupReturnsKeeps
  <2>2. CASE \E k \in Keys : ServeSignup(k) \/ ExpireKey(k)
    BY <2>2, SignupServedKeeps, ExpiryKeeps
  <2>3. ASSUME NEW c \in Calls,
               CreateBlueprint(c) \/ TalkToBuilder(c) \/ ProvisionShown(c) \/ RunPayment(c)
        PROVE  ClientInv'
    BY <2>3, ClickKeeps
  <2>4. ASSUME NEW c \in Calls,
               Resume(c) \/ Reload(c) \/ Serve(c) \/ Refuse(c) \/ ReplaceKey(c) \/ Return(c)
        PROVE  ClientInv'
    BY <2>4, ResumeKeeps, ReloadKeeps, ServeKeeps, RefuseKeeps, ReplaceKeeps, ReturnKeeps
  <2>5. CASE UNCHANGED clientVars
    <3>1. UNCHANGED <<stored, signup, request, page, accepted, issued, projectOf,
                      applied, dropped, early, left>>
      BY <2>5 DEF clientVars
    <3>2. ProjectsInv' /\ KeysInv' /\ CallsInv'
      BY <3>1, ProjectsStand, KeysStand, CallsStand
    <3>3. PageInv' /\ BlankInv' /\ ClientRowsTyped'
      BY <3>1 DEF ClientInv, PageInv, Ready, BlankInv, LeavesNoBlank, ClientRowsTyped
    <3> QED BY <3>2, <3>3 DEF ClientInv
  <2> QED BY <2>1, <2>2, <2>3, <2>4, <2>5 DEF ClientNext
<1> QED BY <1>1, <1>2, PTL DEF ClientSpec

(* Every run of a tab of the sandbox, whatever is lost, rejected or        *)
(* replaced, keeps what its visitor may rely on (requestApi, call,         *)
(* provisionKey, SandboxPage).                                             *)
THEOREM ClientIsHonest == ClientSpec => []ClientHonest
<1>1. ClientInv => ClientHonest
  BY ClientInvHonest
<1> QED BY <1>1, ClientInvariant, PTL

-----------------------------------------------------------------------------
(* The builder agent. A turn that runs is the latest of its tenant, holds  *)
(* the count that is written and has heard the whole conversation, as long *)
(* as the tenant does not ask twice at once.                               *)
AgentCounts == [day : Nat, used : Nat]
TurnSteps == Running \cup {"new", "refused", "answered", "failed", "lost", "dead"}
TurnRows == [step : TurnSteps, of : Tenants, day : Nat, own : AgentCounts,
             heard : Seq(Turns), paid : BOOLEAN]
AgentTyped ==
  /\ now \in Nat /\ quota \in [Tenants -> AgentCounts] /\ budget \in AgentCounts
  /\ talk \in [Tenants -> Seq(Turns)] /\ turn \in [Turns -> TurnRows]
  /\ overlapped \in SUBSET Tenants /\ disordered \in BOOLEAN

TurnSound(line) ==
  /\ line.day <= now
  /\ line.step = "new" => ~line.paid /\ line.own.used = 0
  /\ line.paid \/ line.step \in Running => line.own.used > 0
  /\ line.step = "calling" => line.paid
TurnsInv ==
  /\ \A r \in Turns : TurnSound(turn[r])
  /\ \A r, s \in Turns : turn[r].step # "new" /\ s < r => turn[s].step # "new"

(* What was let through to the model on a day.                             *)
LetThrough(d) == {r \in Turns : turn[r].day = d /\ (turn[r].paid \/ turn[r].step = "allowed")}
BudgetInv ==
  /\ budget.used <= BudgetLimit
  /\ disordered \/ \A d \in Nat :
       /\ Cardinality(LetThrough(d)) <= BudgetLimit
       /\ d = budget.day => Cardinality(LetThrough(d)) <= budget.used
       /\ d > budget.day => LetThrough(d) = {}

Counted(t, d) == {r \in Turns : turn[r].of = t /\ turn[r].day = d /\ turn[r].own.used > 0}
RunsAlone(t) ==
  /\ \A r, s \in RunningOf(t) : r = s
  /\ \A r \in RunningOf(t) : /\ quota[t] = turn[r].own
                             /\ turn[r].step = "calling" => turn[r].heard = talk[t]
                             /\ \A s \in AnsweredFor(t) : s < r
WithinQuota(t) ==
  /\ quota[t].day <= now
  /\ \A d \in Nat : /\ Cardinality(Counted(t, d)) <= TurnLimit
                    /\ d = quota[t].day => Cardinality(Counted(t, d)) <= quota[t].used
                    /\ d > quota[t].day => Counted(t, d) = {}
TenantSound(t) == RunsAlone(t) /\ WithinQuota(t) /\ Latest(talk[t], AnsweredFor(t))

AgentInv ==
  AgentTyped /\ TurnsInv /\ BudgetInv /\ \A t \in Tenants \ overlapped : TenantSound(t)

LEMMA TurnsFinite ==
  /\ IsFiniteSet(Turns) /\ \A r \in Turns : r \in Nat
  /\ \A S \in SUBSET Turns : IsFiniteSet(S) /\ Cardinality(S) \in Nat
<1>1. IsFiniteSet(Turns) /\ Turns = 1 .. Cardinality(Turns)
  BY AgentAssumption
<1>2. Cardinality(Turns) \in Nat
  BY <1>1, FS_CardinalityType
<1>3. \A S \in SUBSET Turns : IsFiniteSet(S) /\ Cardinality(S) \in Nat
  BY <1>1, FS_Subset, FS_CardinalityType
<1>4. \A r \in Turns : r \in Nat
  BY <1>1, <1>2
<1> QED BY <1>1, <1>3, <1>4

LEMMA FewerTurns ==
  ASSUME NEW S \in SUBSET Turns, NEW T \in SUBSET S
  PROVE  Cardinality(T) <= Cardinality(S)
BY TurnsFinite, FS_Subset

LEMMA OneMoreTurn ==
  ASSUME NEW S \in SUBSET Turns, NEW r \in Turns
  PROVE  /\ Cardinality(S \cup {r}) <= Cardinality(S) + 1
         /\ r \notin S => Cardinality(S \cup {r}) = Cardinality(S) + 1
<1>1. Cardinality(S) \in Nat /\ IsFiniteSet(S)
  BY TurnsFinite
<1>2. Cardinality(S \cup {r}) = IF r \in S THEN Cardinality(S) ELSE Cardinality(S) + 1
  BY <1>1, FS_AddElement
<1> QED BY <1>1, <1>2

(* The latest answers with one more, which is later than all.              *)
LEMMA OneMoreAnswer ==
  ASSUME NEW said \in Seq(Turns), NEW A \in SUBSET Turns, NEW r \in Turns, r \notin A,
         \A s \in A : s < r, Latest(said, A)
  PROVE  LastTurns(Append(said, r)) \in Seq(Turns) /\ Latest(LastTurns(Append(said, r)), A \cup {r})
<1>1. PICK n, a \in Nat : n = Len(said) /\ a = Cardinality(A)
  BY TurnsFinite
<1>2. DOMAIN said = 1 .. n /\ Remembered \in Nat /\ r \in Nat /\ Cardinality(A \cup {r}) = a + 1
  <2>1. DOMAIN said = 1 .. n
    BY <1>1
  <2>2. Remembered \in Nat /\ r \in Nat
    BY AgentAssumption, TurnsFinite
  <2>3. Cardinality(A \cup {r}) = Cardinality(A) + 1
    BY OneMoreTurn
  <2> QED BY <1>1, <2>1, <2>2, <2>3
<1>3. n = IF a > Remembered THEN Remembered ELSE a
  BY <1>1 DEF Latest
<1>4. \A i \in 1 .. n : /\ said[i] \in A /\ said[i] \in Nat
                        /\ \A j \in 1 .. n : i < j => said[i] < said[j]
  BY <1>2, TurnsFinite DEF Latest
<1>5. \A s \in A : s \in Nat /\ ((\E i \in 1 .. n : said[i] = s) \/ \A i \in 1 .. n : s < said[i])
  BY <1>2, TurnsFinite DEF Latest
<1>6. PICK more \in Seq(Turns) : /\ more = Append(said, r) /\ Len(more) = n + 1
                                 /\ more[n + 1] = r /\ \A i \in 1 .. n : more[i] = said[i]
  <2>1. PICK more \in Seq(Turns) : more = Append(said, r)
    BY AppendProperties
  <2>2. Len(more) = n + 1
    BY <1>1, <2>1, AppendProperties
  <2>3. more[n + 1] = r
    BY <1>1, <2>1, AppendProperties
  <2>4. \A i \in 1 .. n : more[i] = said[i]
    BY <1>1, <2>1, AppendProperties
  <2> QED BY <2>1, <2>2, <2>3, <2>4
<1>7. CASE n + 1 > Remembered
  <2>1. n = Remembered /\ a >= n
    BY <1>2, <1>3, <1>7
  <2>2. more # <<>>
    BY <1>6
  <2>3. PICK new \in Seq(Turns) : /\ new = Tail(more) /\ Len(new) = n
                                  /\ \A i \in 1 .. n : new[i] = more[i + 1]
    <3>1. PICK new \in Seq(Turns) : new = Tail(more)
      BY <2>2, HeadTailProperties
    <3>2. Len(new) = n
      <4>1. Len(new) = Len(more) - 1
        BY <2>2, <3>1, HeadTailProperties
      <4> QED BY <1>6, <4>1
    <3>3. \A i \in 1 .. n : new[i] = more[i + 1]
      BY <2>2, <3>1, <3>2, HeadTailProperties
    <3> QED BY <3>1, <3>2, <3>3
  <2>4. LastTurns(Append(said, r)) = new
    BY <1>6, <1>7, <2>3 DEF LastTurns
  <2>5. DOMAIN new = 1 .. n
    BY <2>3
  <2>6. \A i \in 1 .. n : new[i] = IF i = n THEN r ELSE said[i + 1]
    BY <1>6, <2>3
  <2>7. \A i \in 1 .. n : new[i] \in A \cup {r} /\ \A j \in 1 .. n : i < j => new[i] < new[j]
    BY <1>4, <2>6
  <2>8. \A s \in A \cup {r} : (\E i \in 1 .. n : new[i] = s) \/ \A i \in 1 .. n : s < new[i]
    <3>1. CASE n = 0
      BY <3>1
    <3>2. CASE n > 0
      <4>1. n \in 1 .. n /\ 1 \in 1 .. n /\ new[n] = r
        BY <2>6, <3>2
      <4>2. ASSUME NEW s \in A PROVE (\E i \in 1 .. n : new[i] = s) \/ \A i \in 1 .. n : s < new[i]
        <5>1. CASE \A i \in 1 .. n : s < said[i]
          <6>1. ASSUME NEW i \in 1 .. n PROVE s < new[i]
            <7>1. CASE i = n
              BY <2>6, <7>1, s < r
            <7>2. CASE i # n
              <8>1. i + 1 \in 1 .. n /\ new[i] = said[i + 1]
                BY <2>6, <7>2
              <8> QED BY <5>1, <8>1
            <7> QED BY <7>1, <7>2
          <6> QED BY <6>1
        <5>2. ASSUME NEW i \in 1 .. n, said[i] = s
              PROVE  (\E k \in 1 .. n : new[k] = s) \/ \A k \in 1 .. n : s < new[k]
          <6>1. CASE i = 1
            BY <1>4, <2>6, <5>2, <6>1
          <6>2. CASE i > 1
            <7>1. i - 1 \in 1 .. n /\ i - 1 # n /\ (i - 1) + 1 = i
              BY <6>2
            <7> QED BY <2>6, <5>2, <7>1
          <6> QED BY <6>1, <6>2
        <5> QED BY <1>5, <5>1, <5>2
      <4> QED BY <4>1, <4>2
    <3> QED BY <3>1, <3>2
  <2>9. Len(new) = IF Cardinality(A \cup {r}) > Remembered THEN Remembered ELSE Cardinality(A \cup {r})
    BY <1>2, <2>1, <2>3
  <2> QED BY <2>3, <2>4, <2>5, <2>7, <2>8, <2>9 DEF Latest
<1>8. CASE ~(n + 1 > Remembered)
  <2>1. n = a
    BY <1>2, <1>3, <1>8
  <2>2. LastTurns(Append(said, r)) = more
    BY <1>6, <1>8 DEF LastTurns
  <2>3. DOMAIN more = 1 .. (n + 1)
    BY <1>6
  <2>4. \A i \in 1 .. (n + 1) : more[i] = IF i = n + 1 THEN r ELSE said[i]
    BY <1>6
  <2>5. \A i \in 1 .. (n + 1) : /\ more[i] \in A \cup {r}
                                /\ \A j \in 1 .. (n + 1) : i < j => more[i] < more[j]
    BY <1>4, <2>4
  <2>6. ASSUME NEW s \in A \cup {r}
        PROVE  (\E i \in 1 .. (n + 1) : more[i] = s) \/ \A i \in 1 .. (n + 1) : s < more[i]
    <3>1. CASE s = r
      BY <2>4, <3>1
    <3>2. CASE s \in A /\ \E i \in 1 .. n : said[i] = s
      <4>1. PICK i \in 1 .. n : said[i] = s
        BY <3>2
      <4> QED BY <2>4, <4>1
    <3>3. CASE s \in A /\ \A i \in 1 .. n : s < said[i]
      BY <2>4, <3>3
    <3> QED BY <1>5, <3>1, <3>2, <3>3
  <2>7. Len(more) = IF Cardinality(A \cup {r}) > Remembered THEN Remembered ELSE Cardinality(A \cup {r})
    BY <1>2, <1>6, <1>8, <2>1
  <2> QED BY <2>2, <2>3, <2>5, <2>6, <2>7 DEF Latest
<1> QED BY <1>7, <1>8

(* One turn is written.                                                    *)
LEMMA TurnWritten ==
  ASSUME AgentTyped, TurnsInv, NEW r \in Turns, NEW line \in TurnRows, now' = now,
         turn' = [turn EXCEPT ![r] = line], TurnSound(line), line.step # "new",
         turn[r].step # "new" \/ Comes(r)
  PROVE  /\ turn' \in [Turns -> TurnRows] /\ TurnsInv'
         /\ turn'[r] = line /\ \A s \in Turns : s # r => turn'[s] = turn[s]
<1>1. turn \in [Turns -> TurnRows]
  BY DEF AgentTyped
<1>2. turn' \in [Turns -> TurnRows] /\ turn'[r] = line /\ \A s \in Turns : s # r => turn'[s] = turn[s]
  BY <1>1
<1>3. ASSUME NEW s \in Turns PROVE TurnSound(turn[s])'
  <2>1. CASE s = r
    BY <1>2, <2>1 DEF TurnSound
  <2>2. CASE s # r
    <3>1. TurnSound(turn[s])
      BY DEF TurnsInv
    <3> QED BY <1>2, <2>2, <3>1 DEF TurnSound
  <2> QED BY <2>1, <2>2
<1>4. ASSUME NEW p \in Turns, NEW s \in Turns, turn'[p].step # "new", s < p PROVE turn'[s].step # "new"
  <2>1. CASE p = r
    <3>1. CASE s = r
      BY <1>2, <3>1
    <3>2. CASE s # r
      <4>1. turn[s].step # "new"
        BY <1>4, <2>1 DEF TurnsInv, Comes
      <4> QED BY <1>2, <3>2, <4>1
    <3> QED BY <3>1, <3>2
  <2>2. CASE p # r
    <3>1. turn[s].step # "new"
      BY <1>2, <1>4, <2>2 DEF TurnsInv
    <3> QED BY <1>2, <3>1
  <2> QED BY <2>1, <2>2
<1> QED BY <1>2, <1>3, <1>4 DEF TurnsInv

(* A step that lets no turn through leaves the budget's account as it is.  *)
LEMMA BudgetStands ==
  ASSUME BudgetInv, AgentTyped, AgentTyped', budget' = budget, disordered' = disordered,
         \A s \in Turns : turn'[s].paid \/ turn'[s].step = "allowed" =>
           turn[s].day = turn'[s].day /\ (turn[s].paid \/ turn[s].step = "allowed")
  PROVE  BudgetInv'
<1>1. ASSUME NEW d \in Nat PROVE LetThrough(d)' \in SUBSET LetThrough(d) /\ LetThrough(d) \in SUBSET Turns
  BY DEF LetThrough
<1>2. ASSUME NEW d \in Nat
      PROVE  /\ Cardinality(LetThrough(d)') \in Nat /\ Cardinality(LetThrough(d)) \in Nat
             /\ Cardinality(LetThrough(d)') <= Cardinality(LetThrough(d))
  <2>1. LetThrough(d)' \in SUBSET LetThrough(d) /\ LetThrough(d) \in SUBSET Turns
    BY <1>1
  <2>2. Cardinality(LetThrough(d)') <= Cardinality(LetThrough(d))
    BY <2>1, FewerTurns
  <2>3. Cardinality(LetThrough(d)') \in Nat /\ Cardinality(LetThrough(d)) \in Nat
    BY <2>1, TurnsFinite
  <2> QED BY <2>2, <2>3
<1>3. budget.used \in Nat /\ BudgetLimit \in Nat
  BY AgentAssumption DEF AgentTyped, AgentCounts
<1>4. ASSUME ~disordered, NEW d \in Nat
      PROVE  /\ Cardinality(LetThrough(d)') <= BudgetLimit
             /\ d = budget.day => Cardinality(LetThrough(d)') <= budget.used
             /\ d > budget.day => LetThrough(d)' = {}
  <2>1. /\ Cardinality(LetThrough(d)) <= BudgetLimit
        /\ d = budget.day => Cardinality(LetThrough(d)) <= budget.used
        /\ d > budget.day => LetThrough(d) = {}
    BY <1>4 DEF BudgetInv
  <2>2. d > budget.day => LetThrough(d)' = {}
    BY <1>1, <2>1
  <2>3. PICK m, k \in Nat : m = Cardinality(LetThrough(d)') /\ k = Cardinality(LetThrough(d)) /\ m <= k
    BY <1>2
  <2> QED BY <1>3, <2>1, <2>2, <2>3
<1> QED BY <1>4 DEF BudgetInv

(* A step that does nothing for a tenant leaves the tenant as it is.       *)
LEMMA TenantStands ==
  ASSUME AgentTyped, AgentTyped', NEW t \in Tenants, TenantSound(t),
         quota'[t] = quota[t], talk'[t] = talk[t], now' >= now,
         \A s \in Turns : turn'[s].of = t /\ turn'[s].step \in Running =>
           /\ turn[s].of = t /\ turn[s].step \in Running /\ turn'[s].own = turn[s].own
           /\ turn'[s].step = "calling" =>
                \/ turn'[s].heard = talk[t]
                \/ turn[s].step = "calling" /\ turn'[s].heard = turn[s].heard,
         \A s \in Turns : turn'[s].step = "answered" /\ turn'[s].of = t <=>
                         turn[s].step = "answered" /\ turn[s].of = t,
         \A s \in Turns : turn'[s].of = t /\ turn'[s].own.used > 0 =>
           turn[s].of = t /\ turn[s].day = turn'[s].day /\ turn[s].own.used > 0
  PROVE  TenantSound(t)'
<1>1. AnsweredFor(t)' = AnsweredFor(t)
  BY DEF AnsweredFor
<1>2. RunningOf(t)' \subseteq RunningOf(t) /\ RunningOf(t) \subseteq Turns
  BY DEF RunningOf
<1>3. RunsAlone(t)'
  <2>1. \A r, s \in RunningOf(t)' : r = s
    BY <1>2 DEF TenantSound, RunsAlone
  <2>2. ASSUME NEW r \in RunningOf(t)'
        PROVE  /\ quota'[t] = turn'[r].own
               /\ turn'[r].step = "calling" => turn'[r].heard = talk'[t]
               /\ \A s \in AnsweredFor(t)' : s < r
    <3>1. r \in RunningOf(t) /\ r \in Turns /\ turn'[r].of = t /\ turn'[r].step \in Running
      BY <1>2, <2>2 DEF RunningOf
    <3>2. /\ quota[t] = turn[r].own
          /\ turn[r].step = "calling" => turn[r].heard = talk[t]
          /\ \A s \in AnsweredFor(t) : s < r
      BY <3>1 DEF TenantSound, RunsAlone
    <3> QED BY <1>1, <3>1, <3>2
  <2> QED BY <2>1, <2>2 DEF RunsAlone
<1>4. WithinQuota(t)'
  <2>1. quota[t].day \in Nat /\ quota[t].used \in Nat /\ TurnLimit \in Nat /\ now \in Nat /\ now' \in Nat
    BY AgentAssumption DEF AgentTyped, AgentCounts
  <2>2. quota[t].day <= now'
    BY <2>1 DEF TenantSound, WithinQuota
  <2>3. ASSUME NEW d \in Nat
        PROVE  /\ Cardinality(Counted(t, d)') <= TurnLimit
               /\ d = quota[t].day => Cardinality(Counted(t, d)') <= quota[t].used
               /\ d > quota[t].day => Counted(t, d)' = {}
    <3>1. Counted(t, d)' \in SUBSET Counted(t, d) /\ Counted(t, d) \in SUBSET Turns
      BY DEF Counted
    <3>2. Cardinality(Counted(t, d)') <= Cardinality(Counted(t, d))
      BY <3>1, FewerTurns
    <3>3. PICK m, k \in Nat : m = Cardinality(Counted(t, d)') /\ k = Cardinality(Counted(t, d)) /\ m <= k
      BY <3>1, <3>2, TurnsFinite
    <3>4. /\ Cardinality(Counted(t, d)) <= TurnLimit
          /\ d = quota[t].day => Cardinality(Counted(t, d)) <= quota[t].used
          /\ d > quota[t].day => Counted(t, d) = {}
      BY DEF TenantSound, WithinQuota
    <3> QED BY <2>1, <3>1, <3>3, <3>4
  <2> QED BY <2>2, <2>3 DEF WithinQuota
<1>5. Latest(talk'[t], AnsweredFor(t)')
  BY <1>1 DEF TenantSound
<1>6. Latest(talk[t], AnsweredFor(t))'
  BY <1>5 DEF Latest
<1> QED BY <1>3, <1>4, <1>6 DEF TenantSound

(* The quota of a day takes one more turn.                                 *)
LEMMA QuotaTakesOne ==
  ASSUME NEW count \in AgentCounts, NEW day \in Nat, NEW max \in Nat
  PROVE  /\ CountedOn(count, day) \in AgentCounts /\ CountedOn(count, day).used > 0
         /\ CountedOn(count, day).day = day
         /\ UsedOn(count, day) < max => CountedOn(count, day).used <= max
         /\ day = count.day => CountedOn(count, day).used = count.used + 1
BY DEF CountedOn, UsedOn, AgentCounts

(* The same when one turn is written that is not the tenant's, or that     *)
(* stays what it was to it.                                                *)
LEMMA TenantUnmoved ==
  ASSUME AgentTyped, AgentTyped', NEW t \in Tenants, TenantSound(t), NEW r \in Turns,
         quota'[t] = quota[t], talk'[t] = talk[t], now' = now,
         \A s \in Turns : s # r => turn'[s] = turn[s],
         turn'[r].of = t /\ turn'[r].step \in Running =>
           /\ turn[r].of = t /\ turn[r].step \in Running /\ turn'[r].own = turn[r].own
           /\ turn'[r].step = "calling" => turn'[r].heard = talk[t],
         turn'[r].step = "answered" /\ turn'[r].of = t <=>
           turn[r].step = "answered" /\ turn[r].of = t,
         turn'[r].of = t /\ turn'[r].own.used > 0 =>
           turn[r].of = t /\ turn[r].day = turn'[r].day /\ turn[r].own.used > 0
  PROVE  TenantSound(t)'
<1>1. ASSUME NEW s \in Turns, turn'[s].of = t, turn'[s].step \in Running
      PROVE  /\ turn[s].of = t /\ turn[s].step \in Running /\ turn'[s].own = turn[s].own
             /\ turn'[s].step = "calling" =>
                  \/ turn'[s].heard = talk[t]
                  \/ turn[s].step = "calling" /\ turn'[s].heard = turn[s].heard
  <2>1. CASE s = r
    BY <1>1, <2>1
  <2>2. CASE s # r
    <3>1. turn'[s] = turn[s]
      BY <2>2
    <3> QED BY <1>1, <3>1
  <2> QED BY <2>1, <2>2
<1>2. ASSUME NEW s \in Turns
      PROVE  turn'[s].step = "answered" /\ turn'[s].of = t <=>
             turn[s].step = "answered" /\ turn[s].of = t
  BY <1>2
<1>3. ASSUME NEW s \in Turns, turn'[s].of = t, turn'[s].own.used > 0
      PROVE  turn[s].of = t /\ turn[s].day = turn'[s].day /\ turn[s].own.used > 0
  <2>1. CASE s = r
    BY <1>3, <2>1
  <2>2. CASE s # r
    <3>1. turn'[s] = turn[s]
      BY <2>2
    <3> QED BY <1>3, <3>1
  <2> QED BY <2>1, <2>2
<1>4. now' >= now
  BY DEF AgentTyped
<1> QED BY <1>1, <1>2, <1>3, <1>4, TenantStands

LEMMA StepTaken ==
  ASSUME AgentTyped, NEW r \in Turns, NEW step \in TurnSteps, GoesTo(r, step)
  PROVE  \E line \in TurnRows :
           /\ turn' = [turn EXCEPT ![r] = line] /\ line.step = step
           /\ line.of = turn[r].of /\ line.day = turn[r].day /\ line.own = turn[r].own
           /\ line.heard = turn[r].heard /\ line.paid = turn[r].paid
<1>1. PICK old \in TurnRows : old = turn[r]
  BY DEF AgentTyped
<1>2. PICK line \in TurnRows : line = [old EXCEPT !.step = step]
  BY DEF TurnRows
<1>3. turn' = [turn EXCEPT ![r] = line]
  BY <1>1, <1>2 DEF GoesTo
<1>4. /\ line.step = step /\ line.of = old.of /\ line.day = old.day /\ line.own = old.own
      /\ line.heard = old.heard /\ line.paid = old.paid
  BY <1>2 DEF TurnRows
<1> QED BY <1>1, <1>3, <1>4

LEMMA TurnAwayKeeps ==
  ASSUME AgentInv, now' = now, NEW r \in Turns, NEW t \in Tenants, TurnAway(r, t)
  PROVE  AgentInv'
<1> USE DEF AgentInv
<1>1. PICK old \in TurnRows : old = turn[r] /\ old.step = "new"
  BY DEF AgentTyped, TurnAway, Comes
<1>2. PICK line \in TurnRows : line = [old EXCEPT !.step = "refused", !.of = t]
  BY DEF TurnRows, TurnSteps
<1>3. /\ line.step = "refused" /\ line.of = t /\ line.day = old.day /\ line.own = old.own
      /\ line.paid = old.paid
  BY <1>2 DEF TurnRows
<1>4. turn' = [turn EXCEPT ![r] = line]
  BY <1>1, <1>2 DEF TurnAway
<1>5. TurnSound(old) /\ old.own.used \in Nat
  BY <1>1 DEF TurnsInv, TurnRows, AgentCounts
<1>6. ~old.paid /\ old.own.used = 0 /\ old.day <= now
  BY <1>1, <1>5 DEF TurnSound
<1>7. TurnSound(line)
  BY <1>3, <1>6 DEF TurnSound, Running
<1>8. Comes(r) /\ line.step # "new"
  BY <1>3 DEF TurnAway
<1>9. /\ turn' \in [Turns -> TurnRows] /\ TurnsInv'
      /\ turn'[r] = line /\ \A s \in Turns : s # r => turn'[s] = turn[s]
  BY <1>4, <1>7, <1>8, TurnWritten
<1>10. quota' = quota /\ talk' = talk /\ budget' = budget /\ overlapped' = overlapped /\ disordered' = disordered
  BY DEF TurnAway
<1>11. AgentTyped'
  BY <1>9, <1>10 DEF AgentTyped
<1>12. BudgetInv'
  <2>1. ASSUME NEW s \in Turns, turn'[s].paid \/ turn'[s].step = "allowed"
        PROVE  turn[s].day = turn'[s].day /\ (turn[s].paid \/ turn[s].step = "allowed")
    BY <1>3, <1>6, <1>9, <2>1
  <2> QED BY <1>10, <1>11, <2>1, BudgetStands
<1>13. ASSUME NEW u \in Tenants \ overlapped' PROVE TenantSound(u)'
  <2>1. TenantSound(u) /\ u \in Tenants
    BY <1>10
  <2>2. turn'[r].step \notin Running /\ turn'[r].step # "answered" /\ turn[r].step # "answered"
    BY <1>1, <1>3, <1>9 DEF Running
  <2>3. ~(turn'[r].own.used > 0)
    BY <1>3, <1>6, <1>9
  <2> QED BY <1>9, <1>10, <1>11, <2>1, <2>2, <2>3, TenantUnmoved
<1> QED BY <1>9, <1>11, <1>12, <1>13

LEMMA CallModelKeeps ==
  ASSUME AgentInv, now' = now, NEW r \in Turns, CallModel(r)
  PROVE  AgentInv'
<1> USE DEF AgentInv
<1>1. PICK old \in TurnRows : old = turn[r] /\ old.step = "allowed"
  BY DEF AgentTyped, CallModel
<1>2. PICK said \in Seq(Turns) : said = talk[old.of]
  BY DEF AgentTyped, TurnRows
<1>3. PICK line \in TurnRows : line = [old EXCEPT !.step = "calling", !.paid = TRUE, !.heard = said]
  BY <1>2 DEF TurnRows, TurnSteps, Running
<1>4. /\ line.step = "calling" /\ line.of = old.of /\ line.day = old.day /\ line.own = old.own
      /\ line.paid = TRUE /\ line.heard = said
  BY <1>3 DEF TurnRows
<1>5. turn' = [turn EXCEPT ![r] = line]
  BY <1>1, <1>2, <1>3 DEF CallModel
<1>6. TurnSound(old)
  BY <1>1 DEF TurnsInv
<1>7. old.own.used > 0 /\ old.day <= now
  BY <1>1, <1>6 DEF TurnSound, Running
<1>8. TurnSound(line) /\ line.step # "new" /\ turn[r].step # "new"
  BY <1>1, <1>4, <1>7 DEF TurnSound
<1>9. /\ turn' \in [Turns -> TurnRows] /\ TurnsInv'
      /\ turn'[r] = line /\ \A s \in Turns : s # r => turn'[s] = turn[s]
  BY <1>5, <1>8, TurnWritten
<1>10. quota' = quota /\ talk' = talk /\ budget' = budget /\ overlapped' = overlapped /\ disordered' = disordered
  BY DEF CallModel
<1>11. AgentTyped'
  BY <1>9, <1>10 DEF AgentTyped
<1>12. BudgetInv'
  <2>1. ASSUME NEW s \in Turns, turn'[s].paid \/ turn'[s].step = "allowed"
        PROVE  turn[s].day = turn'[s].day /\ (turn[s].paid \/ turn[s].step = "allowed")
    BY <1>1, <1>4, <1>9, <2>1
  <2> QED BY <1>10, <1>11, <2>1, BudgetStands
<1>13. ASSUME NEW u \in Tenants \ overlapped' PROVE TenantSound(u)'
  <2>1. TenantSound(u) /\ u \in Tenants
    BY <1>10
  <2>2. turn'[r].of = turn[r].of /\ turn'[r].own = turn[r].own /\ turn'[r].day = turn[r].day
    BY <1>1, <1>4, <1>9
  <2>3. turn[r].step \in Running /\ turn'[r].step # "answered" /\ turn[r].step # "answered"
    BY <1>1, <1>4, <1>9 DEF Running
  <2>4. turn'[r].of = u => turn'[r].heard = talk[u]
    BY <1>1, <1>2, <1>4, <1>9
  <2>5. turn'[r].own.used > 0 => turn[r].own.used > 0
    BY <2>2
  <2> QED BY <1>9, <1>10, <1>11, <2>1, <2>2, <2>3, <2>4, <2>5, TenantUnmoved
<1> QED BY <1>9, <1>11, <1>12, <1>13

LEMMA FailTurnKeeps ==
  ASSUME AgentInv, now' = now, NEW r \in Turns, FailTurn(r)
  PROVE  AgentInv'
<1> USE DEF AgentInv
<1>1. turn[r].step = "calling" /\ GoesTo(r, "failed") /\ "failed" \in TurnSteps
  BY DEF FailTurn, TurnSteps
<1>2. PICK line \in TurnRows :
        /\ turn' = [turn EXCEPT ![r] = line] /\ line.step = "failed"
        /\ line.of = turn[r].of /\ line.day = turn[r].day /\ line.own = turn[r].own
        /\ line.heard = turn[r].heard /\ line.paid = turn[r].paid
  BY <1>1, StepTaken
<1>3. TurnSound(turn[r])
  BY DEF TurnsInv
<1>4. turn[r].own.used > 0 /\ turn[r].day <= now
  BY <1>1, <1>3 DEF TurnSound, Running
<1>5. TurnSound(line) /\ line.step # "new" /\ turn[r].step # "new"
  BY <1>1, <1>2, <1>4 DEF TurnSound
<1>6. /\ turn' \in [Turns -> TurnRows] /\ TurnsInv'
      /\ turn'[r] = line /\ \A s \in Turns : s # r => turn'[s] = turn[s]
  BY <1>2, <1>5, TurnWritten
<1>7. quota' = quota /\ talk' = talk /\ budget' = budget /\ overlapped' = overlapped /\ disordered' = disordered
  BY DEF FailTurn
<1>8. AgentTyped'
  BY <1>6, <1>7 DEF AgentTyped
<1>9. BudgetInv'
  <2>1. ASSUME NEW s \in Turns, turn'[s].paid \/ turn'[s].step = "allowed"
        PROVE  turn[s].day = turn'[s].day /\ (turn[s].paid \/ turn[s].step = "allowed")
    BY <1>2, <1>6, <2>1
  <2> QED BY <1>7, <1>8, <2>1, BudgetStands
<1>10. ASSUME NEW u \in Tenants \ overlapped' PROVE TenantSound(u)'
  <2>1. TenantSound(u) /\ u \in Tenants
    BY <1>7
  <2>2. turn'[r].of = turn[r].of /\ turn'[r].own = turn[r].own /\ turn'[r].day = turn[r].day
    BY <1>2, <1>6
  <2>3. turn'[r].step \notin Running /\ turn'[r].step # "answered" /\ turn[r].step # "answered"
    BY <1>1, <1>2, <1>6 DEF Running
  <2>5. turn'[r].own.used > 0 => turn[r].own.used > 0
    BY <2>2
  <2> QED BY <1>6, <1>7, <1>8, <2>1, <2>2, <2>3, <2>5, TenantUnmoved
<1> QED BY <1>6, <1>8, <1>9, <1>10

LEMMA ReserveBudgetKeeps ==
  ASSUME AgentInv, now' = now, NEW r \in Turns, ReserveBudget(r)
  PROVE  AgentInv'
<1> USE DEF AgentInv
<1>1. PICK step \in {"dead", "allowed", "refused"} :
        /\ GoesTo(r, step)
        /\ step = "allowed" => turn[r].step = "asked"
        /\ \/ UsedOn(budget, turn[r].day) < BudgetLimit /\ budget' = CountedOn(budget, turn[r].day)
           \/ step # "allowed" /\ budget' = budget
  BY DEF ReserveBudget
<1>2. step \in TurnSteps /\ turn[r].step \in {"asked", "lost"}
  BY DEF TurnSteps, Running, ReserveBudget
<1>3. PICK line \in TurnRows :
        /\ turn' = [turn EXCEPT ![r] = line] /\ line.step = step
        /\ line.of = turn[r].of /\ line.day = turn[r].day /\ line.own = turn[r].own
        /\ line.heard = turn[r].heard /\ line.paid = turn[r].paid
  BY <1>1, <1>2, StepTaken
<1>4. TurnSound(turn[r])
  BY DEF TurnsInv
<1>5. /\ turn[r].day <= now
      /\ turn[r].paid \/ turn[r].step = "asked" => turn[r].own.used > 0
  BY <1>4 DEF TurnSound, Running
<1>6. TurnSound(line) /\ line.step # "new" /\ turn[r].step # "new"
  BY <1>1, <1>2, <1>3, <1>5 DEF TurnSound, Running
<1>7. /\ turn' \in [Turns -> TurnRows] /\ TurnsInv'
      /\ turn'[r] = line /\ \A s \in Turns : s # r => turn'[s] = turn[s]
  BY <1>3, <1>6, TurnWritten
<1>8. /\ quota' = quota /\ talk' = talk /\ overlapped' = overlapped
      /\ disordered' = (disordered \/ turn[r].day < budget.day)
  BY DEF ReserveBudget
<1>9. PICK day \in Nat : day = turn[r].day
  BY DEF AgentTyped, TurnRows
<1>10. budget \in AgentCounts /\ budget.used \in Nat /\ budget.day \in Nat /\ BudgetLimit \in Nat
  BY AgentAssumption DEF AgentTyped, AgentCounts
<1>11. /\ budget' \in AgentCounts /\ budget'.used <= BudgetLimit
       /\ budget' # budget => budget' = CountedOn(budget, day)
  <2>1. CASE budget' = budget
    BY <1>10, <2>1 DEF BudgetInv
  <2>2. CASE UsedOn(budget, day) < BudgetLimit /\ budget' = CountedOn(budget, day)
    BY <1>10, <2>2, QuotaTakesOne
  <2> QED BY <1>1, <1>9, <2>1, <2>2
<1>12. AgentTyped'
  BY <1>7, <1>8, <1>11 DEF AgentTyped
<1>13. BudgetInv'
  <2>1. CASE disordered'
    BY <1>11, <2>1 DEF BudgetInv
  <2>2. CASE ~disordered' /\ step # "allowed" /\ budget' = budget
    <3>1. ASSUME NEW s \in Turns, turn'[s].paid \/ turn'[s].step = "allowed"
          PROVE  turn[s].day = turn'[s].day /\ (turn[s].paid \/ turn[s].step = "allowed")
      BY <1>3, <1>7, <2>2, <3>1
    <3>2. disordered' = disordered
      BY <1>8, <2>2 DEF AgentTyped
    <3> QED BY <1>12, <2>2, <3>1, <3>2, BudgetStands
  <2>3. CASE ~disordered' /\ UsedOn(budget, day) < BudgetLimit /\ budget' = CountedOn(budget, day)
    <3>1. ~disordered /\ day >= budget.day
      <4>1. ~(disordered \/ turn[r].day < budget.day)
        BY <1>8, <2>3, Zenon
      <4>2. ~disordered /\ ~(day < budget.day)
        BY <1>9, <4>1
      <4> QED BY <1>10, <4>2
    <3>2. PICK used \in Nat : used = budget'.used /\ used > 0 /\ used <= BudgetLimit
      <4>1. budget'.used \in Nat /\ budget'.used <= BudgetLimit
        BY <1>11 DEF AgentCounts
      <4>2. budget'.used > 0
        BY <1>10, <2>3, QuotaTakesOne
      <4> QED BY <4>1, <4>2
    <3>3. budget'.day = day /\ (day = budget.day => used = budget.used + 1)
      BY <1>10, <2>3, <3>2, QuotaTakesOne
    <3>4. ASSUME NEW d \in Nat
          PROVE  /\ Cardinality(LetThrough(d)') <= BudgetLimit
                 /\ d = budget'.day => Cardinality(LetThrough(d)') <= budget'.used
                 /\ d > budget'.day => LetThrough(d)' = {}
      <4>1. PICK before \in SUBSET Turns, after \in SUBSET Turns :
              before = LetThrough(d) /\ after = LetThrough(d)'
        BY DEF LetThrough
      <4>2. PICK m, k \in Nat : m = Cardinality(after) /\ k = Cardinality(before)
        BY TurnsFinite
      <4>4. k <= BudgetLimit /\ (d = budget.day => k <= budget.used) /\ (d > budget.day => before = {})
        <5>1. /\ Cardinality(LetThrough(d)) <= BudgetLimit
              /\ d = budget.day => Cardinality(LetThrough(d)) <= budget.used
              /\ d > budget.day => LetThrough(d) = {}
          BY <3>1 DEF BudgetInv
        <5> QED BY <4>1, <4>2, <5>1
      <4>5. CASE d = day
        <5>1. after \in SUBSET (before \cup {r}) /\ before \cup {r} \in SUBSET Turns
          BY <1>7, <4>1 DEF LetThrough
        <5>2. m <= Cardinality(before \cup {r})
          BY <4>2, <5>1, FewerTurns
        <5>3. Cardinality(before \cup {r}) <= k + 1 /\ Cardinality(before \cup {r}) \in Nat
          BY <4>2, <5>1, OneMoreTurn, TurnsFinite
        <5>4. m <= k + 1
          BY <5>2, <5>3
        <5>5. m <= used
          <6>1. CASE d = budget.day
            BY <1>10, <3>3, <4>4, <4>5, <5>4, <6>1
          <6>2. CASE d > budget.day
            <7>1. k = 0
              BY <4>2, <4>4, <6>2, FS_EmptySet
            <7> QED BY <3>2, <5>4, <7>1
          <6> QED BY <1>10, <3>1, <4>5, <6>1, <6>2
        <5> QED BY <1>10, <3>2, <3>3, <4>1, <4>2, <4>5, <5>5
      <4>6. CASE d # day
        <5>1. after \in SUBSET before
          BY <1>3, <1>7, <1>9, <4>1, <4>6 DEF LetThrough
        <5>2. m <= k
          BY <4>2, <5>1, FewerTurns
        <5>3. d > day => after = {}
          BY <1>10, <3>1, <4>4, <5>1
        <5> QED BY <1>10, <3>3, <4>1, <4>2, <4>4, <4>6, <5>2, <5>3
      <4> QED BY <4>5, <4>6
    <3> QED BY <1>11, <3>4 DEF BudgetInv
  <2> QED BY <1>1, <1>9, <2>1, <2>2, <2>3
<1>14. ASSUME NEW u \in Tenants \ overlapped' PROVE TenantSound(u)'
  <2>1. TenantSound(u) /\ u \in Tenants
    BY <1>8
  <2>2. turn'[r].of = turn[r].of /\ turn'[r].own = turn[r].own /\ turn'[r].day = turn[r].day
    BY <1>3, <1>7
  <2>3. /\ turn'[r].step \in Running => turn[r].step \in Running
        /\ turn'[r].step # "calling" /\ turn'[r].step # "answered" /\ turn[r].step # "answered"
    BY <1>1, <1>2, <1>3, <1>7 DEF Running
  <2>5. turn'[r].own.used > 0 => turn[r].own.used > 0
    BY <2>2
  <2> QED BY <1>7, <1>8, <1>12, <2>1, <2>2, <2>3, <2>5, TenantUnmoved
<1> QED BY <1>7, <1>12, <1>13, <1>14

LEMMA TurnAnsweredKeeps ==
  ASSUME AgentInv, now' = now, NEW r \in Turns, Answer(r)
  PROVE  AgentInv'
<1> USE DEF AgentInv
<1>1. turn[r].step = "calling" /\ GoesTo(r, "answered") /\ "answered" \in TurnSteps
  BY DEF Answer, TurnSteps
<1>2. PICK line \in TurnRows :
        /\ turn' = [turn EXCEPT ![r] = line] /\ line.step = "answered"
        /\ line.of = turn[r].of /\ line.day = turn[r].day /\ line.own = turn[r].own
        /\ line.heard = turn[r].heard /\ line.paid = turn[r].paid
  BY <1>1, StepTaken
<1>3. TurnSound(turn[r])
  BY DEF TurnsInv
<1>4. turn[r].own.used > 0 /\ turn[r].day <= now
  BY <1>1, <1>3 DEF TurnSound, Running
<1>5. TurnSound(line) /\ line.step # "new" /\ turn[r].step # "new"
  BY <1>1, <1>2, <1>4 DEF TurnSound
<1>6. /\ turn' \in [Turns -> TurnRows] /\ TurnsInv'
      /\ turn'[r] = line /\ \A s \in Turns : s # r => turn'[s] = turn[s]
  BY <1>2, <1>5, TurnWritten
<1>7. budget' = budget /\ overlapped' = overlapped /\ disordered' = disordered
  BY DEF Answer
<1>8. PICK t \in Tenants, own \in AgentCounts, heard \in Seq(Turns) :
        t = turn[r].of /\ own = turn[r].own /\ heard = turn[r].heard
  BY DEF AgentTyped, TurnRows
<1>9. PICK said \in Seq(Turns) : said = LastTurns(Append(heard, r))
  <2>1. Append(heard, r) \in Seq(Turns) /\ Append(heard, r) # <<>>
    BY AppendProperties
  <2>2. Tail(Append(heard, r)) \in Seq(Turns)
    BY <2>1, HeadTailProperties
  <2> QED BY <2>1, <2>2 DEF LastTurns
<1>10. quota' = [quota EXCEPT ![t] = own] /\ talk' = [talk EXCEPT ![t] = said]
  BY <1>8, <1>9 DEF Answer
<1>11. /\ quota' \in [Tenants -> AgentCounts] /\ talk' \in [Tenants -> Seq(Turns)]
       /\ quota'[t] = own /\ talk'[t] = said
       /\ \A u \in Tenants : u # t => quota'[u] = quota[u] /\ talk'[u] = talk[u]
  BY <1>10 DEF AgentTyped
<1>12. AgentTyped'
  BY <1>6, <1>7, <1>11 DEF AgentTyped
<1>13. BudgetInv'
  <2>1. ASSUME NEW s \in Turns, turn'[s].paid \/ turn'[s].step = "allowed"
        PROVE  turn[s].day = turn'[s].day /\ (turn[s].paid \/ turn[s].step = "allowed")
    BY <1>2, <1>6, <2>1
  <2> QED BY <1>7, <1>12, <2>1, BudgetStands
<1>14. ASSUME NEW u \in Tenants \ overlapped', u # t PROVE TenantSound(u)'
  <2>1. TenantSound(u) /\ u \in Tenants
    BY <1>7
  <2>2. turn'[r].of # u /\ turn[r].of # u
    BY <1>2, <1>6, <1>8, <1>14
  <2> QED BY <1>6, <1>11, <1>12, <1>14, <2>1, <2>2, TenantUnmoved
<1>15. ASSUME t \notin overlapped' PROVE TenantSound(t)'
  <2>1. TenantSound(t)
    BY <1>7, <1>15
  <2>2. r \in RunningOf(t)
    BY <1>1, <1>8 DEF RunningOf, Running
  <2>3. /\ \A s \in RunningOf(t) : s = r
        /\ quota[t] = own /\ heard = talk[t] /\ \A s \in AnsweredFor(t) : s < r
    BY <1>1, <1>8, <2>1, <2>2 DEF TenantSound, RunsAlone
  <2>4. RunningOf(t)' = {}
    <3>1. ASSUME NEW s \in RunningOf(t)' PROVE FALSE
      <4>1. s \in Turns /\ turn'[s].of = t /\ turn'[s].step \in Running
        BY <3>1 DEF RunningOf
      <4>2. s # r
        BY <1>2, <1>6, <4>1 DEF Running
      <4>3. s \in RunningOf(t)
        BY <1>6, <4>1, <4>2 DEF RunningOf
      <4> QED BY <2>3, <4>2, <4>3
    <3> QED BY <3>1
  <2>5. RunsAlone(t)'
    BY <2>4 DEF RunsAlone
  <2>6. AnsweredFor(t)' = AnsweredFor(t) \cup {r} /\ AnsweredFor(t) \in SUBSET Turns /\ r \notin AnsweredFor(t)
    BY <1>1, <1>2, <1>6, <1>8 DEF AnsweredFor
  <2>7. Latest(heard, AnsweredFor(t))
    BY <2>1, <2>3 DEF TenantSound
  <2>8. Latest(said, AnsweredFor(t) \cup {r})
    BY <1>9, <2>3, <2>6, <2>7, OneMoreAnswer
  <2>9. Latest(talk[t], AnsweredFor(t))'
    BY <1>11, <2>6, <2>8 DEF Latest
  <2>10. WithinQuota(t)'
    <3>1. \A d \in Nat : Counted(t, d)' = Counted(t, d)
      BY <1>2, <1>6 DEF Counted
    <3>2. quota'[t] = quota[t]
      BY <1>11, <2>3
    <3> QED BY <2>1, <3>1, <3>2 DEF TenantSound, WithinQuota
  <2> QED BY <2>5, <2>9, <2>10 DEF TenantSound
<1>16. \A u \in Tenants \ overlapped' : TenantSound(u)'
  BY <1>14, <1>15
<1> QED BY <1>6, <1>12, <1>13, <1>16

LEMMA AskKeeps ==
  ASSUME AgentInv, now' = now, NEW r \in Turns, NEW t \in Tenants, Ask(r, t)
  PROVE  AgentInv'
<1> USE DEF AgentInv
<1>1. PICK old \in TurnRows : old = turn[r] /\ old.step = "new"
  BY DEF AgentTyped, Ask, Comes
<1>2. PICK count \in AgentCounts : count = quota[t] /\ UsedOn(count, now) < TurnLimit
  BY DEF AgentTyped, Ask
<1>3. now \in Nat /\ TurnLimit \in Nat /\ count.used \in Nat /\ count.day \in Nat
  BY <1>2, AgentAssumption DEF AgentTyped, AgentCounts
<1>4. PICK own \in AgentCounts : own = CountedOn(count, now)
  BY <1>3, QuotaTakesOne
<1>5. own.used \in Nat /\ own.used > 0 /\ own.day = now /\ own.used <= TurnLimit
  BY <1>2, <1>3, <1>4, QuotaTakesOne DEF AgentCounts
<1>6. now = count.day => own.used = count.used + 1
  BY <1>3, <1>4, QuotaTakesOne
<1>7. PICK line \in TurnRows : line = [old EXCEPT !.step = "asked", !.of = t, !.day = now, !.own = own]
  BY <1>3 DEF TurnRows, TurnSteps, Running
<1>8. /\ line.step = "asked" /\ line.of = t /\ line.day = now /\ line.own = own
      /\ line.paid = old.paid
  BY <1>7 DEF TurnRows
<1>9. turn' = [turn EXCEPT ![r] = line]
  BY <1>1, <1>2, <1>4, <1>7 DEF Ask
<1>10. TurnSound(old)
  BY <1>1 DEF TurnsInv
<1>11. ~old.paid /\ old.own.used = 0
  BY <1>1, <1>10 DEF TurnSound
<1>12. TurnSound(line)
  BY <1>3, <1>5, <1>8, <1>11 DEF TurnSound
<1>13. Comes(r) /\ line.step # "new"
  BY <1>8 DEF Ask
<1>14. /\ turn' \in [Turns -> TurnRows] /\ TurnsInv'
       /\ turn'[r] = line /\ \A s \in Turns : s # r => turn'[s] = turn[s]
  BY <1>9, <1>12, <1>13, TurnWritten
<1>15. /\ talk' = talk /\ budget' = budget /\ disordered' = disordered
       /\ overlapped' = IF RunningOf(t) # {} THEN overlapped \cup {t} ELSE overlapped
  BY DEF Ask
<1>16. /\ quota' \in [Tenants -> AgentCounts] /\ quota'[t] = own
       /\ \A u \in Tenants : u # t => quota'[u] = quota[u]
  BY <1>2, <1>4 DEF Ask, AgentTyped
<1>17. AgentTyped'
  BY <1>14, <1>15, <1>16 DEF AgentTyped
<1>18. BudgetInv'
  <2>1. ASSUME NEW s \in Turns, turn'[s].paid \/ turn'[s].step = "allowed"
        PROVE  turn[s].day = turn'[s].day /\ (turn[s].paid \/ turn[s].step = "allowed")
    BY <1>8, <1>11, <1>14, <2>1
  <2> QED BY <1>15, <1>17, <2>1, BudgetStands
<1>19. ASSUME NEW u \in Tenants \ overlapped', u # t PROVE TenantSound(u)'
  <2>1. TenantSound(u) /\ u \in Tenants
    BY <1>15
  <2>2. turn'[r].of # u /\ turn[r].step # "answered"
    BY <1>1, <1>8, <1>14, <1>19
  <2> QED BY <1>14, <1>15, <1>16, <1>17, <1>19, <2>1, <2>2, TenantUnmoved
<1>20. ASSUME t \notin overlapped' PROVE TenantSound(t)'
  <2>1. TenantSound(t) /\ RunningOf(t) = {}
    BY <1>15, <1>20
  <2>2. AnsweredFor(t)' = AnsweredFor(t)
    BY <1>1, <1>8, <1>14 DEF AnsweredFor
  <2>3. ASSUME NEW s \in AnsweredFor(t) PROVE s < r
    <3>1. s \in Turns /\ turn[s].step = "answered" /\ turn[r].step = "new"
      BY <1>1 DEF AnsweredFor
    <3>2. ~(r < s) /\ s # r
      BY <3>1 DEF TurnsInv
    <3> QED BY <3>1, <3>2, TurnsFinite
  <2>4. RunningOf(t)' \subseteq {r}
    <3>1. ASSUME NEW s \in RunningOf(t)', s # r PROVE FALSE
      <4>1. s \in Turns /\ turn'[s].of = t /\ turn'[s].step \in Running
        BY DEF RunningOf
      <4>2. s \in RunningOf(t)
        BY <1>14, <3>1, <4>1 DEF RunningOf
      <4> QED BY <2>1, <4>2
    <3> QED BY <3>1
  <2>5. RunsAlone(t)'
    <3>1. \A p, s \in RunningOf(t)' : p = s
      BY <2>4
    <3>2. ASSUME NEW p \in RunningOf(t)'
          PROVE  /\ quota'[t] = turn'[p].own /\ turn'[p].step # "calling"
                 /\ \A s \in AnsweredFor(t)' : s < p
      BY <1>8, <1>14, <1>16, <2>2, <2>3, <2>4
    <3> QED BY <3>1, <3>2 DEF RunsAlone
  <2>6. Latest(talk[t], AnsweredFor(t))'
    BY <1>15, <2>1, <2>2 DEF TenantSound, Latest
  <2>7. ASSUME NEW d \in Nat
        PROVE  /\ Cardinality(Counted(t, d)') <= TurnLimit
               /\ d = own.day => Cardinality(Counted(t, d)') <= own.used
               /\ d > own.day => Counted(t, d)' = {}
    <3>1. PICK before \in SUBSET Turns, after \in SUBSET Turns :
            before = Counted(t, d) /\ after = Counted(t, d)'
      BY DEF Counted
    <3>2. PICK m, k \in Nat : m = Cardinality(after) /\ k = Cardinality(before)
      BY TurnsFinite
    <3>3. k <= TurnLimit /\ (d = count.day => k <= count.used) /\ (d > count.day => before = {})
      <4>1. /\ Cardinality(Counted(t, d)) <= TurnLimit
            /\ d = quota[t].day => Cardinality(Counted(t, d)) <= quota[t].used
            /\ d > quota[t].day => Counted(t, d) = {}
        BY <2>1 DEF TenantSound, WithinQuota
      <4> QED BY <1>2, <3>1, <3>2, <4>1
    <3>4. count.day <= now
      BY <1>2, <2>1 DEF TenantSound, WithinQuota
    <3>5. CASE d = now
      <4>1. after \in SUBSET (before \cup {r}) /\ before \cup {r} \in SUBSET Turns
        BY <1>14, <3>1 DEF Counted
      <4>2. m <= Cardinality(before \cup {r})
        BY <3>2, <4>1, FewerTurns
      <4>3. Cardinality(before \cup {r}) <= k + 1 /\ Cardinality(before \cup {r}) \in Nat
        BY <3>2, <4>1, OneMoreTurn, TurnsFinite
      <4>4. m <= k + 1
        BY <4>2, <4>3
      <4>5. m <= own.used
        <5>1. CASE d = count.day
          BY <1>3, <1>6, <3>3, <3>5, <4>4, <5>1
        <5>2. CASE d > count.day
          <6>1. k = 0
            BY <3>2, <3>3, <5>2, FS_EmptySet
          <6> QED BY <1>5, <4>4, <6>1
        <5> QED BY <1>3, <3>4, <3>5, <5>1, <5>2
      <4> QED BY <1>3, <1>5, <3>1, <3>2, <3>5, <4>5
    <3>6. CASE d # now
      <4>1. after \in SUBSET before
        BY <1>8, <1>14, <3>1, <3>6 DEF Counted
      <4>2. m <= k
        BY <3>2, <4>1, FewerTurns
      <4>3. d > now => after = {}
        BY <1>3, <3>3, <3>4, <4>1
      <4> QED BY <1>3, <1>5, <3>1, <3>2, <3>3, <3>6, <4>2, <4>3
    <3> QED BY <3>5, <3>6
  <2>8. WithinQuota(t)'
    BY <1>3, <1>5, <1>16, <2>7 DEF WithinQuota
  <2> QED BY <2>5, <2>6, <2>8 DEF TenantSound
<1>21. \A u \in Tenants \ overlapped' : TenantSound(u)'
  BY <1>19, <1>20
<1> QED BY <1>14, <1>17, <1>18, <1>21

LEMMA EvictKeeps ==
  ASSUME AgentInv, now' = now, NEW t \in Tenants, Evict(t)
  PROVE  AgentInv'
<1> USE DEF AgentInv
<1>1. /\ quota' = quota /\ talk' = talk /\ budget' = budget
      /\ overlapped' = overlapped /\ disordered' = disordered
  BY DEF Evict
<1>2. ASSUME NEW s \in Turns
      PROVE  /\ turn'[s] \in TurnRows /\ TurnSound(turn[s])'
             /\ turn'[s].of = turn[s].of /\ turn'[s].day = turn[s].day /\ turn'[s].own = turn[s].own
             /\ turn'[s].heard = turn[s].heard /\ turn'[s].paid = turn[s].paid
             /\ \/ turn'[s].step = turn[s].step
                \/ turn[s].step \in Running /\ turn'[s].step \in {"lost", "dead"}
  <2>1. PICK old \in TurnRows : old = turn[s]
    BY DEF AgentTyped
  <2>2. TurnSound(old)
    BY <2>1 DEF TurnsInv
  <2>3. CASE s \notin RunningOf(t)
    <3>1. turn'[s] = old
      BY <2>1, <2>3 DEF Evict
    <3> QED BY <2>1, <2>2, <3>1 DEF TurnSound
  <2>4. CASE s \in RunningOf(t)
    <3>1. PICK step \in {"lost", "dead"} : step = IF old.step = "asked" THEN "lost" ELSE "dead"
      OBVIOUS
    <3>2. PICK line \in TurnRows : line = [old EXCEPT !.step = step]
      BY <3>1 DEF TurnRows, TurnSteps
    <3>3. turn'[s] = line
      BY <2>1, <2>4, <3>1, <3>2 DEF Evict
    <3>4. /\ line.step = step /\ line.of = old.of /\ line.day = old.day /\ line.own = old.own
          /\ line.heard = old.heard /\ line.paid = old.paid
      BY <3>2 DEF TurnRows
    <3>5. old.step \in Running
      BY <2>1, <2>4 DEF RunningOf
    <3>6. TurnSound(turn[s])'
      BY <2>2, <3>1, <3>3, <3>4, <3>5 DEF TurnSound, Running
    <3> QED BY <2>1, <3>1, <3>3, <3>4, <3>5, <3>6
  <2> QED BY <2>3, <2>4
<1>3. turn' \in [Turns -> TurnRows]
  BY <1>2 DEF Evict
<1>4. AgentTyped'
  BY <1>1, <1>3 DEF AgentTyped
<1>5. TurnsInv'
  <2>1. ASSUME NEW p \in Turns, NEW s \in Turns, turn'[p].step # "new", s < p PROVE turn'[s].step # "new"
    <3>1. turn[p].step # "new"
      BY <1>2, <2>1 DEF Running
    <3>2. turn[s].step # "new"
      BY <2>1, <3>1 DEF TurnsInv
    <3> QED BY <1>2, <3>2
  <2> QED BY <1>2, <2>1 DEF TurnsInv
<1>6. BudgetInv'
  <2>1. ASSUME NEW s \in Turns, turn'[s].paid \/ turn'[s].step = "allowed"
        PROVE  turn[s].day = turn'[s].day /\ (turn[s].paid \/ turn[s].step = "allowed")
    BY <1>2, <2>1
  <2> QED BY <1>1, <1>4, <2>1, BudgetStands
<1>7. ASSUME NEW u \in Tenants \ overlapped' PROVE TenantSound(u)'
  <2>1. TenantSound(u) /\ u \in Tenants
    BY <1>1
  <2>2. ASSUME NEW s \in Turns, turn'[s].of = u, turn'[s].step \in Running
        PROVE  /\ turn[s].of = u /\ turn[s].step \in Running /\ turn'[s].own = turn[s].own
               /\ turn'[s].step = "calling" =>
                    \/ turn'[s].heard = talk[u]
                    \/ turn[s].step = "calling" /\ turn'[s].heard = turn[s].heard
    BY <1>2, <2>2 DEF Running
  <2>3. ASSUME NEW s \in Turns
        PROVE  turn'[s].step = "answered" /\ turn'[s].of = u <=>
               turn[s].step = "answered" /\ turn[s].of = u
    BY <1>2 DEF Running
  <2>4. \A s \in Turns : turn'[s].of = u /\ turn'[s].own.used > 0 =>
          turn[s].of = u /\ turn[s].day = turn'[s].day /\ turn[s].own.used > 0
    BY <1>2
  <2>5. now' >= now
    BY DEF AgentTyped
  <2> QED BY <1>1, <1>4, <2>1, <2>2, <2>3, <2>4, <2>5, TenantStands
<1> QED BY <1>4, <1>5, <1>6, <1>7

LEMMA TickKeepsTurns ==
  ASSUME AgentInv, Tick, UNCHANGED agentVars
  PROVE  AgentInv'
<1> USE DEF AgentInv
<1>1. now \in Nat /\ now' = now + 1
  BY DEF Tick, AgentTyped
<1>2. /\ quota' = quota /\ talk' = talk /\ budget' = budget /\ turn' = turn
      /\ overlapped' = overlapped /\ disordered' = disordered
  BY DEF agentVars
<1>3. AgentTyped' /\ now' >= now
  BY <1>1, <1>2 DEF AgentTyped
<1>4. TurnsInv'
  <2>1. ASSUME NEW s \in Turns PROVE TurnSound(turn[s])'
    <3>1. TurnSound(turn[s])
      BY DEF TurnsInv
    <3>2. turn[s].day \in Nat
      BY DEF AgentTyped, TurnRows
    <3>3. turn[s].day <= now'
      BY <1>1, <3>1, <3>2 DEF TurnSound
    <3> QED BY <1>2, <3>1, <3>3 DEF TurnSound
  <2> QED BY <1>2, <2>1 DEF TurnsInv
<1>5. BudgetInv'
  BY <1>2, <1>3, BudgetStands
<1>6. ASSUME NEW u \in Tenants \ overlapped' PROVE TenantSound(u)'
  <2>1. TenantSound(u) /\ u \in Tenants
    BY <1>2
  <2> QED BY <1>2, <1>3, <2>1, TenantStands
<1> QED BY <1>3, <1>4, <1>5, <1>6

LEMMA AgentStarts ==
  ASSUME AgentInit, now = 0
  PROVE  AgentInv
<1>1. PICK t0 \in Tenants : t0 = CHOOSE t \in Tenants : TRUE
  BY AgentAssumption
<1>2. PICK none \in AgentCounts : none = NoTurns /\ none.day = 0 /\ none.used = 0
  <2>1. NoTurns \in AgentCounts
    BY DEF AgentCounts, NoTurns
  <2>2. NoTurns.day = 0 /\ NoTurns.used = 0
    BY DEF NoTurns
  <2> QED BY <2>1, <2>2
<1>3. PICK line \in TurnRows :
        line = [step |-> "new", of |-> t0, day |-> 0, own |-> none, heard |-> <<>>, paid |-> FALSE]
  <2>1. <<>> \in Seq(Turns) /\ "new" \in TurnSteps /\ 0 \in Nat
    BY DEF TurnSteps
  <2> QED BY <2>1 DEF TurnRows
<1>4. /\ line.step = "new" /\ line.day = 0 /\ line.own = none /\ line.paid = FALSE
  BY <1>3
<1>5. turn = [r \in Turns |-> line]
  BY <1>1, <1>2, <1>3 DEF AgentInit
<1>6. \A r \in Turns : turn[r] = line
  BY <1>5
<1>7. /\ quota = [t \in Tenants |-> none] /\ budget = none /\ talk = [t \in Tenants |-> <<>>]
      /\ overlapped = {} /\ disordered = FALSE
  BY <1>2 DEF AgentInit
<1>8. AgentTyped
  <2>1. <<>> \in Seq(Turns)
    OBVIOUS
  <2> QED BY <1>5, <1>7, <2>1 DEF AgentTyped
<1>9. TurnsInv
  <2>1. TurnSound(line)
    BY <1>2, <1>4 DEF TurnSound, Running
  <2> QED BY <1>4, <1>6, <2>1 DEF TurnsInv
<1>10. BudgetInv
  <2>1. \A d \in Nat : LetThrough(d) = {}
    BY <1>4, <1>6 DEF LetThrough
  <2>2. \A d \in Nat : Cardinality(LetThrough(d)) = 0
    BY <2>1, FS_EmptySet
  <2>3. BudgetLimit \in Nat /\ budget.used = 0
    BY <1>2, <1>7, AgentAssumption
  <2> QED BY <2>1, <2>2, <2>3 DEF BudgetInv
<1>11. ASSUME NEW t \in Tenants PROVE TenantSound(t)
  <2>1. RunningOf(t) = {} /\ AnsweredFor(t) = {}
    BY <1>4, <1>6 DEF RunningOf, AnsweredFor, Running
  <2>2. \A d \in Nat : Counted(t, d) = {}
    BY <1>2, <1>4, <1>6 DEF Counted
  <2>3. Cardinality({}) = 0 /\ TurnLimit \in Nat /\ Remembered \in Nat /\ now = 0
    BY FS_EmptySet, AgentAssumption
  <2>8. \A d \in Nat : Cardinality(Counted(t, d)) = 0
    BY <2>2, FS_EmptySet
  <2>4. quota[t] = none /\ talk[t] = <<>>
    BY <1>7
  <2>5. RunsAlone(t)
    BY <2>1 DEF RunsAlone
  <2>6. WithinQuota(t)
    <3>1. quota[t].day = 0 /\ quota[t].used = 0
      BY <1>2, <2>4
    <3> QED BY <2>2, <2>3, <2>8, <3>1 DEF WithinQuota
  <2>7. Latest(talk[t], AnsweredFor(t))
    BY <2>1, <2>3, <2>4 DEF Latest
  <2> QED BY <2>5, <2>6, <2>7 DEF TenantSound
<1> QED BY <1>7, <1>8, <1>9, <1>10, <1>11 DEF AgentInv

(* Of every run of the builder agents (onRequest, reserve, runBuilderTurn):*)
(* the invariant the bounds on what is spent follow from.                  *)
THEOREM AgentInvariant == AgentSpec => []AgentInv
<1>1. AgentInit /\ now = 0 => AgentInv
  BY AgentStarts
<1>2. ASSUME AgentInv,
             [(AgentNext /\ UNCHANGED now) \/ (Tick /\ UNCHANGED agentVars)]_<<agentVars, now>>
      PROVE  AgentInv'
  <2>1. ASSUME now' = now, NEW r \in Turns, NEW t \in Tenants, TurnAway(r, t) PROVE AgentInv'
    BY <1>2, <2>1, TurnAwayKeeps
  <2>2. ASSUME now' = now, NEW r \in Turns, NEW t \in Tenants, Ask(r, t) PROVE AgentInv'
    BY <1>2, <2>2, AskKeeps
  <2>3. ASSUME now' = now, NEW r \in Turns, ReserveBudget(r) PROVE AgentInv'
    BY <1>2, <2>3, ReserveBudgetKeeps
  <2>4. ASSUME now' = now, NEW r \in Turns, CallModel(r) PROVE AgentInv'
    BY <1>2, <2>4, CallModelKeeps
  <2>5. ASSUME now' = now, NEW r \in Turns, Answer(r) PROVE AgentInv'
    BY <1>2, <2>5, TurnAnsweredKeeps
  <2>6. ASSUME now' = now, NEW r \in Turns, FailTurn(r) PROVE AgentInv'
    BY <1>2, <2>6, FailTurnKeeps
  <2>7. ASSUME now' = now, NEW t \in Tenants, Evict(t) PROVE AgentInv'
    BY <1>2, <2>7, EvictKeeps
  <2>8. ASSUME Tick, UNCHANGED agentVars PROVE AgentInv'
    BY <1>2, <2>8, TickKeepsTurns
  <2>9. ASSUME UNCHANGED <<agentVars, now>> PROVE AgentInv'
    <3>1. /\ quota' = quota /\ talk' = talk /\ budget' = budget /\ turn' = turn
          /\ overlapped' = overlapped /\ disordered' = disordered /\ now' = now
      BY <2>9 DEF agentVars
    <3>2. AgentTyped' /\ now' >= now
      BY <1>2, <3>1 DEF AgentInv, AgentTyped
    <3>3. TurnsInv'
      BY <1>2, <3>1 DEF AgentInv, TurnsInv, TurnSound
    <3>4. BudgetInv'
      BY <1>2, <3>1, <3>2, BudgetStands DEF AgentInv
    <3>5. ASSUME NEW u \in Tenants \ overlapped' PROVE TenantSound(u)'
      <4>1. TenantSound(u) /\ u \in Tenants /\ AgentTyped
        BY <1>2, <3>1 DEF AgentInv
      <4> QED BY <3>1, <3>2, <4>1, TenantStands
    <3> QED BY <3>2, <3>3, <3>4, <3>5 DEF AgentInv
  <2>10. CASE AgentNext /\ UNCHANGED now
    BY <2>1, <2>2, <2>3, <2>4, <2>5, <2>6, <2>7, <2>10 DEF AgentNext
  <2> QED BY <1>2, <2>8, <2>9, <2>10
<1> QED BY <1>1, <1>2, PTL DEF AgentSpec

LEMMA BoundedByCount ==
  ASSUME AgentInv
  PROVE  SpendIsBounded
<1>1. \A r \in Turns : turn[r].paid => turn[r].own.used > 0
  BY DEF AgentInv, TurnsInv, TurnSound
<1>2. ASSUME ~disordered, NEW d \in 0 .. now
      PROVE  Cardinality(UNION {PaidFor(t, d) : t \in Tenants}) <= BudgetLimit
  <2>1. PICK let \in SUBSET Turns, paid \in SUBSET Turns :
          paid \in SUBSET let /\ let = LetThrough(d) /\ paid = UNION {PaidFor(t, d) : t \in Tenants}
    <3>1. LetThrough(d) \in SUBSET Turns
      BY DEF LetThrough
    <3>2. UNION {PaidFor(t, d) : t \in Tenants} \in SUBSET LetThrough(d)
      BY DEF PaidFor, LetThrough
    <3> QED BY <3>1, <3>2
  <2>2. Cardinality(paid) <= Cardinality(let)
    BY <2>1, FewerTurns
  <2>3. Cardinality(let) <= BudgetLimit
    BY <1>2, <2>1 DEF AgentInv, BudgetInv
  <2>4. PICK m, k \in Nat : m = Cardinality(paid) /\ k = Cardinality(let)
    BY TurnsFinite
  <2>5. BudgetLimit \in Nat
    BY AgentAssumption
  <2>6. m <= BudgetLimit
    BY <2>2, <2>3, <2>4, <2>5
  <2> QED BY <2>1, <2>4, <2>6
<1>3. ASSUME NEW t \in Tenants \ overlapped, NEW d \in 0 .. now
      PROVE  Cardinality(PaidFor(t, d)) <= TurnLimit
  <2>1. PICK counted \in SUBSET Turns, paid \in SUBSET Turns :
          paid \in SUBSET counted /\ counted = Counted(t, d) /\ paid = PaidFor(t, d)
    <3>1. Counted(t, d) \in SUBSET Turns
      BY DEF Counted
    <3>2. PaidFor(t, d) \in SUBSET Counted(t, d)
      BY <1>1 DEF PaidFor, Counted
    <3> QED BY <3>1, <3>2
  <2>2. Cardinality(paid) <= Cardinality(counted)
    BY <2>1, FewerTurns
  <2>3. Cardinality(counted) <= TurnLimit
    BY <2>1 DEF AgentInv, TenantSound, WithinQuota
  <2>4. PICK m, k \in Nat : m = Cardinality(paid) /\ k = Cardinality(counted)
    BY TurnsFinite
  <2>5. TurnLimit \in Nat
    BY AgentAssumption
  <2>6. m <= TurnLimit
    BY <2>2, <2>3, <2>4, <2>5
  <2> QED BY <2>1, <2>4, <2>6
<1>4. \A t \in Tenants \ overlapped : Latest(talk[t], AnsweredFor(t))
  BY DEF AgentInv, TenantSound
<1> QED BY <1>2, <1>3, <1>4 DEF SpendIsBounded

(* No failed call, eviction or overlap spends more than a day allows.      *)
THEOREM SpendStaysBounded == AgentSpec => []SpendIsBounded
<1>1. AgentInv => SpendIsBounded
  BY BoundedByCount
<1> QED BY <1>1, AgentInvariant, PTL

(* The builder agents and a tab of the sandbox side by side: what the site *)
(* spends and what it shows (workers/site, src/api.ts, SandboxPage.tsx).   *)
THEOREM SiteStaysHonest == AgentSpec /\ ClientSpec => []SiteHonest
<1>1. SpendIsBounded /\ ClientHonest => SiteHonest
  BY DEF SiteHonest
<1> QED BY <1>1, SpendStaysBounded, ClientIsHonest, PTL

=============================================================================
