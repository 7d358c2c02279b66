----------------------- MODULE AttendanceRegisterProofs -----------------------
(***************************************************************************)
(* Theorems about AttendanceRegister, for every set of students and of     *)
(* pages, every set of marks and every number of submissions.  The         *)
(* inductive invariant adds to TypeOK what a page has read and saved, and  *)
(* that the two properties of the history hold.                            *)
(***************************************************************************)
EXTENDS AttendanceRegister, SequenceTheorems, TLAPS

(* A page never knows of a version that is not there; what it has taken to   *)
(* the risk recalculation the monitor has seen; what it was told, both have. *)
PagesInOrder ==
  \A p \in Pages :
    /\ page[p].basis <= register.version
    /\ page[p].saved <= register.version
    /\ page[p].stage = "risk" => page[p].saved <= monitored
    /\ page[p].told <= monitored /\ page[p].told <= recalculated

Register ==
  /\ TypeOK /\ PagesInOrder
  /\ SubmissionsRestOnLatest /\ HistoryExplainsRegister

LEMMA EmptyList == NoExceptions \in ExceptionLists /\ DOMAIN NoExceptions = {}
  BY DEF NoExceptions, ExceptionLists

LEMMA ListStatus ==
  ASSUME NEW list \in ExceptionLists, NEW s
  PROVE  /\ DOMAIN list \in SUBSET Students
         /\ StatusIn(list, s) \in Statuses
         /\ s \notin DOMAIN list => StatusIn(list, s) = Present
  BY DEF ExceptionLists, StatusIn, Statuses

(* The changes a list makes, student by student. *)
LEMMA ChangesOfList ==
  ASSUME TypeOK, NEW list \in ExceptionLists
  PROVE  /\ DOMAIN Changes(list) \subseteq register.roster
         /\ \A s \in register.roster :
              s \in DOMAIN Changes(list)
                <=> StatusIn(register.exceptions, s) # StatusIn(list, s)
         /\ \A s \in DOMAIN Changes(list) :
              /\ Changes(list)[s].from = StatusIn(register.exceptions, s)
              /\ Changes(list)[s].to = StatusIn(list, s)
         /\ Changes(list) \in UNION {[S -> [from : Statuses, to : Statuses]] : S \in SUBSET Students}
<1> DEFINE D == {s \in register.roster : StatusIn(register.exceptions, s) # StatusIn(list, s)}
<1>1. D \in SUBSET Students /\ register.exceptions \in ExceptionLists
  BY DEF TypeOK
<1>2. \A s \in D : StatusIn(register.exceptions, s) \in Statuses /\ StatusIn(list, s) \in Statuses
  BY <1>1, ListStatus
<1>3. Changes(list) = [s \in D |-> [from |-> StatusIn(register.exceptions, s),
                                    to |-> StatusIn(list, s)]]
  BY DEF Changes
<1> HIDE DEF D
<1>4. Changes(list) \in [D -> [from : Statuses, to : Statuses]]
  BY <1>2, <1>3
<1>5. DOMAIN Changes(list) = D
  BY <1>3
<1>6. \A s \in D : /\ Changes(list)[s].from = StatusIn(register.exceptions, s)
                   /\ Changes(list)[s].to = StatusIn(list, s)
  BY <1>3
<1>7. Changes(list) \in UNION {[S -> [from : Statuses, to : Statuses]] : S \in SUBSET Students}
  BY <1>1, <1>4
<1> QED
  BY <1>5, <1>6, <1>7 DEF D

-----------------------------------------------------------------------------
LEMMA InitRegister == Init => Register
<1> SUFFICES ASSUME Init PROVE Register
  OBVIOUS
<1>1. history = <<>> /\ Len(history) = 0 /\ history \in Seq(Entries) /\ DOMAIN history = {}
  BY DEF Init
<1>2. TypeOK
  BY <1>1, EmptyList, RegisterAssumption DEF Init, TypeOK, Versions, Stages, PageRows
<1>3. PagesInOrder
  BY DEF Init, PagesInOrder
<1>4. SubmissionsRestOnLatest
  BY <1>1 DEF SubmissionsRestOnLatest
<1>5. \A s \in Students : StatusIn(register.exceptions, s) = Present
  BY EmptyList DEF Init, StatusIn
<1>6. HistoryExplainsRegister
  BY <1>1, <1>5 DEF HistoryExplainsRegister, Says
<1> QED
  BY <1>2, <1>3, <1>4, <1>6 DEF Register

-----------------------------------------------------------------------------
(* What the ways to move a page do to its row; the others stay. *)
Moved(p, row) ==
  /\ page' \in [Pages -> PageRows]
  /\ page'[p] = row
  /\ \A q \in Pages \ {p} : page'[q] = page[q]

LEMMA MovedPage ==
  ASSUME page \in [Pages -> PageRows], NEW p \in Pages, NEW row \in PageRows,
         page' = [page EXCEPT ![p] = row]
  PROVE  Moved(p, row)
  BY DEF Moved

LEMMA ShownPage ==
  ASSUME TypeOK, NEW p \in Pages, NEW v \in Versions, NEW t \in Versions, Shows(p, v, t)
  PROVE  Moved(p, [stage |-> "open", basis |-> v, saved |-> 0, told |-> t,
                   request |-> NoExceptions, reason |-> FALSE])
<1>1. [stage |-> "open", basis |-> v, saved |-> 0, told |-> t,
       request |-> NoExceptions, reason |-> FALSE] \in PageRows
  BY EmptyList, RegisterAssumption DEF PageRows, Stages, Versions
<1> QED
  BY <1>1, MovedPage DEF Shows, TypeOK

LEMMA StagedPage ==
  ASSUME TypeOK, NEW p \in Pages, NEW next \in Stages, Stage(p, next)
  PROVE  Moved(p, [page[p] EXCEPT !.stage = next])
<1>1. page \in [Pages -> PageRows] /\ page[p] \in PageRows
  BY DEF TypeOK
<1>2. [page[p] EXCEPT !.stage = next] \in PageRows
  BY <1>1 DEF PageRows
<1>3. page' = [page EXCEPT ![p] = [page[p] EXCEPT !.stage = next]]
  BY <1>1 DEF Stage
<1> QED
  BY <1>1, <1>2, <1>3, MovedPage

LEMMA UnansweredPage ==
  ASSUME TypeOK, NEW p \in Pages, Unanswered(p)
  PROVE  Moved(p, [page[p] EXCEPT !.stage = "failed", !.saved = 0])
<1>1. page \in [Pages -> PageRows] /\ page[p] \in PageRows
  BY DEF TypeOK
<1>2. "failed" \in Stages /\ 0 \in Versions
  BY RegisterAssumption DEF Versions, Stages
<1>3. [page[p] EXCEPT !.stage = "failed", !.saved = 0] \in PageRows
  BY <1>1, <1>2 DEF PageRows
<1>4. page' = [page EXCEPT ![p] = [page[p] EXCEPT !.stage = "failed", !.saved = 0]]
  BY <1>1 DEF Unanswered
<1> QED
  BY <1>1, <1>3, <1>4, MovedPage

LEMMA CommittedPage ==
  ASSUME TypeOK, NEW p \in Pages, NEW v \in Versions, Committed(p, v)
  PROVE  Moved(p, [page[p] EXCEPT !.stage = "monitor", !.saved = v])
<1>1. page \in [Pages -> PageRows] /\ page[p] \in PageRows /\ "monitor" \in Stages
  BY DEF TypeOK, Stages
<1>2. [page[p] EXCEPT !.stage = "monitor", !.saved = v] \in PageRows
  BY <1>1 DEF PageRows
<1>3. page' = [page EXCEPT ![p] = [page[p] EXCEPT !.stage = "monitor", !.saved = v]]
  BY <1>1 DEF Committed
<1> QED
  BY <1>1, <1>2, <1>3, MovedPage

LEMMA SentPage ==
  ASSUME TypeOK, NEW p \in Pages, NEW list \in ExceptionLists, NEW reason \in BOOLEAN,
         page' = [page EXCEPT ![p].stage = "sent", ![p].request = list, ![p].reason = reason]
  PROVE  Moved(p, [page[p] EXCEPT !.stage = "sent", !.request = list, !.reason = reason])
<1>1. page \in [Pages -> PageRows] /\ page[p] \in PageRows /\ "sent" \in Stages
  BY DEF TypeOK, Stages
<1>2. [page[p] EXCEPT !.stage = "sent", !.request = list, !.reason = reason] \in PageRows
  BY <1>1 DEF PageRows
<1>3. page' = [page EXCEPT ![p] =
                 [page[p] EXCEPT !.stage = "sent", !.request = list, !.reason = reason]]
  BY <1>1
<1> QED
  BY <1>1, <1>2, <1>3, MovedPage

LEMMA VersionsInOrder ==
  ASSUME TypeOK
  PROVE  /\ register.version \in Nat /\ MaxVersion \in Nat /\ register.version \in Versions
         /\ monitored \in Nat /\ recalculated \in Nat
         /\ \A p \in Pages : /\ page[p].basis \in Versions /\ page[p].saved \in Versions
                             /\ page[p].told \in Versions
                             /\ page[p].request \in ExceptionLists
  BY RegisterAssumption DEF TypeOK, Versions, PageRows

-----------------------------------------------------------------------------
(* The type invariant, action by action. *)
LEMMA TypeStep == TypeOK /\ [Next]_vars => TypeOK'
<1> SUFFICES ASSUME TypeOK, [Next]_vars PROVE TypeOK'
  OBVIOUS
<1> USE VersionsInOrder
<1>1. ASSUME NEW s \in Students, Transfer(s) PROVE TypeOK'
  BY <1>1 DEF Transfer, TypeOK
<1>2. ASSUME NEW p \in Pages, Start(p) PROVE TypeOK'
  <2>1. Shows(p, 0, page[p].told) /\ 0 \in Versions
    BY <1>2, RegisterAssumption DEF Start, Versions
  <2>2. page' \in [Pages -> PageRows]
    BY <2>1, ShownPage DEF Moved
  <2>3. /\ register' = [register EXCEPT !.status = "OPEN", !.roster = enrolled]
        /\ register.version = 0 /\ DOMAIN register.exceptions \subseteq enrolled
        /\ UNCHANGED <<enrolled, history, monitored, recalculated>>
    BY <1>2 DEF Start, TypeOK
  <2> QED
    BY <2>2, <2>3 DEF TypeOK
<1>3. ASSUME NEW p \in Pages, Read(p) PROVE TypeOK'
  BY <1>3, ShownPage DEF Read, TypeOK, Moved
<1>4. ASSUME NEW p \in Pages, Send(p) PROVE TypeOK'
  BY <1>4, SentPage DEF Send, TypeOK, Moved
<1>5. ASSUME NEW p \in Pages, SendAgain(p) PROVE TypeOK'
  BY <1>5, StagedPage DEF SendAgain, TypeOK, Moved, Stages
<1>6. ASSUME NEW p \in Pages, Accept(p) PROVE TypeOK'
  <2> DEFINE list == page[p].request
             entry == [number |-> register.version + 1, basis |-> page[p].basis,
                       changes |-> Changes(list)]
  <2>1. register.version + 1 \in Versions
    BY <1>6 DEF Accept, Versions
  <2>2. page' \in [Pages -> PageRows]
    BY <1>6, <2>1, CommittedPage DEF Accept, Moved
  <2>3. entry \in Entries
    BY ChangesOfList DEF Entries
  <2>4. history' = Append(history, entry)
    BY <1>6 DEF Accept
  <2> HIDE DEF entry
  <2>5. history' \in Seq(Entries) /\ Len(history') = register.version + 1
    BY <2>3, <2>4, AppendProperties DEF TypeOK
  <2>6. /\ register' = [register EXCEPT !.status = "SUBMITTED", !.version = @ + 1,
                                        !.exceptions = list]
        /\ DOMAIN list \subseteq register.roster
    BY <1>6 DEF Accept, OnRoster
  <2>7. /\ register' \in [status : {"NONE", "OPEN", "SUBMITTED"}, version : Versions,
                           roster : SUBSET Students, exceptions : ExceptionLists]
        /\ register'.version = register.version + 1 /\ register'.status = "SUBMITTED"
        /\ DOMAIN register'.exceptions \subseteq register'.roster
    BY <2>1, <2>6 DEF TypeOK
  <2>8. UNCHANGED <<enrolled, monitored, recalculated>>
    BY <1>6 DEF Accept
  <2> QED
    BY <2>2, <2>5, <2>7, <2>8 DEF TypeOK
<1>7. ASSUME NEW p \in Pages, AcceptUnchanged(p) PROVE TypeOK'
  BY <1>7, CommittedPage DEF AcceptUnchanged, TypeOK, Moved
<1>8. ASSUME NEW p \in Pages, Refuse(p) PROVE TypeOK'
  BY <1>8, ShownPage DEF Refuse, TypeOK, Moved
<1>9. ASSUME NEW p \in Pages, Monitor(p) PROVE TypeOK'
  <2>1. page' \in [Pages -> PageRows]
    BY <1>9, StagedPage DEF Monitor, Moved, Stages
  <2>2. monitored' \in 0..register.version
    BY <1>9 DEF Monitor
  <2> QED
    BY <1>9, <2>1, <2>2 DEF Monitor, TypeOK
<1>10. ASSUME NEW p \in Pages, Recalculate(p) PROVE TypeOK'
  <2>1. page' \in [Pages -> PageRows]
    BY <1>10, ShownPage, UnansweredPage DEF Recalculate, Moved
  <2> QED
    BY <1>10, <2>1 DEF Recalculate, TypeOK
<1>11. ASSUME NEW p \in Pages, Fail(p) PROVE TypeOK'
  BY <1>11, UnansweredPage DEF Fail, TypeOK, Moved
<1>12. CASE UNCHANGED vars
  BY <1>12 DEF vars, TypeOK
<1> QED
  BY <1>1, <1>2, <1>3, <1>4, <1>5, <1>6, <1>7, <1>8, <1>9, <1>10, <1>11, <1>12 DEF Next

-----------------------------------------------------------------------------
(* What pages know, what is followed up. *)
LEMMA PagesStep == TypeOK /\ PagesInOrder /\ [Next]_vars => PagesInOrder'
<1> SUFFICES ASSUME TypeOK, PagesInOrder, [Next]_vars PROVE PagesInOrder'
  OBVIOUS
<1> DEFINE Fits(row, v, m, c) ==
             /\ row.basis <= v /\ row.saved <= v
             /\ row.stage = "risk" => row.saved <= m
             /\ row.told <= m /\ row.told <= c
<1>a. \A p \in Pages : Fits(page[p], register.version, monitored, recalculated)
  BY DEF PagesInOrder
<1>b. /\ register.version \in Nat /\ monitored \in 0..register.version
      /\ recalculated \in 0..register.version
      /\ \A p \in Pages : page[p] \in PageRows
  BY VersionsInOrder DEF TypeOK
<1>c. (\A p \in Pages : Fits(page'[p], register'.version, monitored', recalculated'))
        => PagesInOrder'
  BY DEF PagesInOrder
<1>d. ASSUME NEW p \in Pages, NEW row, Moved(p, row),
             Fits(row, register'.version, monitored', recalculated'),
             register'.version >= register.version, register'.version \in Nat,
             monitored' \in Nat, recalculated' \in Nat,
             monitored' >= monitored, recalculated' >= recalculated
      PROVE  PagesInOrder'
  <2>1. ASSUME NEW q \in Pages, q # p
        PROVE  Fits(page'[q], register'.version, monitored', recalculated')
    <3>1. page'[q] = page[q] /\ page[q] \in PageRows
      BY <1>b, <1>d, <2>1 DEF Moved
    <3>2. page[q].basis \in Nat /\ page[q].saved \in Nat /\ page[q].told \in Nat
      BY <3>1 DEF PageRows, Versions
    <3> QED
      BY <1>a, <1>b, <1>d, <3>1, <3>2
  <2>2. Fits(page'[p], register'.version, monitored', recalculated')
    BY <1>d DEF Moved
  <2> QED
    BY <1>c, <2>1, <2>2
<1>e. /\ register.version \in Versions /\ 0 \in Versions
      /\ \A p \in Pages : /\ page[p].basis \in Versions /\ page[p].saved \in Versions
                          /\ page[p].told \in Versions /\ page[p].request \in ExceptionLists
  BY VersionsInOrder, RegisterAssumption DEF Versions
<1>f. ASSUME NEW p \in Pages, NEW v \in Versions, NEW told \in Versions, Shows(p, v, told),
             register'.version = register.version, monitored' = monitored,
             recalculated' \in Nat, recalculated' >= recalculated,
             v <= register.version, told <= monitored, told <= recalculated'
      PROVE  PagesInOrder'
  <2> DEFINE row == [stage |-> "open", basis |-> v, saved |-> 0, told |-> told,
                     request |-> NoExceptions, reason |-> FALSE]
  <2>1. Moved(p, row)
    BY <1>f, ShownPage
  <2>2. Fits(row, register'.version, monitored', recalculated')
    BY <1>b, <1>f
  <2> HIDE DEF row
  <2> QED
    BY <1>b, <1>d, <1>f, <2>1, <2>2
<1>1. ASSUME NEW s \in Students, Transfer(s) PROVE PagesInOrder'
  BY <1>1 DEF Transfer, PagesInOrder
<1>2. ASSUME NEW p \in Pages, Start(p) PROVE PagesInOrder'
  <2>1. Shows(p, 0, page[p].told) /\ register'.version = register.version
        /\ UNCHANGED <<monitored, recalculated>>
    BY <1>2 DEF Start, TypeOK
  <2> QED
    BY <1>a, <1>b, <1>e, <1>f, <2>1
<1>3. ASSUME NEW p \in Pages, Read(p) PROVE PagesInOrder'
  <2>1. Shows(p, register.version, page[p].told) /\ UNCHANGED <<register, monitored, recalculated>>
    BY <1>3 DEF Read
  <2> QED
    BY <1>a, <1>b, <1>e, <1>f, <2>1
<1>4. ASSUME NEW p \in Pages, Send(p) PROVE PagesInOrder'
  <2>1. PICK list \in ExceptionLists, reason \in BOOLEAN :
          page' = [page EXCEPT ![p].stage = "sent", ![p].request = list, ![p].reason = reason]
    BY <1>4 DEF Send
  <2> DEFINE row == [page[p] EXCEPT !.stage = "sent", !.request = list, !.reason = reason]
  <2>2. Moved(p, row)
    BY <2>1, SentPage
  <2>3. Fits(row, register.version, monitored, recalculated)
    BY <1>a, <1>b DEF PageRows
  <2> HIDE DEF row
  <2> QED
    BY <1>4, <1>b, <1>d, <2>2, <2>3 DEF Send
<1>5. ASSUME NEW p \in Pages, SendAgain(p) PROVE PagesInOrder'
  <2> DEFINE row == [page[p] EXCEPT !.stage = "sent"]
  <2>1. Moved(p, row)
    BY <1>5, StagedPage DEF SendAgain, Stages
  <2>2. Fits(row, register.version, monitored, recalculated)
    BY <1>a, <1>b DEF PageRows
  <2> HIDE DEF row
  <2> QED
    BY <1>5, <1>b, <1>d, <2>1, <2>2 DEF SendAgain
<1>6. ASSUME NEW p \in Pages, Accept(p) PROVE PagesInOrder'
  <2> DEFINE row == [page[p] EXCEPT !.stage = "monitor", !.saved = register.version + 1]
  <2>1. /\ register.version + 1 \in Versions
        /\ register'.version = register.version + 1
        /\ UNCHANGED <<monitored, recalculated>>
    <3>1. register.version < MaxVersion /\ UNCHANGED <<monitored, recalculated>>
          /\ register' = [register EXCEPT !.status = "SUBMITTED", !.version = @ + 1,
                                          !.exceptions = page[p].request]
      BY <1>6 DEF Accept
    <3>2. register'.version = register.version + 1
      BY <3>1 DEF TypeOK
    <3> QED
      BY <1>b, <3>1, <3>2, RegisterAssumption DEF Versions
  <2>2. Moved(p, row)
    BY <1>6, <2>1, CommittedPage DEF Accept
  <2>3. page[p].basis \in Nat /\ page[p].told \in Nat
    BY <1>e DEF Versions
  <2>4. Fits(row, register.version + 1, monitored, recalculated)
    BY <1>a, <1>b, <2>3 DEF PageRows
  <2> HIDE DEF row
  <2> QED
    BY <1>b, <1>d, <2>1, <2>2, <2>4
<1>7. ASSUME NEW p \in Pages, AcceptUnchanged(p) PROVE PagesInOrder'
  <2> DEFINE row == [page[p] EXCEPT !.stage = "monitor", !.saved = register.version]
  <2>1. Moved(p, row)
    BY <1>7, <1>e, CommittedPage DEF AcceptUnchanged
  <2>2. Fits(row, register.version, monitored, recalculated)
    BY <1>a, <1>b DEF PageRows
  <2> HIDE DEF row
  <2> QED
    BY <1>7, <1>b, <1>d, <2>1, <2>2 DEF AcceptUnchanged
<1>8. ASSUME NEW p \in Pages, Refuse(p) PROVE PagesInOrder'
  <2>1. Shows(p, page[p].basis, page[p].told) /\ UNCHANGED <<register, monitored, recalculated>>
    BY <1>8 DEF Refuse
  <2> QED
    BY <1>a, <1>b, <1>e, <1>f, <2>1
<1>9. ASSUME NEW p \in Pages, Monitor(p) PROVE PagesInOrder'
  <2> DEFINE row == [page[p] EXCEPT !.stage = "risk"]
  <2>1. Moved(p, row)
    BY <1>9, StagedPage DEF Monitor, Stages
  <2>2. page[p].told \in Nat
    BY <1>e DEF Versions
  <2>3. Fits(row, register.version, register.version, recalculated)
    BY <1>a, <1>b, <2>2 DEF PageRows
  <2> HIDE DEF row
  <2> QED
    BY <1>9, <1>b, <1>d, <2>1, <2>3 DEF Monitor
<1>10. ASSUME NEW p \in Pages, Recalculate(p) PROVE PagesInOrder'
  <2>1. /\ recalculated' = register.version /\ UNCHANGED <<register, monitored>>
        /\ page[p].stage = "risk" /\ page[p].saved <= monitored
    BY <1>10, <1>a DEF Recalculate
  <2>2. CASE Shows(p, page[p].saved, page[p].saved)
    <3>1. page[p].saved \in Nat
      BY <1>e DEF Versions
    <3> QED
      BY <1>b, <1>e, <1>f, <2>1, <2>2, <3>1
  <2>3. CASE Unanswered(p)
    <3> DEFINE row == [page[p] EXCEPT !.stage = "failed", !.saved = 0]
    <3>1. Moved(p, row)
      BY <2>3, UnansweredPage
    <3>2. page[p].told \in Nat
      BY <1>e DEF Versions
    <3>3. Fits(row, register.version, monitored, register.version)
      BY <1>a, <1>b, <3>2 DEF PageRows
    <3> HIDE DEF row
    <3> QED
      BY <1>b, <1>d, <2>1, <3>1, <3>3
  <2> QED
    BY <1>10, <2>2, <2>3 DEF Recalculate
<1>11. ASSUME NEW p \in Pages, Fail(p) PROVE PagesInOrder'
  <2> DEFINE row == [page[p] EXCEPT !.stage = "failed", !.saved = 0]
  <2>1. Moved(p, row)
    BY <1>11, UnansweredPage DEF Fail
  <2>2. Fits(row, register.version, monitored, recalculated)
    BY <1>a, <1>b DEF PageRows
  <2> HIDE DEF row
  <2> QED
    BY <1>11, <1>b, <1>d, <2>1, <2>2 DEF Fail
<1>12. CASE UNCHANGED vars
  BY <1>12 DEF vars, PagesInOrder
<1> QED
  BY <1>1, <1>2, <1>3, <1>4, <1>5, <1>6, <1>7, <1>8, <1>9, <1>10, <1>11, <1>12 DEF Next

-----------------------------------------------------------------------------
(* The history. *)

(* What an accepted submission appends. *)
LEMMA AcceptedEntry ==
  ASSUME TypeOK, NEW p \in Pages, Accept(p)
  PROVE  /\ Len(history) = register.version /\ register.version \in Nat
         /\ DOMAIN history = 1..Len(history) /\ DOMAIN history' = 1..(Len(history) + 1)
         /\ Len(history') = Len(history) + 1
         /\ \A n \in 1..Len(history) : history'[n] = history[n]
         /\ history'[Len(history) + 1].number = register.version + 1
         /\ history'[Len(history) + 1].basis = page[p].basis
         /\ history'[Len(history) + 1].changes = Changes(page[p].request)
         /\ register'.roster = register.roster
         /\ register'.exceptions = page[p].request
<1> DEFINE entry == [number |-> register.version + 1, basis |-> page[p].basis,
                     changes |-> Changes(page[p].request)]
<1>1. /\ history' = Append(history, entry)
      /\ register' = [register EXCEPT !.status = "SUBMITTED", !.version = @ + 1,
                                      !.exceptions = page[p].request]
  BY DEF Accept
<1>2. entry \in Entries
  BY VersionsInOrder, ChangesOfList DEF Entries
<1>f. /\ entry.number = register.version + 1 /\ entry.basis = page[p].basis
      /\ entry.changes = Changes(page[p].request)
  OBVIOUS
<1> HIDE DEF entry
<1>3. history \in Seq(Entries) /\ Len(history) = register.version /\ register.version \in Nat
  BY VersionsInOrder DEF TypeOK
<1>4. /\ Len(history') = Len(history) + 1
      /\ DOMAIN history = 1..Len(history) /\ DOMAIN history' = 1..(Len(history) + 1)
      /\ \A n \in 1..Len(history) : history'[n] = history[n]
      /\ history'[Len(history) + 1] = entry
  BY <1>1, <1>2, <1>3, AppendProperties
<1>5. register'.roster = register.roster /\ register'.exceptions = page[p].request
  BY <1>1 DEF TypeOK
<1> QED
  BY <1>3, <1>4, <1>5, <1>f

(* Every other step leaves it alone, and a start finds it empty. *)
LEMMA OtherSteps ==
  ASSUME TypeOK, [Next]_vars, \A p \in Pages : ~Accept(p)
  PROVE  /\ history' = history /\ register'.exceptions = register.exceptions
         /\ register'.roster = register.roster \/ Len(history) = 0
<1>1. ASSUME NEW p \in Pages, Start(p)
      PROVE  /\ history' = history /\ register'.exceptions = register.exceptions
             /\ Len(history) = 0
  BY <1>1 DEF Start, TypeOK
<1>2. CASE \A p \in Pages : ~Start(p)
  <2>1. UNCHANGED <<register, history>>
    BY <1>2 DEF Next, vars, Transfer, Read, Send, SendAgain, AcceptUnchanged, Refuse,
                Monitor, Recalculate, Fail
  <2> QED
    BY <2>1
<1> QED
  BY <1>1, <1>2

LEMMA RestStep ==
  TypeOK /\ PagesInOrder /\ SubmissionsRestOnLatest /\ [Next]_vars => SubmissionsRestOnLatest'
<1> SUFFICES ASSUME TypeOK, PagesInOrder, SubmissionsRestOnLatest, [Next]_vars
             PROVE  SubmissionsRestOnLatest'
  OBVIOUS
<1>1. ASSUME NEW p \in Pages, Accept(p) PROVE SubmissionsRestOnLatest'
  <2>1. page[p].basis = register.version
    <3>1. CASE IsCorrection
      BY <1>1, <3>1 DEF Accept, Correctable
    <3>2. CASE ~IsCorrection
      <4>1. register.version = 0
        BY <3>2 DEF IsCorrection, TypeOK
      <4>2. page[p].basis \in Nat /\ page[p].basis <= 0
        BY <4>1, VersionsInOrder DEF PagesInOrder, Versions
      <4> QED
        BY <4>1, <4>2
    <3> QED
      BY <3>1, <3>2
  <2>2. \A n \in 1..(Len(history) + 1) : history'[n].number = n /\ history'[n].basis = n - 1
    <3>1. SUFFICES ASSUME NEW n \in 1..(Len(history) + 1)
                   PROVE  history'[n].number = n /\ history'[n].basis = n - 1
      OBVIOUS
    <3>2. CASE n = Len(history) + 1
      <4>1. history'[n].number = register.version + 1 /\ history'[n].basis = page[p].basis
        BY <1>1, <3>2, AcceptedEntry
      <4>2. Len(history) = register.version /\ register.version \in Nat
        BY <1>1, AcceptedEntry
      <4> QED
        BY <2>1, <3>2, <4>1, <4>2
    <3>3. CASE n # Len(history) + 1
      <4>1. Len(history) \in Nat /\ n \in 1..Len(history)
        BY <1>1, <3>3, AcceptedEntry
      <4> QED
        BY <1>1, <4>1, AcceptedEntry DEF SubmissionsRestOnLatest
    <3> QED
      BY <3>2, <3>3
  <2> QED
    BY <1>1, <2>2, AcceptedEntry DEF SubmissionsRestOnLatest
<1>2. CASE \A p \in Pages : ~Accept(p)
  BY <1>2, OtherSteps DEF SubmissionsRestOnLatest
<1> QED
  BY <1>1, <1>2

(* The first n entries say the same when more follow. *)
LEMMA SaysKept ==
  ASSUME NEW h, NEW g, NEW N \in Nat, \A m \in 1..N : g[m] = h[m],
         NEW n \in 0..N, NEW s, NEW v, Says(h, n, s, v)
  PROVE  Says(g, n, s, v)
<1>1. \A m \in 1..n : g[m] = h[m] /\ \A k \in (m + 1)..n : k \in 1..n
  OBVIOUS
<1> QED
  BY <1>1 DEF Says

(* One more entry changes what is said of the students it mentions. *)
LEMMA SaysAppended ==
  ASSUME NEW h, NEW N \in Nat, NEW s, NEW v, NEW w, Says(h, N, s, v),
         \/ Mentions(h[N + 1], s) /\ h[N + 1].changes[s].to = w
         \/ ~Mentions(h[N + 1], s) /\ v = w
  PROVE  Says(h, N + 1, s, w)
<1>1. CASE Mentions(h[N + 1], s) /\ h[N + 1].changes[s].to = w
  <2>1. N + 1 \in 1..(N + 1) /\ \A k \in (N + 1 + 1)..(N + 1) : FALSE
    OBVIOUS
  <2> QED
    BY <1>1, <2>1 DEF Says
<1>2. CASE ~Mentions(h[N + 1], s) /\ v = w
  <2>1. CASE v = Present /\ \A m \in 1..N : ~Mentions(h[m], s)
    <3>1. \A m \in 1..(N + 1) : m \in 1..N \/ m = N + 1
      OBVIOUS
    <3>2. \A m \in 1..(N + 1) : ~Mentions(h[m], s)
      BY <1>2, <2>1, <3>1
    <3> QED
      BY <1>2, <2>1, <3>2 DEF Says
  <2>2. ASSUME NEW m \in 1..N, Mentions(h[m], s), h[m].changes[s].to = v,
               \A k \in (m + 1)..N : ~Mentions(h[k], s)
        PROVE  Says(h, N + 1, s, w)
    <3>1. m \in 1..(N + 1) /\ \A k \in (m + 1)..(N + 1) : k \in (m + 1)..N \/ k = N + 1
      OBVIOUS
    <3>2. \A k \in (m + 1)..(N + 1) : ~Mentions(h[k], s)
      BY <1>2, <2>2, <3>1
    <3> QED
      BY <1>2, <2>2, <3>1, <3>2 DEF Says
  <2> QED
    BY <2>1, <2>2 DEF Says
<1> QED
  BY <1>1, <1>2

LEMMA ExplainStep ==
  TypeOK /\ HistoryExplainsRegister /\ [Next]_vars => HistoryExplainsRegister'
<1> SUFFICES ASSUME TypeOK, HistoryExplainsRegister, [Next]_vars
             PROVE  HistoryExplainsRegister'
  OBVIOUS
<1>1. ASSUME NEW p \in Pages, Accept(p) PROVE HistoryExplainsRegister'
  <2> DEFINE N == Len(history)
             list == page[p].request
             old(s) == StatusIn(register.exceptions, s)
             new(s) == StatusIn(list, s)
  <2>1. /\ N \in Nat /\ DOMAIN history = 1..N /\ DOMAIN history' = 1..(N + 1) /\ Len(history') = N + 1
        /\ \A n \in 1..N : history'[n] = history[n]
        /\ history'[N + 1].changes = Changes(list)
        /\ register'.roster = register.roster /\ register'.exceptions = list
        /\ list \in ExceptionLists /\ register.exceptions \in ExceptionLists
    <3>1. list \in ExceptionLists /\ register.exceptions \in ExceptionLists
      BY VersionsInOrder DEF TypeOK
    <3> QED
      BY <1>1, <3>1, AcceptedEntry
  <2>2. DOMAIN list \subseteq register.roster /\ DOMAIN register.exceptions \subseteq register.roster
    BY <1>1 DEF Accept, OnRoster, TypeOK
  <2>3. \A s \in Students : Says(history, N, s, old(s))
    BY DEF HistoryExplainsRegister
  <2>4. \A n \in 1..N : \A s \in DOMAIN history[n].changes :
          s \in register.roster /\ Says(history, n - 1, s, history[n].changes[s].from)
    BY <2>1 DEF HistoryExplainsRegister
  <2>5. /\ DOMAIN Changes(list) \subseteq register.roster /\ register.roster \subseteq Students
        /\ \A s \in register.roster : s \in DOMAIN Changes(list) <=> old(s) # new(s)
        /\ \A s \in DOMAIN Changes(list) :
             Changes(list)[s].from = old(s) /\ Changes(list)[s].to = new(s)
    BY <2>1, ChangesOfList DEF TypeOK
  <2>6. \A s \in Students : s \notin DOMAIN Changes(list) => old(s) = new(s)
    <3>1. ASSUME NEW s, s \notin register.roster PROVE old(s) = new(s)
      BY <2>1, <2>2, <3>1, ListStatus
    <3> QED
      BY <2>5, <3>1
  <2> HIDE DEF N, list, old, new
  <2>7. \A n \in 0..N, s \in Students : \A v : Says(history, n, s, v) => Says(history', n, s, v)
    BY <2>1, SaysKept
  <2>8. \A s \in Students : Says(history', N + 1, s, new(s))
    <3>1. SUFFICES ASSUME NEW s \in Students PROVE Says(history', N + 1, s, new(s))
      OBVIOUS
    <3>2. Says(history', N, s, old(s))
      BY <2>1, <2>3, <2>7
    <3>3. CASE s \in DOMAIN Changes(list)
      <4>1. Mentions(history'[N + 1], s) /\ history'[N + 1].changes[s].to = new(s)
        BY <2>1, <2>5, <3>3 DEF Mentions
      <4> QED
        BY <2>1, <3>2, <4>1, SaysAppended
    <3>4. CASE s \notin DOMAIN Changes(list)
      <4>1. ~Mentions(history'[N + 1], s) /\ old(s) = new(s)
        BY <2>1, <2>6, <3>4 DEF Mentions
      <4> QED
        BY <2>1, <3>2, <4>1, SaysAppended
    <3> QED
      BY <3>3, <3>4
  <2>9. \A n \in 1..(N + 1) : \A s \in DOMAIN history'[n].changes :
          s \in register.roster /\ Says(history', n - 1, s, history'[n].changes[s].from)
    <3>1. SUFFICES ASSUME NEW n \in 1..(N + 1), NEW s \in DOMAIN history'[n].changes
                   PROVE  /\ s \in register.roster
                          /\ Says(history', n - 1, s, history'[n].changes[s].from)
      OBVIOUS
    <3>2. CASE n = N + 1
      <4>1. s \in register.roster /\ s \in Students /\ history'[n].changes[s].from = old(s)
        BY <2>1, <2>5, <3>2
      <4>2. Says(history', N, s, old(s))
        BY <2>1, <2>3, <2>7, <4>1
      <4>3. n - 1 = N
        BY <2>1, <3>2
      <4> QED
        BY <4>1, <4>2, <4>3
    <3>3. CASE n # N + 1
      <4>1. n \in 1..N /\ n - 1 \in 0..N /\ history'[n] = history[n]
        BY <2>1, <3>3
      <4>2. s \in register.roster /\ Says(history, n - 1, s, history[n].changes[s].from)
        BY <2>4, <4>1
      <4> QED
        BY <2>5, <2>7, <4>1, <4>2
    <3> QED
      BY <3>2, <3>3
  <2> QED
    BY <2>1, <2>8, <2>9 DEF HistoryExplainsRegister, new
<1>2. CASE \A p \in Pages : ~Accept(p)
  <2>1. CASE register'.roster = register.roster
    BY <1>2, <2>1, OtherSteps DEF HistoryExplainsRegister
  <2>2. CASE Len(history) = 0
    <3>1. DOMAIN history = {}
      BY <2>2 DEF TypeOK
    <3> QED
      BY <1>2, <3>1, OtherSteps DEF HistoryExplainsRegister
  <2> QED
    BY <1>2, <2>1, <2>2, OtherSteps
<1> QED
  BY <1>1, <1>2

-----------------------------------------------------------------------------
(* Theorems. *)

LEMMA RegisterStep == Register /\ [Next]_vars => Register'
  BY TypeStep, PagesStep, RestStep, ExplainStep DEF Register

LEMMA RegisterHolds == Spec => []Register
  BY InitRegister, RegisterStep, PTL DEF Spec

(* Every variable keeps its type, and each accepted submission its number. *)
THEOREM TypeCorrect == Spec => []TypeOK
<1>1. Register => TypeOK
  BY DEF Register
<1> QED
  BY <1>1, RegisterHolds, PTL

(* A register has a linear history: nobody's submission is overwritten by    *)
(* one that was written without having seen it (submit, finalizeSession).    *)
THEOREM NoLostSubmission == Spec => []SubmissionsRestOnLatest
<1>1. Register => SubmissionsRestOnLatest
  BY DEF Register
<1> QED
  BY <1>1, RegisterHolds, PTL

(* The recorded changes, read in order, give every student's status          *)
(* (recordSubmissionHistory, replaceExceptions).                             *)
THEOREM HistoryIsFaithful == Spec => []HistoryExplainsRegister
<1>1. Register => HistoryExplainsRegister
  BY DEF Register
<1> QED
  BY <1>1, RegisterHolds, PTL

(* What was answered as saved has been through the monitor and the risk      *)
(* recalculation (submit, after its transaction).                            *)
THEOREM AnswersAreFollowedUp == Spec => []SavedIsFollowedUp
<1>1. Register => SavedIsFollowedUp
  BY DEF Register, PagesInOrder, SavedIsFollowedUp
<1> QED
  BY <1>1, RegisterHolds, PTL

=============================================================================
