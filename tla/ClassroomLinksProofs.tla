------------------------ MODULE ClassroomLinksProofs ------------------------
(***************************************************************************)
(* Theorems of ClassroomLinks, for every set of links and every number of  *)
(* rotations.  That only the entitled are let in rests on the rows: a link *)
(* handed on from a standing link that is closed is closed too, or was     *)
(* opened again since; a standing link itself is never handed on.          *)
(***************************************************************************)
EXTENDS ClassroomLinks, TLAPS

(* What was handed on closes with the standing link it came from.            *)
ClosedWithItsSource ==
  \A l \in Links :
    row[l] = "ACTIVE" /\ source[l] # NoLink /\ row[source[l]] = "INACTIVE" => l \in reopened

(* Only assignments are handed on. *)
StandingLinkHasNoSource == \A l \in TeacherLinks : source[l] = NoLink

IInv == TypeOK /\ StandingLinkHasNoSource /\ ClosedWithItsSource /\ LessonHasOneUsableLink

-----------------------------------------------------------------------------
(* The steps that change the rows, and those that do not. *)

LEMMA KeyOfType == TypeOK => \A l \in Links : KeyOf(l) \in Keys
BY LinkAssumption DEF TypeOK, KeyOf, Keys

LEMMA NoKeyType == NoKey \in Keys
BY LinkAssumption DEF NoKey, Keys

LEMMA InsertType ==
  ASSUME TypeOK, NEW l \in Links, NEW opens \in {"before", "open"},
         NEW from \in TeacherLinks \cup {NoLink}, Insert(l, opens, from),
         l \in TeacherLinks => \A k \in TeacherLinks : row[k] # "ACTIVE",
         session' \in Keys, signIn' \in [at : {"none", "provider", "issue"}, key : Keys],
         request' \in Links \cup {NoLink}
  PROVE  TypeOK'
<1>1. row' \in [Links -> {"NONE", "ACTIVE", "INACTIVE"}]
  BY DEF Insert, TypeOK
<1>2. /\ token' \in [Links -> 0..MaxToken]
      /\ window' \in [Links -> {"before", "open", "over"}]
      /\ source' \in [Links -> TeacherLinks \cup {NoLink}]
      /\ reopened' \subseteq Links
  BY DEF Insert, TypeOK
<1>3. \A k, m \in TeacherLinks : row'[k] = "ACTIVE" /\ row'[m] = "ACTIVE" => k = m
  BY DEF Insert, TypeOK, Links
<1> QED
  BY <1>1, <1>2, <1>3 DEF TypeOK

(* A row is inserted whose source, if it has one, is active.                 *)
LEMMA InsertKeepsSources ==
  ASSUME TypeOK, ClosedWithItsSource, NEW l \in Links, NEW opens,
         NEW from \in TeacherLinks \cup {NoLink}, Insert(l, opens, from),
         from # NoLink => row[from] = "ACTIVE"
  PROVE  ClosedWithItsSource'
<1>1. /\ row'[l] = "ACTIVE" /\ source'[l] = from
      /\ \A k \in Links \ {l} : row'[k] = row[k] /\ source'[k] = source[k]
      /\ reopened' = reopened
  BY DEF Insert, TypeOK
<1>2. \A k \in Links : source[k] # NoLink => source[k] \in Links
  BY DEF TypeOK, Links
<1>3. from # NoLink => from \in Links
  BY DEF Links
<1> QED
  BY <1>1, <1>2, <1>3 DEF ClosedWithItsSource

(* An assignment is inserted where none works. *)
LEMMA InsertIntoFreeLesson ==
  ASSUME TypeOK, NEW a \in Assignments, NEW opens, NEW from, LessonFree, Insert(a, opens, from)
  PROVE  LessonHasOneUsableLink'
BY DEF Insert, LessonFree, Works, LessonHasOneUsableLink, Links, TypeOK

LEMMA RowsStay ==
  ASSUME TypeOK, UNCHANGED <<rows, reopened>>, session' \in Keys,
         signIn' \in [at : {"none", "provider", "issue"}, key : Keys],
         request' \in Links \cup {NoLink}
  PROVE  TypeOK'
BY DEF TypeOK, rows

LEMMA RowsStayInOrder ==
  ASSUME UNCHANGED <<rows, reopened>>, IInv
  PROVE  StandingLinkHasNoSource' /\ ClosedWithItsSource' /\ LessonHasOneUsableLink'
BY DEF rows, IInv, StandingLinkHasNoSource, ClosedWithItsSource, LessonHasOneUsableLink, Works

-----------------------------------------------------------------------------
(* The school's steps. *)

LEMMA IssueStep ==
  ASSUME IInv, NEW l \in TeacherLinks, IssueTeacherLink(l)
  PROVE  IInv'
<1> USE LinkAssumption
<1>0. l \in Links /\ l \notin Assignments
  BY DEF Links
<1>1. CASE row[l] = "ACTIVE" /\ NewToken(l) /\ UNCHANGED <<row, window, source, reopened, holder>>
  <2>1. token' \in [Links -> 0..MaxToken]
    BY <1>0, <1>1 DEF IInv, TypeOK, NewToken
  <2> QED
    BY <1>1, <2>1 DEF IInv, TypeOK, holder, StandingLinkHasNoSource, ClosedWithItsSource, LessonHasOneUsableLink, Works
<1>2. CASE (\A k \in TeacherLinks : row[k] # "ACTIVE") /\ Insert(l, "open", NoLink)
  <2>1. TypeOK'
    BY <1>0, <1>2, InsertType DEF IssueTeacherLink, holder, IInv, TypeOK
  <2>2. ClosedWithItsSource'
    BY <1>0, <1>2, InsertKeepsSources DEF IInv
  <2>3. LessonHasOneUsableLink'
    BY <1>0, <1>2 DEF Insert, IInv, TypeOK, LessonHasOneUsableLink, Works, Links
  <2>4. StandingLinkHasNoSource'
    BY <1>0, <1>2 DEF Insert, IInv, TypeOK, StandingLinkHasNoSource, Links
  <2> QED
    BY <2>1, <2>2, <2>3, <2>4 DEF IInv
<1> QED
  BY <1>1, <1>2 DEF IssueTeacherLink

LEMMA CreateStep ==
  ASSUME IInv, NEW a \in Assignments, NEW opens \in {"before", "open"},
         NEW from \in TeacherLinks \cup {NoLink}, LessonFree, Insert(a, opens, from),
         from # NoLink => row[from] = "ACTIVE",
         UNCHANGED <<signIn, session>>, request' \in {request, NoLink}
  PROVE  IInv'
<1>0. a \in Links /\ a \notin TeacherLinks
  BY LinkAssumption DEF Links
<1>1. TypeOK'
  BY <1>0, InsertType DEF IInv, TypeOK
<1>2. ClosedWithItsSource'
  BY <1>0, InsertKeepsSources DEF IInv
<1>3. LessonHasOneUsableLink'
  BY InsertIntoFreeLesson DEF IInv
<1>4. StandingLinkHasNoSource'
  BY <1>0 DEF Insert, IInv, TypeOK, StandingLinkHasNoSource, Links
<1> QED
  BY <1>1, <1>2, <1>3, <1>4 DEF IInv

LEMMA RotateStep ==
  ASSUME IInv, NEW l \in Links, Rotate(l)
  PROVE  IInv'
<1>1. /\ row' = [row EXCEPT ![l] = "ACTIVE"]
      /\ reopened' = IF row[l] = "INACTIVE" THEN reopened \cup {l} ELSE reopened
      /\ row[l] \in {"ACTIVE", "INACTIVE"}
      /\ UNCHANGED <<window, source, session, signIn, request>>
  BY DEF Rotate, RotatedStatus, holder, IInv, TypeOK
<1>2. token' \in [Links -> 0..MaxToken]
  BY LinkAssumption DEF Rotate, NewToken, IInv, TypeOK
<1>3. \A k, m \in TeacherLinks : row'[k] = "ACTIVE" /\ row'[m] = "ACTIVE" => k = m
  BY <1>1 DEF Rotate, IInv, TypeOK, Links
<1>4. TypeOK'
  BY <1>1, <1>2, <1>3 DEF IInv, TypeOK
<1>5. ClosedWithItsSource'
  <2>1. \A k \in Links : source[k] # NoLink => source[k] \in Links
    BY DEF IInv, TypeOK, Links
  <2> QED
    BY <1>1, <2>1 DEF IInv, TypeOK, ClosedWithItsSource
<1>6. LessonHasOneUsableLink'
  BY <1>1 DEF IInv, TypeOK, LessonHasOneUsableLink, Works, Links
<1> QED
  BY <1>1, <1>4, <1>5, <1>6 DEF IInv, StandingLinkHasNoSource

(* What is closed with a standing link leaves nothing of it behind.          *)
LEMMA DeactivateStep ==
  ASSUME IInv, NEW l \in Links, Deactivate(l)
  PROVE  IInv'
<1> USE LinkAssumption
<1>1. /\ \A k \in Links : row'[k] = IF k \in ClosedWith(l) THEN "INACTIVE" ELSE row[k]
      /\ row' \in [Links -> {"NONE", "ACTIVE", "INACTIVE"}]
      /\ reopened' = reopened \ ClosedWith(l)
      /\ UNCHANGED <<token, window, source, session, signIn, request>>
  BY DEF Deactivate, holder, IInv, TypeOK
<1>2. \A k, m \in TeacherLinks : row'[k] = "ACTIVE" /\ row'[m] = "ACTIVE" => k = m
  BY <1>1 DEF IInv, TypeOK, Links
<1>3. TypeOK'
  BY <1>1, <1>2 DEF IInv, TypeOK
<1>4. ClosedWithItsSource'
  <2> SUFFICES ASSUME NEW k \in Links, row'[k] = "ACTIVE", source[k] # NoLink,
                      row'[source[k]] = "INACTIVE"
               PROVE  k \in reopened'
    BY <1>1 DEF ClosedWithItsSource
  <2>1. k \notin ClosedWith(l) /\ row[k] = "ACTIVE"
    BY <1>1
  <2>2. source[k] \in TeacherLinks /\ source[k] \in Links
    BY DEF IInv, TypeOK, Links
  <2>3. CASE source[k] \in ClosedWith(l)
    <3>1. source[k] = l
      BY <2>2, <2>3 DEF ClosedWith
    <3>2. k \in Assignments
      BY DEF IInv, StandingLinkHasNoSource, Links
    <3> QED
      BY <2>1, <3>1, <3>2 DEF ClosedWith
  <2>4. CASE source[k] \notin ClosedWith(l)
    BY <1>1, <2>1, <2>2, <2>4 DEF IInv, ClosedWithItsSource
  <2> QED
    BY <2>3, <2>4
<1>5. LessonHasOneUsableLink'
  BY <1>1 DEF IInv, LessonHasOneUsableLink, Works, Links
<1> QED
  BY <1>1, <1>3, <1>4, <1>5 DEF IInv, StandingLinkHasNoSource

LEMMA TimeStep ==
  ASSUME IInv, NEW a \in Assignments, PassTime(a)
  PROVE  IInv'
<1>1. UNCHANGED <<row, token, source, session, signIn, request, reopened>>
  BY DEF PassTime, holder
<1>2. window' \in [Links -> {"before", "open", "over"}]
  BY DEF PassTime, IInv, TypeOK, Links
<1>3. \A b \in Links : window[b] = "over" => window'[b] = "over"
  BY DEF PassTime, IInv, TypeOK, Links
<1>4. LessonHasOneUsableLink'
  BY <1>1, <1>3 DEF IInv, LessonHasOneUsableLink, Works, Links
<1> QED
  BY <1>1, <1>2, <1>4 DEF IInv, TypeOK, StandingLinkHasNoSource, ClosedWithItsSource

-----------------------------------------------------------------------------

LEMMA InitIInv == Init => IInv
BY LinkAssumption, NoKeyType
   DEF Init, IInv, TypeOK, StandingLinkHasNoSource, ClosedWithItsSource,
       LessonHasOneUsableLink, Works, Links

LEMMA HolderStep ==
  ASSUME IInv,
         (\E l \in Links : StartSignIn(l)) \/ ConsumeSignIn \/ IssueSession \/ Authorize \/ EndRequest
  PROVE  IInv'
<1>1. UNCHANGED <<rows, reopened>>
  BY DEF StartSignIn, ConsumeSignIn, IssueSession, Authorize, EndRequest
<1>2. TypeOK
  BY DEF IInv
<1>3. session' \in Keys
  BY <1>2 DEF TypeOK, StartSignIn, ConsumeSignIn, IssueSession, Authorize, EndRequest
<1>4. signIn' \in [at : {"none", "provider", "issue"}, key : Keys]
  BY <1>2, KeyOfType, NoKeyType
  DEF TypeOK, StartSignIn, ConsumeSignIn, IssueSession, Authorize, EndRequest
<1>5. request' \in Links \cup {NoLink}
  BY <1>2 DEF TypeOK, SessionOpens, StartSignIn, ConsumeSignIn, IssueSession, Authorize, EndRequest
<1> QED
  BY <1>1, <1>2, <1>3, <1>4, <1>5, RowsStay, RowsStayInOrder DEF IInv

LEMMA StepIInv == IInv /\ [Next]_vars => IInv'
<1> SUFFICES ASSUME IInv, [Next]_vars PROVE IInv'
  OBVIOUS
<1>1. ASSUME NEW a \in Assignments, NEW opens \in {"before", "open"}, CreateAssignment(a, opens)
      PROVE  IInv'
  BY <1>1, CreateStep DEF CreateAssignment, holder
<1>2. ASSUME NEW a \in Assignments, NEW opens \in {"before", "open"}, CreateFromLink(a, opens)
      PROVE  IInv'
  BY <1>2, CreateStep DEF CreateFromLink, MayHandOn
<1>3. CASE UNCHANGED vars
  BY <1>3, RowsStay, RowsStayInOrder DEF vars, holder, IInv, TypeOK
<1> QED
  BY <1>1, <1>2, <1>3, IssueStep, RotateStep, DeactivateStep, TimeStep, HolderStep
  DEF Next, School, Holder

(* A request is let in by a session of the link's present token.             *)
LEMMA LetInStep ==
  ASSUME IInv, [Next]_vars, request = NoLink, request' # NoLink
  PROVE  Entitled(session)
<1>1. Authorize
  BY DEF Next, School, Holder, IssueTeacherLink, CreateAssignment, Rotate, Deactivate, PassTime,
         StartSignIn, ConsumeSignIn, IssueSession, EndRequest, CreateFromLink, vars, holder
<1>2. PICK l \in Links : session.link = l /\ Usable(l) /\ session.token = token[l]
  BY <1>1 DEF Authorize, SessionOpens
<1>3. session = KeyOf(l)
  BY <1>2 DEF IInv, TypeOK, Keys, KeyOf
<1>4. source[l] # NoLink /\ row[source[l]] = "INACTIVE" => l \in reopened
  BY <1>2 DEF IInv, ClosedWithItsSource, Usable
<1> QED
  BY <1>2, <1>3, <1>4 DEF Entitled

LEMMA Invariance == Spec => []IInv
BY InitIInv, StepIInv, PTL DEF Spec

(* Every variable keeps its type, and a teacher never has two active         *)
(* standing links: neither a second issue nor a rotation of a closed link    *)
(* gets past the unique index.                                               *)
THEOREM ClassroomLinkTypes == Spec => []TypeOK
<1>1. IInv => TypeOK
  BY DEF IInv
<1> QED
  BY <1>1, Invariance, PTL

(* One lesson has one assignment that works, whoever hands one on, unless a  *)
(* rotation opened a closed one again.                                       *)
THEOREM OneUsableLinkPerLesson == Spec => []LessonHasOneUsableLink
<1>1. IInv => LessonHasOneUsableLink
  BY DEF IInv
<1> QED
  BY <1>1, Invariance, PTL

(* Nobody is let in with a token the link no longer has, on a link that no   *)
(* longer works, or on one whose standing link is closed.                    *)
THEOREM OnlyPresentTokensLetIn == Spec => OnlyTheEntitledAreLetIn
<1>1. IInv /\ [Next]_vars => [request = NoLink /\ request' # NoLink => Entitled(session)]_vars
  BY LetInStep
<1> QED
  BY <1>1, Invariance, PTL DEF Spec, OnlyTheEntitledAreLetIn

=============================================================================
