--------------------------- MODULE ClassroomLinks ---------------------------
(***************************************************************************)
(* The links by which a register is reached without an account             *)
(* (ClassroomAttendanceLinksService): the standing links of one teacher in *)
(* one term, and the assignments of one lesson of theirs, which the school *)
(* issues or the teacher hands on from inside a standing link.  A link is  *)
(* known by its token: rotating it replaces the token, and what was opened *)
(* with the old one should stop working at once.                           *)
(*                                                                         *)
(* One holder opens a link by its token, signs in with an identity         *)
(* provider and gets a session, with which requests are made.  Sign-ins    *)
(* and requests stop at every await: between the check and the effect the  *)
(* school may rotate or close the link, and time passes.  The school, the  *)
(* term and the teacher's membership stay active.  Tokens are numbered per *)
(* link.                                                                   *)
(***************************************************************************)
EXTENDS Naturals

CONSTANTS Assignments,  \* rows for assignments of the lesson
          TeacherLinks, \* rows for standing links of the teacher
          NoLink,
          MaxToken      \* bound: rotations of one link

ASSUME LinkAssumption ==
  /\ Assignments \cap TeacherLinks = {}
  /\ NoLink \notin Assignments \cup TeacherLinks
  /\ MaxToken \in Nat

VARIABLES
  row,     \* link_status; NONE before the INSERT
  token,   \* which token token_hash belongs to
  window,  \* where now() is in opens_at, expires_at; a standing link has none
  source,  \* source_teacher_link_id
  signIn,  \* the holder's sign-in, and the link and token it was started for
  session, \* the link and token of the holder's session
  request, \* the link under which a request of the holder was let in
  reopened \* history: the links a rotation has opened again since they closed

rows == <<row, token, window, source>>
holder == <<signIn, session, request>>
vars == <<rows, holder, reopened>>

Links == Assignments \cup TeacherLinks
Keys == [link : Links \cup {NoLink}, token : 0..MaxToken]
NoKey == [link |-> NoLink, token |-> 0]
KeyOf(l) == [link |-> l, token |-> token[l]]

Init ==
  /\ row = [l \in Links |-> "NONE"]
  /\ token = [l \in Links |-> 0]
  /\ window = [l \in Links |-> "open"]
  /\ source = [l \in Links |-> NoLink]
  /\ session = NoKey
  /\ signIn = [at |-> "none", key |-> NoKey]
  /\ request = NoLink
  /\ reopened = {}

(* findUsableByTokenHash, findUsableById. *)
Usable(l) == row[l] = "ACTIVE" /\ window[l] = "open"
Opens(key) == \E l \in Links : key = KeyOf(l) /\ Usable(l)

(* An assignment still works if it is active and its end is in the future;   *)
(* the lesson is free when none does (findUsableAssignmentForSubject).       *)
Works(a) == row[a] = "ACTIVE" /\ window[a] # "over"
MutantLessonFree == \A a \in Assignments : ~Usable(a)

LessonFree == \A a \in Assignments : ~Works(a)

-----------------------------------------------------------------------------
(* What the school does, and what an issuer does to their own assignment. *)

Insert(l, opens, from) ==
  /\ row[l] = "NONE"
  /\ row' = [row EXCEPT ![l] = "ACTIVE"]
  /\ window' = [window EXCEPT ![l] = opens]
  /\ source' = [source EXCEPT ![l] = from]
  /\ UNCHANGED <<token, reopened>>

NewToken(l) ==
  /\ token[l] < MaxToken
  /\ token' = [token EXCEPT ![l] = @ + 1]

MutantIssueTeacherLink(l) ==
  /\ \/ row[l] = "ACTIVE" /\ NewToken(l) /\ UNCHANGED <<row, window, source, reopened>>
     \/ Insert(l, "open", NoLink)
  /\ UNCHANGED holder

(* bulkCreate: the teacher's active link gets a new token, or a teacher      *)
(* without one a new link.                                                   *)
IssueTeacherLink(l) ==
  /\ \/ row[l] = "ACTIVE" /\ NewToken(l) /\ UNCHANGED <<row, window, source, reopened>>
     \/ (\A k \in TeacherLinks : row[k] # "ACTIVE") /\ Insert(l, "open", NoLink)
  /\ UNCHANGED holder

(* createAssignment: the look-up and the insert are one under the lesson's   *)
(* advisory lock.                                                            *)
CreateAssignment(a, opens) ==
  /\ LessonFree
  /\ Insert(a, opens, NoLink)
  /\ UNCHANGED holder

(* rotate, rotateMyAssignment: whatever the link's status, it becomes        *)
(* active.  A second active standing link meets the unique index.            *)
RotatedStatus(l) == "ACTIVE"

Rotate(l) ==
  /\ row[l] # "NONE"
  /\ l \in TeacherLinks => \A k \in TeacherLinks \ {l} : row[k] # "ACTIVE"
  /\ NewToken(l)
  /\ row' = [row EXCEPT ![l] = RotatedStatus(l)]
  /\ reopened' = IF row[l] = "INACTIVE" THEN reopened \cup {l} ELSE reopened
  /\ UNCHANGED <<window, source, holder>>

(* deactivate closes the live assignments issued from a standing link with   *)
(* it; deactivateMyAssignment knows assignments only, which have none.       *)
ClosedWith(l) ==
  {l} \cup {a \in Assignments : source[a] = l /\ row[a] = "ACTIVE"}

Deactivate(l) ==
  /\ row[l] # "NONE"
  /\ row' = [k \in Links |-> IF k \in ClosedWith(l) THEN "INACTIVE" ELSE row[k]]
  /\ reopened' = reopened \ ClosedWith(l)
  /\ UNCHANGED <<token, window, source, holder>>

PassTime(a) ==
  /\ row[a] # "NONE"
  /\ \/ window[a] = "before" /\ window' = [window EXCEPT ![a] = "open"]
     \/ window[a] = "open" /\ window' = [window EXCEPT ![a] = "over"]
  /\ UNCHANGED <<row, token, source, holder, reopened>>

-----------------------------------------------------------------------------
(* What the holder does. *)

(* googleStart, createAraIdChallenge: only the present token opens a link. *)
StartSignIn(l) ==
  /\ Usable(l)
  /\ signIn' = [at |-> "provider", key |-> KeyOf(l)]
  /\ UNCHANGED <<rows, session, request, reopened>>

(* googleCallback and pollAraIdChallenge consume the sign-in and look the    *)
(* link up by the token it was started with.                                 *)
ConsumeSignIn ==
  /\ signIn.at = "provider"
  /\ signIn' = IF Opens(signIn.key) THEN [signIn EXCEPT !.at = "issue"]
               ELSE [at |-> "none", key |-> NoKey]
  /\ UNCHANGED <<rows, session, request, reopened>>

(* The exchange with the provider lies in between; the link is not read      *)
(* again.                                                                    *)
IssueSession ==
  /\ signIn.at = "issue"
  /\ session' = signIn.key
  /\ signIn' = [at |-> "none", key |-> NoKey]
  /\ UNCHANGED <<rows, request, reopened>>

(* authorizeCheckInSession reads the link by its id and compares the tokens  *)
(* (validateSession).                                                        *)
SessionOpens == \E l \in Links : session.link = l /\ Usable(l) /\ session.token = token[l]

Authorize ==
  /\ request = NoLink
  /\ SessionOpens
  /\ request' = session.link
  /\ UNCHANGED <<rows, signIn, session, reopened>>

MutantMayHandOn(l) == TRUE

(* createAssignmentFromLink looks at the standing link again, under its      *)
(* lock.                                                                     *)
MayHandOn(l) == row[l] = "ACTIVE"

CreateFromLink(a, opens) ==
  /\ request \in TeacherLinks
  /\ MayHandOn(request)
  /\ LessonFree
  /\ Insert(a, opens, request)
  /\ request' = NoLink
  /\ UNCHANGED <<signIn, session>>

(* Any other request, and one that is refused after all. *)
EndRequest ==
  /\ request # NoLink
  /\ request' = NoLink
  /\ UNCHANGED <<rows, signIn, session, reopened>>

-----------------------------------------------------------------------------
School ==
  \/ \E l \in TeacherLinks : IssueTeacherLink(l)
  \/ \E a \in Assignments, opens \in {"before", "open"} : CreateAssignment(a, opens)
  \/ \E l \in Links : Rotate(l) \/ Deactivate(l)

Holder ==
  \/ \E l \in Links : StartSignIn(l)
  \/ ConsumeSignIn \/ IssueSession
  \/ Authorize \/ EndRequest
  \/ \E a \in Assignments, opens \in {"before", "open"} : CreateFromLink(a, opens)

Next == School \/ Holder \/ \E a \in Assignments : PassTime(a)

Spec == Init /\ [][Next]_vars

-----------------------------------------------------------------------------
(* Every variable keeps its type, and the unique index its promise: a        *)
(* teacher has one active standing link.                                     *)
TypeOK ==
  /\ row \in [Links -> {"NONE", "ACTIVE", "INACTIVE"}]
  /\ token \in [Links -> 0..MaxToken]
  /\ window \in [Links -> {"before", "open", "over"}]
  /\ source \in [Links -> TeacherLinks \cup {NoLink}]
  /\ session \in Keys
  /\ signIn \in [at : {"none", "provider", "issue"}, key : Keys]
  /\ request \in Links \cup {NoLink}
  /\ reopened \subseteq Links
  /\ \A k, l \in TeacherLinks : row[k] = "ACTIVE" /\ row[l] = "ACTIVE" => k = l

(* "The old link stops working at once", "Anyone still holding it is refused *)
(* from now on": a request is let in only for a holder whose session was     *)
(* opened with the token the link has now, on a link that works; and neither *)
(* the link nor the standing link it was handed on from was closed before,   *)
(* unless a rotation opened it again.  A hand-on under way while the         *)
(* standing link is closed must not leave an assignment behind.              *)
Entitled(key) ==
  \E l \in Links :
    /\ key = KeyOf(l) /\ Usable(l)
    /\ source[l] # NoLink /\ row[source[l]] = "INACTIVE" => l \in reopened

OnlyTheEntitledAreLetIn ==
  [][request = NoLink /\ request' # NoLink => Entitled(session)]_vars

(* "One usable link per lesson": the school and holders who hand their links *)
(* on at the same time leave no two assignments of a lesson that work, not   *)
(* even one that opens later, unless a rotation opened a closed one again:   *)
(* updateToken does not ask for the lesson.                                  *)
LessonHasOneUsableLink ==
  \A a, b \in Assignments : Works(a) /\ Works(b) /\ a # b => {a, b} \cap reopened # {}
=============================================================================
