------------------------------ MODULE Renewals ------------------------------
(***************************************************************************)
(* Renewal requests, composed with the endpoints of Seats: a student who   *)
(* has graduated asks for a place in a course of the next level, and the   *)
(* academy approves, through open_enrollment, or rejects.                  *)
(*                                                                         *)
(* Nothing locks the row of a renewal request: every handler reads it,     *)
(* judges it and writes it when it commits.  An approval also reads the    *)
(* course before open_enrollment locks it, and keeps the row it read: the  *)
(* locked SELECT returns the object the session already holds, with the    *)
(* columns of the first read.                                              *)
(***************************************************************************)
EXTENDS Seats

CONSTANTS
    Asks,    \* renewal requests that are ever made
    Level    \* Level[c]: the place of the course's level in its track

ASSUME RenewalsAssumption ==
    /\ Level \in [Courses -> Nat]
    /\ FALSE \in Forced
    /\ "create_enrollment" \in Endpoints
    /\ "enrolled" \in BirthStates

VARIABLES
    ask,     \* ask[a]: the committed row of renewal request a
    review   \* review[r]: what request r knows of the renewal it handles

renewalVars == <<vars, ask, review>>

ProposalStatus == {"pending", "approved", "rejected"}

AskRows == [status : ProposalStatus \cup {"unborn", "deleted"},
            from : Rows \cup {Nobody}, course : Courses \cup {Nobody}]

Unasked == [status |-> "unborn", from |-> Nobody, course |-> Nobody]

\* `write` is the status the handler is about to commit.
Reviews == [write : ProposalStatus \cup {"none", "deleted"}, ask : Asks \cup {Nobody},
            from : Rows \cup {Nobody}, course : Courses \cup {Nobody},
            seen : CourseStatus \cup {"none", "deleted"}, max : Nat]

NoReview == [write |-> "none", ask |-> Nobody, from |-> Nobody, course |-> Nobody,
             seen |-> "none", max |-> 0]

NewAsks == {a \in Asks : ask[a].status = "unborn"}

\* The handler holds no transaction of Seats and no renewal.
Quiet(r) == tx[r] = NoTx /\ review[r] = NoReview

\* A matricula that was not withdrawn in some course of the level.
HoldsLevel(s, level) ==
    \E e \in Rows : /\ StudentOf(e) = s /\ Level[CourseOf(e)] = level
                    /\ Present(e) /\ status[e] # "withdrawn"

PendingFrom(e) == {a \in Asks : ask[a].status = "pending" /\ ask[a].from = e}

-----------------------------------------------------------------------------
(* The student.                                                            *)

request_renewal(r) ==
    \E e \in Rows, c \in Courses :
        /\ Quiet(r)
        /\ NewAsks # {}
        /\ status[e] = "graduated"
        /\ Level[c] = Level[CourseOf(e)] + 1
        /\ ~HoldsLevel(StudentOf(e), Level[c])
        /\ courseStatus[c] \in AcceptsEnrolment
        /\ Cardinality(SeatsTaken(c)) < maxStudents[c]
        /\ ~TimetableClash(StudentOf(e), c, {})
        /\ PendingFrom(e) = {}
        /\ review' = [review EXCEPT ![r] = [NoReview EXCEPT !.write = "pending",
                                                            !.from = e, !.course = c]]
        /\ UNCHANGED <<vars, ask>>

\* Mutant: no unique index stops the second of two taps.
AnyTap(r) == NewAsks # {} /\ Present(review[r].from) /\ courseStatus[review[r].course] # "deleted"

\* The unique index on the pending requests of a matricula, and the foreign keys.
TapAccepted(r) ==
    /\ NewAsks # {}
    /\ PendingFrom(review[r].from) = {}
    /\ Present(review[r].from)
    /\ courseStatus[review[r].course] # "deleted"

\* Accepted, or ended with nothing written.
CommitRequest(r) ==
    /\ review[r].write = "pending"
    /\ \/ /\ TapAccepted(r)
          /\ \E a \in NewAsks :
                ask' = [ask EXCEPT ![a] = [status |-> "pending", from |-> review[r].from,
                                           course |-> review[r].course]]
       \/ UNCHANGED ask
    /\ review' = [review EXCEPT ![r] = NoReview]
    /\ UNCHANGED vars

-----------------------------------------------------------------------------
(* The decisions.  Each one is judged on an unlocked read of the request.  *)

Judge(r, a, decision) ==
    /\ Quiet(r)
    /\ ask[a].status = "pending"
    /\ review' = [review EXCEPT ![r] = [NoReview EXCEPT !.write = decision, !.ask = a]]
    /\ UNCHANGED <<vars, ask>>

withdraw_request(r) == \E a \in Asks : Judge(r, a, "deleted")

reject_request(r) == \E a \in Asks : Judge(r, a, "rejected")

\* The commit of either; of a row that is gone nothing is written.
CommitDecision(r) ==
    LET a == review[r].ask IN
    /\ review[r].write \in {"rejected", "deleted"}
    /\ \/ ask[a].status # "deleted" /\ ask' = [ask EXCEPT ![a].status = review[r].write]
       \/ UNCHANGED ask
    /\ review' = [review EXCEPT ![r] = NoReview]
    /\ UNCHANGED vars

\* Mutant: an approval does not count against the plan.
ApproveUncounted(r) ==
    \E a \in Asks :
        /\ Quiet(r)
        /\ ask[a].status = "pending"
        /\ Begin(r, [NoTx EXCEPT !.op = "create_enrollment", !.at = "seat", !.course = ask[a].course,
                                 !.students = {StudentOf(ask[a].from)}, !.to = "enrolled"])
        /\ review' = [review EXCEPT ![r] =
                        [NoReview EXCEPT !.write = "approved", !.ask = a,
                                         !.seen = courseStatus[ask[a].course],
                                         !.max = maxStudents[ask[a].course]]]
        /\ UNCHANGED ask

approve_request(r) ==
    \E a \in Asks :
        LET c == ask[a].course IN
        /\ Quiet(r)
        /\ ask[a].status = "pending"
        /\ Begin(r, [NoTx EXCEPT !.op = "create_enrollment", !.at = FirstLock(r), !.course = c,
                                 !.students = {StudentOf(ask[a].from)}, !.to = "enrolled"])
        /\ review' = [review EXCEPT ![r] =
                        [NoReview EXCEPT !.write = "approved", !.ask = a,
                                         !.seen = courseStatus[c], !.max = maxStudents[c]]]
        /\ UNCHANGED ask

Approving(r) == review[r].write = "approved"

\* A refusal on the way ends the approval and leaves the request as it was.
ReviewGoesOn(r) ==
    review' = [review EXCEPT ![r] = IF tx'[r] = NoTx THEN NoReview ELSE review[r]]

ApprovalCountsStudents(r) ==
    Approving(r) /\ check_tenant_student_quota(r) /\ ReviewGoesOn(r) /\ UNCHANGED ask

ApprovalTakesSeat(r) ==
    /\ Approving(r)
    /\ open_enrollment(r, review[r].seen, review[r].max, {FALSE})
    /\ ReviewGoesOn(r)
    /\ UNCHANGED ask

ApprovalFails(r) == Approving(r) /\ Fail(r) /\ ReviewGoesOn(r) /\ UNCHANGED ask

\* Mutant: the decision is committed before the door is asked.
ApproveFirst(r) ==
    /\ Approving(r)
    /\ ask' = [ask EXCEPT ![review[r].ask].status = "approved"]
    /\ review' = [review EXCEPT ![r] = NoReview]
    /\ UNCHANGED vars

\* The matricula and the decision are committed together, or neither is.
CommitApproval(r) ==
    LET a == review[r].ask IN
    /\ Approving(r)
    /\ tx[r].at = "commit"
    /\ \/ /\ ask[a].status # "deleted"
          /\ CommitEnrollments(r)
          /\ ask' = IF status' # status THEN [ask EXCEPT ![a].status = "approved"] ELSE ask
       \/ ask[a].status = "deleted" /\ Rollback(r) /\ UNCHANGED ask
    /\ review' = [review EXCEPT ![r] = NoReview]

-----------------------------------------------------------------------------

\* Mutant: ON DELETE SET NULL.
SetNull ==
    [a \in Asks |->
        IF ask[a].from \in Rows /\ status'[ask[a].from] = "deleted"
        THEN [ask[a] EXCEPT !.from = Nobody] ELSE ask[a]]

\* A deleted matricula or course takes its renewal requests with it.
Cascade ==
    [a \in Asks |->
        IF ask[a].status \in ProposalStatus
           /\ (status'[ask[a].from] = "deleted" \/ courseStatus'[ask[a].course] = "deleted")
        THEN [ask[a] EXCEPT !.status = "deleted"] ELSE ask[a]]

\* Any other endpoint.
Elsewhere(r) ==
    /\ review[r] = NoReview
    /\ Arrive(r) \/ Step(r)
    /\ ask' = Cascade
    /\ UNCHANGED review

RenewalsInit ==
    /\ Init
    /\ ask = [a \in Asks |-> Unasked]
    /\ review = [r \in Requests |-> NoReview]

Renew(r) ==
    \/ request_renewal(r) \/ CommitRequest(r)
    \/ withdraw_request(r) \/ reject_request(r) \/ CommitDecision(r)
    \/ approve_request(r) \/ ApprovalCountsStudents(r) \/ ApprovalTakesSeat(r)
    \/ ApprovalFails(r) \/ CommitApproval(r)

RenewalsNext == \E r \in Requests : Renew(r) \/ Elsewhere(r)

RenewalsSpec == RenewalsInit /\ [][RenewalsNext]_renewalVars

-----------------------------------------------------------------------------
(* Properties.                                                             *)

\* A request names a matricula and a course, and a handler the request it judges.
RenewalsTypeOK ==
    /\ TypeOK
    /\ ask \in [Asks -> AskRows]
    /\ review \in [Requests -> Reviews]
    /\ \A a \in Asks : ask[a].status # "unborn" => ask[a].from \in Rows /\ ask[a].course \in Courses
    /\ \A r \in Requests :
        /\ review[r].write = "pending" => review[r].from \in Rows /\ review[r].course \in Courses
        /\ review[r].write \notin {"none", "pending"} => review[r].ask \in Asks

\* "Two taps racing past the check above still meet the unique index"
\* (routers/renewals.py:302): a matricula never has two pending requests.
OnePending ==
    \A a, b \in Asks : /\ ask[a].status = "pending" /\ ask[b].status = "pending"
                       /\ ask[a].from = ask[b].from
                       => a = b

\* "It is the one door into a course" (routers/enrollments.py:128): while no
\* course changes, whatever renewals do to the matriculas is what the ordinary
\* enrolment endpoints could have done.
OneDoor == Spec

\* An approval is committed with the matricula it opens (routers/renewals.py:363):
\* whoever was told of an approval has, or had, a matricula in the course.
ApprovedIsSeated ==
    \A a \in Asks : ask[a].status = "approved" =>
        \E e \in Rows : /\ StudentOf(e) = StudentOf(ask[a].from) /\ CourseOf(e) = ask[a].course
                        /\ status[e] # "unborn"

-----------------------------------------------------------------------------
(* Why they hold.                                                          *)

\* A decision is about a request that was made.
ReviewTied ==
    \A r \in Requests :
        review[r].write \notin {"none", "pending"} => ask[review[r].ask].status # "unborn"

\* An approval stands at the door with the student and the course of its request.
ApprovalTied ==
    \A r \in Requests : Approving(r) =>
        LET asked == ask[review[r].ask] IN
        /\ tx[r].op = "create_enrollment"
        /\ tx[r].course = asked.course
        /\ tx[r].students = {StudentOf(asked.from)}
        /\ \A e \in tx[r].writes : StudentOf(e) = StudentOf(asked.from) /\ CourseOf(e) = asked.course

\* No endpoint in play changes a course.
CatalogueClosed == Endpoints \cap {"update_course", "change_course_status", "delete_course"} = {}

\* The course an approval has read is the course as it is.
CourseSeen ==
    \A r \in Requests :
        /\ tx[r].op \in Endpoints \cup {"none"}
        /\ Approving(r) => /\ review[r].seen = courseStatus[tx[r].course]
                           /\ review[r].max = maxStudents[tx[r].course]

=============================================================================
