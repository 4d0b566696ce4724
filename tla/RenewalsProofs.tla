--------------------------- MODULE RenewalsProofs ---------------------------
(***************************************************************************)
(* Proofs about renewals, for every set of students, courses, renewal      *)
(* requests and concurrent requests.                                       *)
(***************************************************************************)
EXTENDS Renewals, SeatsProofs

-----------------------------------------------------------------------------
(* What a renewal step does to the tables of Seats.                        *)

\* open_enrollment keeps the types, whatever course row the session holds.
LEMMA DoorType ==
  ASSUME TypeOK, NEW r \in Requests, NEW seen, NEW max, NEW forced,
         open_enrollment(r, seen, max, forced)
  PROVE  TypeOK'
BY RollbackType DEF open_enrollment, NextRow, TypeOK, tables, Transactions, Points

\* It commits nothing, and another request's transaction is not its business.
LEMMA DoorFrame ==
  ASSUME TypeOK, NEW r \in Requests, NEW seen, NEW max, NEW forced,
         open_enrollment(r, seen, max, forced)
  PROVE  /\ UNCHANGED tables
         /\ \A q \in Requests \ {r} : tx'[q] = tx[q]
BY DEF open_enrollment, Rollback, End, TypeOK

\* The row it is about to insert is one of its student in its course.
LEMMA DoorRow ==
  ASSUME TypeOK, NEW r \in Requests, NEW seen, NEW max, NEW forced,
         open_enrollment(r, seen, max, forced), tx'[r] # NoTx
  PROVE  /\ tx'[r].op = tx[r].op
         /\ tx'[r].course = tx[r].course
         /\ tx'[r].students = tx[r].students
         /\ \A e \in tx'[r].writes : StudentOf(e) \in tx[r].students /\ CourseOf(e) = tx[r].course
<1> DEFINE c == tx[r].course
<1>1. Rollback(r) => tx'[r] = NoTx
  BY DEF Rollback, End, TypeOK
<1>2. PICK s \in tx[r].students : \E e \in NextRow(s, c) :
          tx' = [tx EXCEPT ![r].at = "commit", ![r].writes = {e}]
  BY <1>1 DEF open_enrollment
<1>3. PICK e \in NextRow(s, c) : tx' = [tx EXCEPT ![r].at = "commit", ![r].writes = {e}]
  BY <1>2
<1>4. StudentOf(e) = s /\ CourseOf(e) = c
  BY DEF NextRow
<1>5. /\ tx'[r].op = tx[r].op
      /\ tx'[r].course = tx[r].course
      /\ tx'[r].students = tx[r].students
      /\ tx'[r].writes = {e}
  BY <1>3 DEF TypeOK, Transactions
<1>6. QED
  BY <1>4, <1>5

\* What an ordinary endpoint does keeps the types.
LEMMA ElsewhereType ==
  ASSUME TypeOK, NEW r \in Requests, Arrive(r) \/ Step(r)
  PROVE  TypeOK'
BY ArriveType, TakeLockType, FinishType, RollbackType DEF Step, Fail

\* An approval arrives at the door like a form that asks for "enrolled".
LEMMA ApprovalArrives ==
  ASSUME RenewalsTypeOK, NEW r \in Requests, approve_request(r)
  PROVE  \E a \in Asks :
            /\ ask[a].status = "pending"
            /\ StudentOf(ask[a].from) \in Students
            /\ ask[a].course \in Courses
            /\ Begin(r, [NoTx EXCEPT !.op = "create_enrollment", !.at = FirstLock(r),
                                     !.course = ask[a].course,
                                     !.students = {StudentOf(ask[a].from)}, !.to = "enrolled"])
            /\ review' = [review EXCEPT ![r] =
                            [NoReview EXCEPT !.write = "approved", !.ask = a,
                                             !.seen = courseStatus[ask[a].course],
                                             !.max = maxStudents[ask[a].course]]]
            /\ ask' = ask
<1>1. PICK a \in Asks :
            /\ ask[a].status = "pending"
            /\ Begin(r, [NoTx EXCEPT !.op = "create_enrollment", !.at = FirstLock(r),
                                     !.course = ask[a].course,
                                     !.students = {StudentOf(ask[a].from)}, !.to = "enrolled"])
            /\ review' = [review EXCEPT ![r] =
                            [NoReview EXCEPT !.write = "approved", !.ask = a,
                                             !.seen = courseStatus[ask[a].course],
                                             !.max = maxStudents[ask[a].course]]]
            /\ ask' = ask
  BY DEF approve_request
<1>2. ask[a].from \in Rows /\ ask[a].course \in Courses
  BY <1>1 DEF RenewalsTypeOK
<1>3. QED
  BY <1>1, <1>2, RowParts

LEMMA ApprovalIsCreate ==
  ASSUME RenewalsTypeOK, NEW r \in Requests, approve_request(r)
  PROVE  create_enrollment(r)
BY ApprovalArrives, RenewalsAssumption DEF create_enrollment

-----------------------------------------------------------------------------
(* A renewal step is a step of Seats, or keeps its variables, or goes       *)
(* through open_enrollment with the course row that the approval read.      *)

SeatSide(r) ==
    \/ UNCHANGED vars
    \/ Arrive(r) \/ Step(r)
    \/ Approving(r) /\ open_enrollment(r, review[r].seen, review[r].max, {FALSE})

LEMMA RenewalSeatSide ==
  ASSUME RenewalsTypeOK, NEW r \in Requests, Renew(r) \/ Elsewhere(r)
  PROVE  SeatSide(r)
<1>1. ASSUME CommitApproval(r) PROVE Step(r)
  <2>1. tx[r] # NoTx
    BY <1>1 DEF CommitApproval, NoTx
  <2>2. QED
    BY <1>1, <2>1 DEF CommitApproval, Step, Finish, Fail
<1>2. ASSUME ApprovalCountsStudents(r) \/ ApprovalFails(r) PROVE Step(r)
  BY <1>2 DEF ApprovalCountsStudents, ApprovalFails, Step, TakeLock
<1>3. ASSUME ApprovalTakesSeat(r) PROVE SeatSide(r)
  BY <1>3 DEF ApprovalTakesSeat, SeatSide
<1>4. ASSUME approve_request(r) PROVE Arrive(r)
  BY <1>4, ApprovalIsCreate DEF Arrive
<1>5. ASSUME \/ request_renewal(r) \/ CommitRequest(r) \/ CommitDecision(r)
             \/ withdraw_request(r) \/ reject_request(r)
      PROVE UNCHANGED vars
  BY <1>5 DEF request_renewal, CommitRequest, CommitDecision, withdraw_request, reject_request,
     Judge
<1>6. ASSUME Elsewhere(r) PROVE Arrive(r) \/ Step(r)
  BY <1>6 DEF Elsewhere
<1>7. QED
  BY <1>1, <1>2, <1>3, <1>4, <1>5, <1>6 DEF Renew, SeatSide

\* Its effect on what every other request knows, and on the rows inserted.
LEMMA SeatSideFrame ==
  ASSUME RenewalsTypeOK, NEW r \in Requests, SeatSide(r)
  PROVE  /\ TypeOK'
         /\ \A q \in Requests \ {r} : tx'[q] = tx[q]
         /\ \A e \in Rows : status[e] # "unborn" => status'[e] # "unborn"
<1>1. TypeOK
  BY DEF RenewalsTypeOK
<1>2. CASE UNCHANGED vars
  BY <1>1, <1>2 DEF vars, tables, locks, TypeOK
<1>3. CASE Arrive(r) \/ Step(r)
  BY <1>1, <1>3, ElsewhereType, OthersKept, StaysBorn
<1>4. CASE open_enrollment(r, review[r].seen, review[r].max, {FALSE})
  BY <1>1, <1>4, DoorType, DoorFrame DEF tables
<1>5. QED
  BY <1>2, <1>3, <1>4 DEF SeatSide

-----------------------------------------------------------------------------
(* Type correctness.                                                       *)

AskType ==
    /\ ask \in [Asks -> AskRows]
    /\ \A a \in Asks : ask[a].status # "unborn" => ask[a].from \in Rows /\ ask[a].course \in Courses

ReviewType ==
    /\ review \in [Requests -> Reviews]
    /\ \A r \in Requests :
        /\ review[r].write = "pending" => review[r].from \in Rows /\ review[r].course \in Courses
        /\ review[r].write \notin {"none", "pending"} => review[r].ask \in Asks

LEMMA TypeParts == RenewalsTypeOK <=> TypeOK /\ AskType /\ ReviewType
BY DEF RenewalsTypeOK, AskType, ReviewType

LEMMA TypePartsNext == RenewalsTypeOK' <=> TypeOK' /\ AskType' /\ ReviewType'
BY DEF RenewalsTypeOK, AskType, ReviewType

LEMMA NoReviewType ==
  /\ NoReview \in Reviews
  /\ NoReview.write = "none"
BY DEF NoReview, Reviews

\* Ending a handler, or letting it go on, keeps the types of the reviews.
LEMMA ReviewEnds ==
  ASSUME ReviewType, NEW r \in Requests,
         review' = [review EXCEPT ![r] = NoReview] \/ ReviewGoesOn(r) \/ UNCHANGED review
  PROVE  ReviewType'
BY NoReviewType DEF ReviewType, ReviewGoesOn

\* Writing a status of its own on a request that was made keeps the types.
LEMMA AskWritten ==
  ASSUME AskType, NEW a \in Asks, NEW st \in ProposalStatus \cup {"deleted"},
         ask[a].status # "unborn", ask' = [ask EXCEPT ![a].status = st]
  PROVE  AskType'
BY DEF AskType, AskRows, ProposalStatus

\* So does the cascade of a deleted matricula or course.
LEMMA AskCascade ==
  ASSUME AskType, ask' = Cascade
  PROVE  AskType'
BY DEF AskType, AskRows, Cascade, ProposalStatus

LEMMA RenewalType ==
  ASSUME RenewalsTypeOK, NEW r \in Requests, Renew(r) \/ Elsewhere(r), ReviewTied
  PROVE  RenewalsTypeOK'
<1>1. TypeOK /\ AskType /\ ReviewType
  BY TypeParts
<1>2. TypeOK'
  BY RenewalSeatSide, SeatSideFrame
<1>3. UNCHANGED ask => AskType'
  BY <1>1 DEF AskType
<1>4. CASE request_renewal(r)
  <2>1. PICK e \in Rows, c \in Courses :
            review' = [review EXCEPT ![r] = [NoReview EXCEPT !.write = "pending",
                                                             !.from = e, !.course = c]]
    BY <1>4 DEF request_renewal
  <2>2. ReviewType'
    BY <1>1, <2>1 DEF ReviewType, NoReview, Reviews, ProposalStatus
  <2>3. QED
    BY <1>2, <1>3, <1>4, <2>2, TypePartsNext DEF request_renewal
<1>5. CASE CommitRequest(r)
  <2>1. review[r].from \in Rows /\ review[r].course \in Courses
    BY <1>1, <1>5 DEF CommitRequest, ReviewType
  <2>2. AskType'
    BY <1>1, <1>3, <1>5, <2>1 DEF CommitRequest, AskType, AskRows, NewAsks, ProposalStatus
  <2>3. QED
    BY <1>1, <1>2, <1>5, <2>2, ReviewEnds, TypePartsNext DEF CommitRequest
<1>6. CASE withdraw_request(r) \/ reject_request(r)
  <2>1. PICK a \in Asks, decision \in {"deleted", "rejected"} : Judge(r, a, decision)
    BY <1>6 DEF withdraw_request, reject_request
  <2>2. ReviewType'
    BY <1>1, <2>1 DEF Judge, ReviewType, NoReview, Reviews, ProposalStatus
  <2>3. QED
    BY <1>2, <1>3, <2>1, <2>2, TypePartsNext DEF Judge
<1>7. CASE CommitDecision(r)
  <2>1. /\ review[r].ask \in Asks /\ ask[review[r].ask].status # "unborn"
        /\ review[r].write \in ProposalStatus \cup {"deleted"}
    BY <1>1, <1>7 DEF CommitDecision, ReviewType, ProposalStatus, ReviewTied
  <2>2. AskType'
    BY <1>1, <1>3, <1>7, <2>1, AskWritten DEF CommitDecision
  <2>3. QED
    BY <1>1, <1>2, <1>7, <2>2, ReviewEnds, TypePartsNext DEF CommitDecision
<1>8. CASE approve_request(r)
  <2>1. PICK a \in Asks :
            /\ ask[a].course \in Courses
            /\ review' = [review EXCEPT ![r] =
                            [NoReview EXCEPT !.write = "approved", !.ask = a,
                                             !.seen = courseStatus[ask[a].course],
                                             !.max = maxStudents[ask[a].course]]]
            /\ ask' = ask
    BY <1>8, ApprovalArrives
  <2>2. courseStatus[ask[a].course] \in CourseStatus \cup {"deleted"} /\ maxStudents[ask[a].course] \in Nat
    BY <1>1, <2>1 DEF TypeOK
  <2>3. ReviewType'
    BY <1>1, <2>1, <2>2 DEF ReviewType, NoReview, Reviews, ProposalStatus
  <2>4. QED
    BY <1>2, <1>3, <2>1, <2>3, TypePartsNext
<1>9. CASE ApprovalCountsStudents(r) \/ ApprovalTakesSeat(r) \/ ApprovalFails(r)
  BY <1>1, <1>2, <1>3, <1>9, ReviewEnds, TypePartsNext
     DEF ApprovalCountsStudents, ApprovalTakesSeat, ApprovalFails
<1>10. CASE CommitApproval(r)
  <2>1. review[r].ask \in Asks /\ ask[review[r].ask].status # "unborn"
    BY <1>1, <1>10 DEF CommitApproval, Approving, ReviewType, ReviewTied
  <2>2. AskType'
    BY <1>1, <1>3, <1>10, <2>1, AskWritten DEF CommitApproval, ProposalStatus
  <2>3. QED
    BY <1>1, <1>2, <1>10, <2>2, ReviewEnds, TypePartsNext DEF CommitApproval
<1>11. CASE Elsewhere(r)
  BY <1>1, <1>2, <1>11, AskCascade, ReviewEnds, TypePartsNext DEF Elsewhere
<1>12. QED
  BY <1>4, <1>5, <1>6, <1>7, <1>8, <1>9, <1>10, <1>11 DEF Renew

-----------------------------------------------------------------------------
(* What a renewal names does not change, and a decision is about a request  *)
(* that was made.                                                          *)

\* Once made, a request keeps its matricula and its course.
LEMMA AskKept ==
  ASSUME RenewalsTypeOK, ReviewTied, NEW r \in Requests, Renew(r) \/ Elsewhere(r),
         NEW a \in Asks, ask[a].status # "unborn"
  PROVE  /\ ask'[a].status # "unborn"
         /\ ask'[a].from = ask[a].from
         /\ ask'[a].course = ask[a].course
<1>1. /\ ask \in [Asks -> AskRows]
      /\ ReviewType
  BY TypeParts DEF RenewalsTypeOK
<1>2. CASE CommitRequest(r)
  BY <1>1, <1>2 DEF CommitRequest, NewAsks
<1>3. CASE CommitDecision(r)
  BY <1>1, <1>3 DEF CommitDecision, AskRows, ReviewType
<1>4. CASE CommitApproval(r)
  BY <1>1, <1>4 DEF CommitApproval, AskRows
<1>5. CASE Elsewhere(r)
  BY <1>1, <1>5 DEF Elsewhere, Cascade, AskRows
<1>6. CASE approve_request(r)
  BY <1>6, ApprovalArrives
<1>7. CASE \/ request_renewal(r) \/ withdraw_request(r) \/ reject_request(r)
           \/ ApprovalCountsStudents(r) \/ ApprovalTakesSeat(r) \/ ApprovalFails(r)
  BY <1>7 DEF request_renewal, withdraw_request, reject_request, Judge, ApprovalCountsStudents,
     ApprovalTakesSeat, ApprovalFails
<1>8. QED
  BY <1>2, <1>3, <1>4, <1>5, <1>6, <1>7 DEF Renew

\* A step of r leaves the reviews of the others alone; of its own it keeps the
\* review, drops it, or has just read a request to judge, or a wish to make.
LEMMA ReviewStep ==
  ASSUME RenewalsTypeOK, NEW r \in Requests, Renew(r) \/ Elsewhere(r)
  PROVE  /\ \A q \in Requests \ {r} : review'[q] = review[q]
         /\ \/ review'[r] = review[r]
            \/ review'[r] = NoReview
            \/ review'[r].write = "pending"
            \/ \E a \in Asks : ask[a].status = "pending" /\ review'[r].ask = a /\ ask' = ask
<1>1. review \in [Requests -> Reviews]
  BY DEF RenewalsTypeOK
<1>2. CASE request_renewal(r)
  <2>1. PICK e \in Rows, c \in Courses :
            review' = [review EXCEPT ![r] = [NoReview EXCEPT !.write = "pending",
                                                             !.from = e, !.course = c]]
    BY <1>2 DEF request_renewal
  <2>2. QED
    BY <1>1, <2>1 DEF NoReview
<1>3. CASE withdraw_request(r) \/ reject_request(r)
  <2>1. PICK a \in Asks, decision \in {"deleted", "rejected"} : Judge(r, a, decision)
    BY <1>3 DEF withdraw_request, reject_request
  <2>2. QED
    BY <1>1, <2>1 DEF Judge, NoReview
<1>4. CASE approve_request(r)
  <2>1. PICK a \in Asks :
            /\ ask[a].status = "pending"
            /\ review' = [review EXCEPT ![r] =
                            [NoReview EXCEPT !.write = "approved", !.ask = a,
                                             !.seen = courseStatus[ask[a].course],
                                             !.max = maxStudents[ask[a].course]]]
            /\ ask' = ask
    BY <1>4, ApprovalArrives
  <2>2. QED
    BY <1>1, <2>1 DEF NoReview
<1>5. CASE ApprovalCountsStudents(r) \/ ApprovalTakesSeat(r) \/ ApprovalFails(r)
  BY <1>1, <1>5 DEF ApprovalCountsStudents, ApprovalTakesSeat, ApprovalFails, ReviewGoesOn
<1>6. CASE CommitRequest(r) \/ CommitDecision(r) \/ CommitApproval(r)
  BY <1>1, <1>6 DEF CommitRequest, CommitDecision, CommitApproval
<1>7. CASE Elsewhere(r)
  BY <1>7 DEF Elsewhere
<1>8. QED
  BY <1>2, <1>3, <1>4, <1>5, <1>6, <1>7 DEF Renew

LEMMA ReviewTiedStep ==
  ASSUME RenewalsTypeOK, ReviewTied, NEW r \in Requests, Renew(r) \/ Elsewhere(r)
  PROVE  ReviewTied'
<1> SUFFICES ASSUME NEW q \in Requests, review'[q].write \notin {"none", "pending"}
             PROVE  ask'[review'[q].ask].status # "unborn"
  BY DEF ReviewTied
<1>1. CASE review'[q] = review[q]
  <2>1. review[q].ask \in Asks /\ ask[review[q].ask].status # "unborn"
    BY <1>1 DEF ReviewTied, RenewalsTypeOK
  <2>2. QED
    BY <1>1, <2>1, AskKept
<1>2. CASE q = r
  BY <1>1, <1>2, ReviewStep, NoReviewType
<1>3. QED
  BY <1>1, <1>2, ReviewStep

\* Whatever renewals and enrollments do, every request names its matricula and
\* its course, and every decision is about a request that was made.
THEOREM RenewalsTypeCorrect == RenewalsSpec => [](RenewalsTypeOK /\ ReviewTied)
<1>1. RenewalsInit => RenewalsTypeOK /\ ReviewTied
  <2>1. Init => TypeOK
    BY SeatsAssumption
       DEF Init, TypeOK, RowStatus, CourseStatus, NoTx, Transactions, Points, SeatEndpoints
  <2>2. RenewalsInit => AskType /\ ReviewType /\ ReviewTied
    BY NoReviewType DEF RenewalsInit, AskType, AskRows, Unasked, ReviewType, ReviewTied
  <2>3. QED
    BY <2>1, <2>2, TypeParts DEF RenewalsInit
<1>2. RenewalsTypeOK /\ ReviewTied /\ [RenewalsNext]_renewalVars => (RenewalsTypeOK /\ ReviewTied)'
  <2>1. ASSUME RenewalsTypeOK, ReviewTied, NEW r \in Requests, Renew(r) \/ Elsewhere(r)
        PROVE  RenewalsTypeOK' /\ ReviewTied'
    BY <2>1, RenewalType, ReviewTiedStep
  <2>2. ASSUME RenewalsTypeOK, ReviewTied, UNCHANGED renewalVars
        PROVE  RenewalsTypeOK' /\ ReviewTied'
    <3>1. TypeOK'
      BY <2>2 DEF RenewalsTypeOK, TypeOK, renewalVars, vars, tables, locks
    <3>2. AskType' /\ ReviewType' /\ ReviewTied'
      BY <2>2, TypeParts DEF AskType, ReviewType, ReviewTied, renewalVars
    <3>3. QED
      BY <3>1, <3>2, TypePartsNext
  <2>3. QED
    BY <2>1, <2>2 DEF RenewalsNext
<1>3. QED
  BY <1>1, <1>2, PTL DEF RenewalsSpec

-----------------------------------------------------------------------------
(* One pending request for each matricula.                                 *)

\* Only the commit of a tap makes a request pending.
LEMMA PendingStep ==
  ASSUME RenewalsTypeOK, ReviewTied, OnePending, NEW r \in Requests, Renew(r) \/ Elsewhere(r)
  PROVE  OnePending'
<1>1. /\ ask \in [Asks -> AskRows]
      /\ ReviewType
  BY TypeParts DEF RenewalsTypeOK
<1> DEFINE Calm == \A a \in Asks : ask'[a].status = "pending" => ask'[a] = ask[a]
<1>2. Calm => OnePending'
  BY DEF OnePending
<1>3. CASE CommitRequest(r)
  <2>1. CASE UNCHANGED ask
    BY <1>2, <2>1
  <2>2. CASE TapAccepted(r) /\ \E a \in NewAsks :
                ask' = [ask EXCEPT ![a] = [status |-> "pending", from |-> review[r].from,
                                           course |-> review[r].course]]
    BY <1>1, <2>2 DEF TapAccepted, PendingFrom, OnePending, NewAsks
  <2>3. QED
    BY <1>3, <2>1, <2>2 DEF CommitRequest
<1>4. CASE CommitDecision(r)
  BY <1>1, <1>2, <1>4 DEF CommitDecision, AskRows, ReviewType
<1>5. CASE CommitApproval(r)
  BY <1>1, <1>2, <1>5 DEF CommitApproval, AskRows
<1>6. CASE Elsewhere(r)
  BY <1>1, <1>2, <1>6 DEF Elsewhere, Cascade, AskRows
<1>7. CASE approve_request(r)
  BY <1>2, <1>7, ApprovalArrives
<1>8. CASE \/ request_renewal(r) \/ withdraw_request(r) \/ reject_request(r)
           \/ ApprovalCountsStudents(r) \/ ApprovalTakesSeat(r) \/ ApprovalFails(r)
  BY <1>2, <1>8 DEF request_renewal, withdraw_request, reject_request, Judge,
     ApprovalCountsStudents, ApprovalTakesSeat, ApprovalFails
<1>9. QED
  BY <1>3, <1>4, <1>5, <1>6, <1>7, <1>8 DEF Renew

\* However many taps race, a matricula never has two pending requests.
THEOREM OnePendingRequest == RenewalsSpec => []OnePending
<1>1. RenewalsInit => OnePending
  BY DEF RenewalsInit, Unasked, OnePending
<1>2. RenewalsTypeOK /\ ReviewTied /\ OnePending /\ [RenewalsNext]_renewalVars => OnePending'
  <2>1. OnePending /\ UNCHANGED renewalVars => OnePending'
    BY DEF OnePending, renewalVars
  <2>2. QED
    BY <2>1, PendingStep DEF RenewalsNext
<1>3. QED
  BY <1>1, <1>2, RenewalsTypeCorrect, PTL DEF RenewalsSpec

-----------------------------------------------------------------------------
(* An approval stands at the door with the student and the course asked for. *)

\* Until it commits, a transaction keeps its endpoint, course and student, and
\* may only add the row it found.
LEMMA QuotaKeepsTx ==
  ASSUME TypeOK, NEW r \in Requests, check_tenant_student_quota(r), tx'[r] # NoTx
  PROVE  /\ tx'[r].op = tx[r].op
         /\ tx'[r].course = tx[r].course
         /\ tx'[r].students = tx[r].students
         /\ tx'[r].writes = tx[r].writes
<1>1. Rollback(r) => tx'[r] = NoTx
  BY DEF Rollback, End, TypeOK
<1>2. QED
  BY <1>1 DEF check_tenant_student_quota, TypeOK, Transactions

TiedBy(q) ==
    Approving(q) =>
        LET asked == ask[review[q].ask] IN
        /\ tx[q].op = "create_enrollment"
        /\ tx[q].course = asked.course
        /\ tx[q].students = {StudentOf(asked.from)}
        /\ \A e \in tx[q].writes : StudentOf(e) = StudentOf(asked.from) /\ CourseOf(e) = asked.course

LEMMA ApprovalTiedStep ==
  ASSUME RenewalsTypeOK, ReviewTied, ApprovalTied, NEW r \in Requests, Renew(r) \/ Elsewhere(r)
  PROVE  ApprovalTied'
<1> SUFFICES ASSUME NEW q \in Requests PROVE TiedBy(q)'
  BY DEF ApprovalTied, TiedBy, Approving
<1>1. TypeOK /\ ReviewType /\ TiedBy(q) /\ TiedBy(r)
  BY TypeParts DEF ApprovalTied, TiedBy
<1>2. ASSUME Approving(q), review'[q] = review[q]
      PROVE  /\ ask'[review'[q].ask].from = ask[review[q].ask].from
             /\ ask'[review'[q].ask].course = ask[review[q].ask].course
  <2>1. review[q].ask \in Asks /\ ask[review[q].ask].status # "unborn"
    BY <1>1, <1>2 DEF ReviewType, Approving, ReviewTied
  <2>2. QED
    BY <1>2, <2>1, AskKept
<1>3. CASE q # r
  <2>1. tx'[q] = tx[q] /\ review'[q] = review[q]
    BY <1>3, RenewalSeatSide, SeatSideFrame, ReviewStep
  <2>2. Approving(q)' = Approving(q)
    BY <2>1 DEF Approving
  <2>3. QED
    BY <1>1, <1>2, <2>1, <2>2 DEF TiedBy
<1>4. CASE q = r /\ approve_request(r)
  <2>1. PICK a \in Asks :
            /\ Begin(r, [NoTx EXCEPT !.op = "create_enrollment", !.at = FirstLock(r),
                                     !.course = ask[a].course,
                                     !.students = {StudentOf(ask[a].from)}, !.to = "enrolled"])
            /\ review' = [review EXCEPT ![r] =
                            [NoReview EXCEPT !.write = "approved", !.ask = a,
                                             !.seen = courseStatus[ask[a].course],
                                             !.max = maxStudents[ask[a].course]]]
            /\ ask' = ask
    BY <1>4, ApprovalArrives
  <2>2. review'[r].ask = a
    BY <1>1, <2>1 DEF ReviewType, NoReview
  <2>3. /\ tx'[r].op = "create_enrollment"
        /\ tx'[r].course = ask[a].course
        /\ tx'[r].students = {StudentOf(ask[a].from)}
        /\ tx'[r].writes = {}
    BY <1>1, <2>1 DEF Begin, TypeOK, NoTx
  <2>4. QED
    BY <1>4, <2>1, <2>2, <2>3 DEF TiedBy
<1>5. CASE q = r /\ (ApprovalCountsStudents(r) \/ ApprovalTakesSeat(r) \/ ApprovalFails(r))
  <2>1. Approving(r) /\ ReviewGoesOn(r)
    BY <1>5 DEF ApprovalCountsStudents, ApprovalTakesSeat, ApprovalFails
  <2>2. CASE tx'[r] = NoTx
    BY <1>1, <1>5, <2>1, <2>2, NoReviewType DEF ReviewGoesOn, TiedBy, Approving, ReviewType
  <2>3. CASE tx'[r] # NoTx
    <3>1. review'[r] = review[r]
      BY <1>1, <2>1, <2>3 DEF ReviewGoesOn, ReviewType
    <3>2. ~Fail(r)
      BY <1>1, <2>3 DEF Fail, Rollback, End, TypeOK
    <3>3. /\ tx'[r].op = tx[r].op
          /\ tx'[r].course = tx[r].course
          /\ tx'[r].students = tx[r].students
          /\ \A e \in tx'[r].writes : \/ e \in tx[r].writes
                                      \/ StudentOf(e) \in tx[r].students /\ CourseOf(e) = tx[r].course
      BY <1>1, <1>5, <2>3, <3>2, QuotaKeepsTx, DoorRow
         DEF ApprovalCountsStudents, ApprovalTakesSeat, ApprovalFails
    <3>4. QED
      BY <1>1, <1>2, <1>5, <2>1, <3>1, <3>3 DEF TiedBy
  <2>4. QED
    BY <2>2, <2>3
<1>6. CASE q = r /\ (CommitApproval(r) \/ CommitRequest(r) \/ CommitDecision(r))
  BY <1>1, <1>6, NoReviewType
     DEF CommitApproval, CommitRequest, CommitDecision, TiedBy, Approving, ReviewType
<1>7. CASE q = r /\ Elsewhere(r)
  BY <1>7, NoReviewType DEF Elsewhere, TiedBy, Approving
<1>8. CASE q = r /\ request_renewal(r)
  <2>1. review'[r].write = "pending"
    BY <1>1, <1>8 DEF request_renewal, ReviewType, NoReview
  <2>2. QED
    BY <1>8, <2>1 DEF TiedBy, Approving
<1>9. CASE q = r /\ (withdraw_request(r) \/ reject_request(r))
  <2>1. review'[r].write \in {"deleted", "rejected"}
    BY <1>1, <1>9 DEF withdraw_request, reject_request, Judge, ReviewType, NoReview
  <2>2. QED
    BY <1>9, <2>1 DEF TiedBy, Approving
<1>10. QED
  BY <1>3, <1>4, <1>5, <1>6, <1>7, <1>8, <1>9 DEF Renew

LEMMA ApprovalTiedAlways == RenewalsSpec => []ApprovalTied
<1>1. RenewalsInit => ApprovalTied
  BY NoReviewType DEF RenewalsInit, ApprovalTied, Approving
<1>2. RenewalsTypeOK /\ ReviewTied /\ ApprovalTied /\ [RenewalsNext]_renewalVars => ApprovalTied'
  <2>1. ApprovalTied /\ UNCHANGED renewalVars => ApprovalTied'
    BY DEF ApprovalTied, Approving, renewalVars, vars
  <2>2. QED
    BY <2>1, ApprovalTiedStep DEF RenewalsNext
<1>3. QED
  BY <1>1, <1>2, RenewalsTypeCorrect, PTL DEF RenewalsSpec

-----------------------------------------------------------------------------
(* An approval and its matricula are committed together.                   *)

SeatedFor(a) ==
    \E e \in Rows : /\ StudentOf(e) = StudentOf(ask[a].from) /\ CourseOf(e) = ask[a].course
                    /\ status[e] # "unborn"

\* The commit of an approval that wrote something inserted its matricula.
LEMMA ApprovalSeats ==
  ASSUME RenewalsTypeOK, ReviewTied, ApprovalTied, NEW r \in Requests, CommitApproval(r),
         status' # status
  PROVE  \E e \in Rows : /\ StudentOf(e) = StudentOf(ask[review[r].ask].from)
                         /\ CourseOf(e) = ask[review[r].ask].course
                         /\ status'[e] # "unborn"
<1>1. TypeOK
  BY DEF RenewalsTypeOK
<1>2. Approving(r) /\ CommitEnrollments(r) /\ ~Rollback(r)
  BY DEF CommitApproval, Rollback, tables
<1>3. status' = [e \in Rows |-> IF e \in tx[r].writes THEN tx[r].to ELSE status[e]]
  BY <1>2 DEF CommitEnrollments
<1>4. PICK e \in Rows : status'[e] # status[e]
  BY <1>1, <1>3 DEF TypeOK
<1>5. e \in tx[r].writes /\ status'[e] = tx[r].to
  BY <1>3, <1>4
<1>6. tx[r].to \in EnrollmentStatus
  BY <1>1, <1>2 DEF CommitEnrollments, TypeOK
<1>7. QED
  BY <1>2, <1>5, <1>6 DEF ApprovalTied, EnrollmentStatus

LEMMA SeatedStep ==
  ASSUME RenewalsTypeOK, ReviewTied, ApprovalTied, ApprovedIsSeated,
         NEW r \in Requests, Renew(r) \/ Elsewhere(r)
  PROVE  ApprovedIsSeated'
<1>1. /\ ask \in [Asks -> AskRows]
      /\ ReviewType
  BY TypeParts DEF RenewalsTypeOK
<1> SUFFICES ASSUME NEW a \in Asks, ask'[a].status = "approved"
             PROVE  SeatedFor(a)'
  BY DEF ApprovedIsSeated, SeatedFor
<1>2. CASE ask[a].status = "approved"
  <2>1. PICK e \in Rows : /\ StudentOf(e) = StudentOf(ask[a].from) /\ CourseOf(e) = ask[a].course
                          /\ status[e] # "unborn"
    BY <1>2 DEF ApprovedIsSeated
  <2>2. status'[e] # "unborn"
    BY <2>1, RenewalSeatSide, SeatSideFrame
  <2>3. ask'[a].from = ask[a].from /\ ask'[a].course = ask[a].course
    BY <1>2, AskKept
  <2>4. QED
    BY <2>1, <2>2, <2>3 DEF SeatedFor
<1>3. CASE ask[a].status # "approved"
  <2>1. ~UNCHANGED ask
    BY <1>3
  <2>2. ~CommitRequest(r)
    BY <1>1, <1>3, <2>1 DEF CommitRequest, NewAsks
  <2>3. ~CommitDecision(r)
    BY <1>1, <1>3, <2>1 DEF CommitDecision, AskRows, ReviewType
  <2>4. ~Elsewhere(r)
    BY <1>1, <1>3 DEF Elsewhere, Cascade, AskRows
  <2>5. ~approve_request(r)
    BY <2>1, ApprovalArrives
  <2>6. CommitApproval(r)
    BY <2>1, <2>2, <2>3, <2>4, <2>5 DEF Renew, request_renewal, withdraw_request, reject_request,
       Judge, ApprovalCountsStudents, ApprovalTakesSeat, ApprovalFails
  <2>7. status' # status /\ ask' = [ask EXCEPT ![review[r].ask].status = "approved"]
    BY <2>1, <2>6 DEF CommitApproval
  <2>8. review[r].ask \in Asks /\ a = review[r].ask
    BY <1>1, <1>3, <2>6, <2>7 DEF CommitApproval, Approving, ReviewType
  <2>9. ask'[a].from = ask[a].from /\ ask'[a].course = ask[a].course
    BY <1>1, <2>7, <2>8 DEF AskRows
  <2>10. QED
    BY <2>6, <2>7, <2>8, <2>9, ApprovalSeats DEF SeatedFor
<1>4. QED
  BY <1>2, <1>3

\* Whoever was told of an approval has, or had, a matricula in the course,
\* whatever other decisions raced with it.
THEOREM ApprovalsAreSeated == RenewalsSpec => []ApprovedIsSeated
<1>1. RenewalsInit => ApprovedIsSeated
  BY DEF RenewalsInit, Unasked, ApprovedIsSeated
<1>2. /\ RenewalsTypeOK /\ ReviewTied /\ ApprovalTied /\ ApprovedIsSeated
      /\ [RenewalsNext]_renewalVars
      => ApprovedIsSeated'
  <2>1. ApprovedIsSeated /\ UNCHANGED renewalVars => ApprovedIsSeated'
    BY DEF ApprovedIsSeated, renewalVars, vars, tables
  <2>2. QED
    BY <2>1, SeatedStep DEF RenewalsNext
<1>3. QED
  BY <1>1, <1>2, RenewalsTypeCorrect, ApprovalTiedAlways, PTL DEF RenewalsSpec

-----------------------------------------------------------------------------
(* While no course changes, a renewal is an ordinary enrolment.            *)

CourseEndpoints == {"update_course", "change_course_status", "delete_course"}

\* A step of a request that edits no course leaves the catalogue as it is.
LEMMA CatalogueFixed ==
  ASSUME NEW r \in Requests, Arrive(r) \/ Step(r), tx[r].op \notin CourseEndpoints
  PROVE  UNCHANGED <<courseStatus, maxStudents>>
<1>1. Rollback(r) => UNCHANGED <<courseStatus, maxStudents>>
  BY DEF Rollback, tables
<1>2. ASSUME Arrive(r) PROVE UNCHANGED <<courseStatus, maxStudents>>
  BY <1>2 DEF Arrive, create_enrollment, update_enrollment, bulk_enroll, delete_enrollment,
     create_grade, update_course, change_course_status, delete_course, activate_plan,
     update_tenant, Begin, tables
<1>3. ASSUME TakeLock(r) PROVE UNCHANGED <<courseStatus, maxStudents>>
  BY <1>1, <1>3 DEF TakeLock, check_tenant_student_quota, OpenEnrollment, open_enrollment,
     ReactivateEnrollment, BulkLockCourse, BulkSeat, tables
<1>4. ASSUME Finish(r) \/ Fail(r) PROVE UNCHANGED <<courseStatus, maxStudents>>
  BY <1>1, <1>4 DEF Finish, Fail, BulkDone, CommitEnrollments, CommitDeleteEnrollment,
     CommitUpdateCourse, CommitCourseStatus, CommitDeleteCourse, CommitTenant, tables,
     CourseEndpoints
<1>5. QED
  BY <1>2, <1>3, <1>4 DEF Step

\* A transaction belongs to the endpoint that began it, one of those in play.
LEMMA OpStep ==
  ASSUME TypeOK, NEW r \in Requests, Arrive(r) \/ Step(r), tx[r].op \in Endpoints \cup {"none"}
  PROVE  tx'[r].op \in Endpoints \cup {"none"}
<1>1. End(r) => tx'[r].op \in Endpoints \cup {"none"}
  BY DEF End, TypeOK, NoTx
<1>2. ASSUME NEW t, Begin(r, t) PROVE tx'[r].op \in Endpoints \cup {"none"}
  BY <1>2 DEF Begin, TypeOK
<1>3. ASSUME Arrive(r) PROVE tx'[r].op \in Endpoints \cup {"none"}
  BY <1>2, <1>3 DEF Arrive, create_enrollment, update_enrollment, bulk_enroll, delete_enrollment,
     create_grade, update_course, change_course_status, delete_course, activate_plan,
     update_tenant
<1>4. ASSUME TakeLock(r) PROVE tx'[r].op \in Endpoints \cup {"none"}
  <2> USE DEF TypeOK, Transactions, Rollback
  <2>1. CASE check_tenant_student_quota(r)
    BY <1>1, <2>1 DEF check_tenant_student_quota
  <2>2. CASE OpenEnrollment(r)
    BY <1>1, <2>2 DEF OpenEnrollment, open_enrollment
  <2>3. CASE ReactivateEnrollment(r)
    BY <1>1, <2>3 DEF ReactivateEnrollment
  <2>4. CASE BulkLockCourse(r)
    BY <1>1, <2>4 DEF BulkLockCourse
  <2>5. CASE BulkSeat(r)
    <3>1. ASSUME NEW s, NEW e,
                 tx' = [tx EXCEPT ![r].students = @ \ {s}, ![r].writes = @ \cup {e}, ![r].taken = @ + 1]
          PROVE  tx'[r].op = tx[r].op
      BY <3>1 DEF TypeOK, Transactions
    <3>2. ASSUME NEW s, tx' = [tx EXCEPT ![r].students = @ \ {s}]
          PROVE  tx'[r].op = tx[r].op
      BY <3>2 DEF TypeOK, Transactions
    <3>3. QED
      BY ONLY <2>5, <3>1, <3>2, tx[r].op \in Endpoints \cup {"none"} DEF BulkSeat
  <2>6. QED
    BY <1>4, <2>1, <2>2, <2>3, <2>4, <2>5 DEF TakeLock
<1>5. ASSUME Finish(r) \/ Fail(r) PROVE tx'[r].op \in Endpoints \cup {"none"}
  BY <1>1, <1>5 DEF Finish, Fail, BulkDone, CommitEnrollments, CommitDeleteEnrollment,
     CommitUpdateCourse, CommitCourseStatus, CommitDeleteCourse, CommitTenant, Rollback, TypeOK,
     Transactions
<1>6. QED
  BY <1>3, <1>4, <1>5 DEF Step

\* With the catalogue closed, an approval sees the course as it is.
LEMMA CourseSeenStep ==
  ASSUME RenewalsTypeOK, ReviewTied, ApprovalTied, CourseSeen, CatalogueClosed,
         NEW r \in Requests, Renew(r) \/ Elsewhere(r)
  PROVE  CourseSeen'
<1>1. TypeOK /\ ReviewType
  BY TypeParts
<1>2. tx[r].op \notin CourseEndpoints /\ tx[r].op \in Endpoints \cup {"none"}
  BY DEF CourseSeen, CatalogueClosed, CourseEndpoints
<1>3. SeatSide(r) /\ TypeOK'
  BY RenewalSeatSide, SeatSideFrame
<1>4. UNCHANGED <<courseStatus, maxStudents>>
  <2>1. CASE UNCHANGED vars
    BY <2>1 DEF vars, tables
  <2>2. CASE Arrive(r) \/ Step(r)
    BY <1>2, <2>2, CatalogueFixed
  <2>3. CASE open_enrollment(r, review[r].seen, review[r].max, {FALSE})
    BY <1>1, <2>3, DoorFrame DEF tables
  <2>4. QED
    BY <1>3, <2>1, <2>2, <2>3 DEF SeatSide
<1>5. tx'[r].op \in Endpoints \cup {"none"}
  <2>1. CASE UNCHANGED vars
    BY <1>2, <2>1 DEF vars
  <2>2. CASE Arrive(r) \/ Step(r)
    BY <1>1, <1>2, <2>2, OpStep
  <2>3. CASE open_enrollment(r, review[r].seen, review[r].max, {FALSE})
    <3>1. CASE tx'[r] = NoTx
      BY <3>1 DEF NoTx
    <3>2. CASE tx'[r] # NoTx
      BY <1>1, <1>2, <2>3, <3>2, DoorRow
    <3>3. QED
      BY <3>1, <3>2
  <2>4. QED
    BY <1>3, <2>1, <2>2, <2>3 DEF SeatSide
<1>6. ASSUME NEW q \in Requests, q # r
      PROVE  tx'[q] = tx[q] /\ review'[q] = review[q]
  BY <1>3, <1>6, SeatSideFrame, ReviewStep
<1>7. ASSUME Approving(r)'
      PROVE  /\ review'[r].seen = courseStatus[tx'[r].course]
             /\ review'[r].max = maxStudents[tx'[r].course]
  <2>1. CASE approve_request(r)
    <3>1. PICK a \in Asks :
              /\ Begin(r, [NoTx EXCEPT !.op = "create_enrollment", !.at = FirstLock(r),
                                       !.course = ask[a].course,
                                       !.students = {StudentOf(ask[a].from)}, !.to = "enrolled"])
              /\ review' = [review EXCEPT ![r] =
                              [NoReview EXCEPT !.write = "approved", !.ask = a,
                                               !.seen = courseStatus[ask[a].course],
                                               !.max = maxStudents[ask[a].course]]]
      BY <2>1, ApprovalArrives
    <3>2. tx'[r].course = ask[a].course
      BY <1>1, <3>1 DEF Begin, TypeOK, NoTx
    <3>3. /\ review'[r].seen = courseStatus[ask[a].course]
          /\ review'[r].max = maxStudents[ask[a].course]
      BY <1>1, <3>1 DEF ReviewType, NoReview
    <3>4. QED
      BY <3>2, <3>3
  <2>2. CASE ~approve_request(r)
    <3>1. review'[r] = review[r]
      BY <1>1, <1>7, <2>2, NoReviewType
         DEF Renew, Elsewhere, request_renewal, withdraw_request, reject_request, Judge,
         CommitRequest, CommitDecision, CommitApproval, ApprovalCountsStudents,
         ApprovalTakesSeat, ApprovalFails, ReviewGoesOn, Approving, NoReview, ReviewType
    <3>2. /\ review[r].seen = courseStatus[tx[r].course]
          /\ review[r].max = maxStudents[tx[r].course]
          /\ tx[r].course = ask[review[r].ask].course
          /\ review[r].ask \in Asks /\ ask[review[r].ask].status # "unborn"
      BY <1>1, <1>7, <3>1 DEF Approving, CourseSeen, ApprovalTied, ReviewTied, ReviewType
    <3>3. tx'[r].course = ask'[review[r].ask].course
      BY <1>7, <3>1, ApprovalTiedStep DEF ApprovalTied, Approving
    <3>4. ask'[review[r].ask].course = ask[review[r].ask].course
      BY <3>2, AskKept
    <3>5. QED
      BY <3>1, <3>2, <3>3, <3>4
  <2>3. QED
    BY <2>1, <2>2
<1>8. QED
  BY <1>4, <1>5, <1>6, <1>7 DEF CourseSeen, Approving

\* "It is the one door into a course": with the catalogue closed, a system with
\* renewals does to the matriculas nothing that one without them could not do.
THEOREM RenewalsUseTheDoor ==
  ASSUME CatalogueClosed
  PROVE  RenewalsSpec => OneDoor
<1>1. RenewalsInit => Init /\ CourseSeen
  BY NoReviewType DEF RenewalsInit, Init, CourseSeen, Approving, NoTx
<1>2. /\ RenewalsTypeOK /\ ReviewTied /\ ApprovalTied /\ CourseSeen
      /\ [RenewalsNext]_renewalVars
      => CourseSeen' /\ [Next]_vars
  <2>1. CourseSeen /\ UNCHANGED renewalVars => CourseSeen' /\ UNCHANGED vars
    BY DEF CourseSeen, Approving, renewalVars, vars, tables
  <2>2. ASSUME RenewalsTypeOK, ReviewTied, ApprovalTied, CourseSeen,
               NEW r \in Requests, Renew(r) \/ Elsewhere(r)
        PROVE  [Next]_vars
    <3>1. CASE UNCHANGED vars
      BY <3>1
    <3>2. CASE Arrive(r) \/ Step(r)
      BY <3>2 DEF Next
    <3>3. CASE Approving(r) /\ open_enrollment(r, review[r].seen, review[r].max, {FALSE})
      <4>1. /\ tx[r].op = "create_enrollment"
            /\ open_enrollment(r, courseStatus[tx[r].course], maxStudents[tx[r].course], {FALSE})
        BY <2>2, <3>3 DEF ApprovalTied, CourseSeen
      <4>2. open_enrollment(r, courseStatus[tx[r].course], maxStudents[tx[r].course], Forced)
        BY <4>1, RenewalsAssumption DEF open_enrollment
      <4>3. QED
        BY <4>1, <4>2 DEF OpenEnrollment, TakeLock, Step, Next
    <3>4. QED
      BY <2>2, <3>1, <3>2, <3>3, RenewalSeatSide DEF SeatSide
  <2>3. QED
    BY <2>1, <2>2, CourseSeenStep DEF RenewalsNext
<1>3. QED
  BY <1>1, <1>2, RenewalsTypeCorrect, ApprovalTiedAlways, PTL DEF RenewalsSpec, OneDoor, Spec

=============================================================================
