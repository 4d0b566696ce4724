-------------------------- MODULE ClassroomProofs ---------------------------
(***************************************************************************)
(* Proofs about classes, their registers and make-up passes, for every set *)
(* of matriculas, sessions, passes and concurrent requests; at the end,    *)
(* what a pass promises its owner, and that no class is overbooked.        *)
(***************************************************************************)
EXTENDS Classroom, FiniteSetTheorems, TLAPS

-----------------------------------------------------------------------------
(* Types.                                                                  *)

LEMMA NoTxType == NoTx \in Transactions
<1>1. NoMarks \in MarkRows
  BY DEF NoMarks, MarkRows
<1>2. <<>> \in Items /\ {} \in Issues /\ {} \in DuePasses
  BY DEF Items, Issues, DuePasses
<1>3. QED
  BY <1>1, <1>2 DEF NoTx, Transactions, Work, Points, Statuses

LEMMA NoPassType == NoPass \in PassRows
BY DEF NoPass, PassRows

\* Everything but the bookkeeping.
BodyOK ==
    /\ session \in [Sessions -> SessionRows]
    /\ mark \in [Sessions -> MarkRows]
    /\ pass \in [Passes -> PassRows]
    /\ today \in 0..LastDay
    /\ markLock \in [Sessions -> [Matriculas -> Requests \cup {Nobody}]]
    /\ sessionLock \in [Sessions -> Requests \cup {Nobody}]
    /\ tx \in [Requests -> Transactions]

LEMMA TypeParts == TypeOK <=> BodyOK /\ contested \subseteq Passes
BY DEF TypeOK, BodyOK

LEMMA EndType ==
  ASSUME BodyOK, NEW r \in Requests, End(r)
  PROVE  /\ tx' \in [Requests -> Transactions]
         /\ markLock' \in [Sessions -> [Matriculas -> Requests \cup {Nobody}]]
         /\ sessionLock' \in [Sessions -> Requests \cup {Nobody}]
BY NoTxType DEF BodyOK, End

LEMMA RollbackType ==
  ASSUME BodyOK, NEW r \in Requests, Rollback(r)
  PROVE  BodyOK'
BY EndType DEF BodyOK, Rollback, tables

LEMMA ColumnType ==
  ASSUME NEW S, NEW read, NEW new \in S, NEW current \in S
  PROVE  Column(read, new, current) \in S
BY DEF Column

\* What a request carries fits the row that it will write.
Tied(t) ==
    /\ t.op = "session" => t.x \in Sessions /\ t.to \in SessionStatus
    /\ t.op \in {"marks", "bulk"} => t.x \in Sessions /\ (t.to \in SessionStatus \/ t.to = t.seen)
    /\ t.op = "unmark" => t.x \in Sessions
    /\ t.op = "pass" => t.p \in Passes /\ t.to \in MakeUpStatus
    /\ t.at = "items" => t.op \in {"marks", "bulk"}
    /\ t.at = "lock" => t.op = "pass" /\ t.x \in Sessions

TxTied == \A r \in Requests : Tied(tx[r])

LEMMA NoTxTied == Tied(NoTx)
BY DEF Tied, NoTx

LEMMA EndTied ==
  ASSUME BodyOK, TxTied, NEW r \in Requests, End(r)
  PROVE  TxTied'
BY NoTxTied DEF BodyOK, End, TxTied

-----------------------------------------------------------------------------
(* What a handler knows when it starts.                                    *)

\* No pass handler skips a step of a pass's life.
Legal(t) ==
    \/ t.to = "booked" /\ t.seen \in {"available", "booked"} /\ t.aim \in Sessions
    \/ t.to = "available" /\ t.seen = "booked" /\ t.aim = Nobody
    \/ t.to \in {"attended", "cancelled"} /\ t.seen \in {"booked", "attended"} /\ t.aim = t.was
    \/ t.to = "expired" /\ t.seen \in {"available", "booked"} /\ t.aim = Nobody

PassRead(t) ==
    /\ t.p \in Passes /\ t.due = {}
    /\ Issued(t.p) /\ t.seen = pass[t.p].status /\ t.was = pass[t.p].target
    /\ Legal(t)
    /\ t.to = "expired" => pass[t.p].expires < today
    /\ t.at = "commit" => t.aim \in {Nobody, t.was} /\ t.to # "booked"
    /\ t.at # "commit" => t.at = "lock" /\ t.x = t.aim /\ t.to = "booked"

ListRead(t) ==
    /\ t.p = Nobody
    /\ \A d \in t.due : d[1] \in Passes /\ Due(d[1]) /\ d[2] = pass[d[1]].target

MarksRead(t) ==
    /\ t.p = Nobody /\ t.due = {}
    /\ \/ t.seen = session[t.x].status /\ t.seen \in {"scheduled", "held"} /\ t.to = "held"
       \/ /\ t.seen = "none" /\ t.to = "none" /\ t.items = <<>>
          /\ \A m \in Matriculas : t.writes[m] # "none" => t.known[m] # "none"
    /\ t.op = "marks" /\ t.items # <<>> => Tail(t.items) = <<>> /\ t.known = NoMarks

SessionRead(t) ==
    /\ t.p = Nobody /\ t.due = {}
    /\ t.seen = session[t.x].status
    /\ "update_session" \in Endpoints \/ t.to \in {"held", "cancelled"} \/ t.to = t.seen
    /\ t.register = "close" => t.to = "held" /\ t.seen \in {"scheduled", "held"}

Starts(r, t) ==
    /\ t \in Transactions /\ Tied(t)
    /\ tx[r] = NoTx
    /\ tx' = [tx EXCEPT ![r] = t]
    /\ UNCHANGED <<tables, today, locks>>
    /\ t.issues = {}
    /\ \/ t.op = "pass" /\ PassRead(t)
       \/ t.op = "list" /\ ListRead(t)
       \/ t.op \in {"marks", "bulk"} /\ MarksRead(t)
       \/ t.op = "session" /\ SessionRead(t)
       \/ t.op = "unmark" /\ t.p = Nobody /\ t.due = {}

LEMMA NoTxFields ==
  /\ NoTx.p = Nobody /\ NoTx.due = {} /\ NoTx.issues = {} /\ NoTx.register = "keep"
  /\ NoTx.seen = "none" /\ NoTx.to = "none" /\ NoTx.items = <<>> /\ NoTx.known = NoMarks
  /\ NoTx.aim = Nobody
BY DEF NoTx

LEMMA SettingType ==
  ASSUME BodyOK, NEW x \in Sessions, Exists(x), NEW to \in SessionStatus
  PROVE  /\ Setting(x, to) \in Transactions
         /\ Setting(x, to).op = "session" /\ Setting(x, to).at = "commit"
         /\ Setting(x, to).x = x /\ Setting(x, to).to = to
         /\ Setting(x, to).seen = session[x].status
         /\ Setting(x, to).p = Nobody /\ Setting(x, to).due = {} /\ Setting(x, to).issues = {}
         /\ Setting(x, to).register = "keep"
<1>1. PICK seen \in SessionStatus : seen = session[x].status
  BY DEF BodyOK, Exists, SessionRows
<1> DEFINE t == [NoTx EXCEPT !.op = "session", !.at = "commit", !.x = x, !.seen = seen, !.to = to]
<1>2. seen \in Statuses /\ to \in Statuses
  BY DEF Statuses
<1>3. t \in Transactions
  BY <1>2, NoTxType DEF Transactions, Work, Points
<1>4. /\ t.op = "session" /\ t.at = "commit" /\ t.x = x /\ t.to = to /\ t.seen = seen
      /\ t.p = NoTx.p /\ t.due = NoTx.due /\ t.issues = NoTx.issues
      /\ t.register = NoTx.register
  BY NoTxType DEF Transactions
<1>5. QED
  BY <1>1, <1>3, <1>4, NoTxFields DEF Setting

LEMMA SessionStarts ==
  ASSUME BodyOK, NEW r \in Requests,
         cancel(r) \/ reschedule(r) \/ update_session(r) \/ close_register(r) \/ reopen_register(r)
  PROVE  \E t : Starts(r, t)
<1>1. ASSUME NEW x \in Sessions, Exists(x), NEW to \in SessionStatus, NEW endpoint, NEW t,
             t \in Transactions, t.op = "session", t.at = "commit", t.x = x, t.to = to,
             t.seen = session[x].status, t.p = Nobody, t.due = {}, t.issues = {},
             "update_session" \in Endpoints \/ to \in {"held", "cancelled"} \/ to = session[x].status,
             t.register = "close" => to = "held" /\ session[x].status \in {"scheduled", "held"},
             Begin(r, endpoint, t)
      PROVE  \E u : Starts(r, u)
  <2>1. Tied(t) /\ SessionRead(t)
    BY <1>1 DEF Tied, SessionRead
  <2>2. QED
    BY <1>1, <2>1 DEF Starts, Begin
<1>2. ASSUME NEW x \in Sessions, Exists(x)
      PROVE  session[x].status \in SessionStatus
  BY <1>2 DEF BodyOK, Exists, SessionRows
<1>3. CASE cancel(r)
  <2>1. PICK x \in Sessions : Exists(x) /\ Begin(r, "cancel", Setting(x, "cancelled"))
    BY <1>3 DEF cancel
  <2>2. "cancelled" \in SessionStatus
    BY DEF SessionStatus
  <2>3. QED
    BY <1>1, <2>1, <2>2, SettingType
<1>4. CASE reschedule(r)
  <2>1. PICK x \in Sessions, new \in Sessions :
          Exists(x) /\ Begin(r, "reschedule", [Setting(x, "cancelled") EXCEPT !.moved = new])
    BY <1>4 DEF reschedule
  <2>2. "cancelled" \in SessionStatus
    BY DEF SessionStatus
  <2>3. PICK s \in Transactions :
          /\ s = Setting(x, "cancelled")
          /\ s.op = "session" /\ s.at = "commit" /\ s.x = x /\ s.to = "cancelled"
          /\ s.seen = session[x].status /\ s.p = Nobody /\ s.due = {} /\ s.issues = {}
          /\ s.register = "keep"
    BY <2>1, <2>2, SettingType
  <2> DEFINE t == [s EXCEPT !.moved = new]
  <2>4. t \in Transactions
    BY DEF Transactions
  <2>5. /\ t.op = s.op /\ t.at = s.at /\ t.x = s.x /\ t.to = s.to /\ t.seen = s.seen
        /\ t.p = s.p /\ t.due = s.due /\ t.issues = s.issues /\ t.register = s.register
    BY DEF Transactions
  <2>6. QED
    BY <1>1, <2>1, <2>2, <2>3, <2>4, <2>5
<1>5. CASE update_session(r)
  <2>1. PICK x \in Sessions, to \in Patched :
          Exists(x) /\ Begin(r, "update_session", Setting(x, to))
    BY <1>5 DEF update_session
  <2>2. to \in SessionStatus
    BY ClassroomAssumption DEF SessionStatus
  <2>3. "update_session" \in Endpoints
    BY <2>1 DEF Begin
  <2>4. QED
    BY <1>1, <2>1, <2>2, <2>3, SettingType
<1>6. CASE close_register(r)
  <2>1. PICK x \in Sessions :
          /\ session[x].status \in {"scheduled", "held"}
          /\ Begin(r, "close_register",
                   [Setting(x, Held(session[x].status)) EXCEPT !.register = "close"])
    BY <1>6 DEF close_register
  <2>2. Held(session[x].status) = "held" /\ "held" \in SessionStatus /\ Exists(x)
    BY <2>1 DEF Held, SessionStatus, Exists
  <2>3. PICK s \in Transactions :
          /\ s = Setting(x, "held")
          /\ s.op = "session" /\ s.at = "commit" /\ s.x = x /\ s.to = "held"
          /\ s.seen = session[x].status /\ s.p = Nobody /\ s.due = {} /\ s.issues = {}
    BY <2>2, SettingType
  <2> DEFINE t == [s EXCEPT !.register = "close"]
  <2>4. t \in Transactions
    BY DEF Transactions
  <2>5. /\ t.op = s.op /\ t.at = s.at /\ t.x = s.x /\ t.to = s.to /\ t.seen = s.seen
        /\ t.p = s.p /\ t.due = s.due /\ t.issues = s.issues
    BY DEF Transactions
  <2>6. QED
    BY <1>1, <2>1, <2>2, <2>3, <2>4, <2>5
<1>7. CASE reopen_register(r)
  <2>1. PICK x \in Sessions :
          /\ Exists(x)
          /\ Begin(r, "reopen_register",
                   [Setting(x, session[x].status) EXCEPT !.register = "reopen"])
    BY <1>7 DEF reopen_register
  <2>2. session[x].status \in SessionStatus
    BY <1>2, <2>1
  <2>3. PICK s \in Transactions :
          /\ s = Setting(x, session[x].status)
          /\ s.op = "session" /\ s.at = "commit" /\ s.x = x /\ s.to = session[x].status
          /\ s.seen = session[x].status /\ s.p = Nobody /\ s.due = {} /\ s.issues = {}
    BY <2>1, <2>2, SettingType
  <2> DEFINE t == [s EXCEPT !.register = "reopen"]
  <2>4. t \in Transactions
    BY DEF Transactions
  <2>5. /\ t.op = s.op /\ t.at = s.at /\ t.x = s.x /\ t.to = s.to /\ t.seen = s.seen
        /\ t.p = s.p /\ t.due = s.due /\ t.issues = s.issues /\ t.register = "reopen"
    BY DEF Transactions
  <2>6. QED
    BY <1>1, <2>1, <2>2, <2>3, <2>4, <2>5
<1>8. QED
  BY <1>3, <1>4, <1>5, <1>6, <1>7

LEMMA TakingType ==
  ASSUME BodyOK, NEW op \in {"marks", "bulk"}, NEW x \in Sessions, TakesMarks(x),
         NEW items \in Items
  PROVE  /\ Taking(op, x, items) \in Transactions
         /\ Taking(op, x, items).op = op /\ Taking(op, x, items).at = "items"
         /\ Taking(op, x, items).x = x /\ Taking(op, x, items).to = "held"
         /\ Taking(op, x, items).seen = session[x].status
         /\ Taking(op, x, items).items = items /\ Taking(op, x, items).known = NoMarks
         /\ Taking(op, x, items).p = Nobody /\ Taking(op, x, items).due = {}
         /\ Taking(op, x, items).issues = {}
<1>1. PICK seen \in SessionStatus : seen = session[x].status /\ Held(session[x].status) = "held"
  BY DEF TakesMarks, Held, SessionStatus
<1> DEFINE t == [NoTx EXCEPT !.op = op, !.at = "items", !.x = x, !.items = items,
                             !.seen = seen, !.to = "held"]
<1>2. seen \in Statuses /\ "held" \in Statuses
  BY DEF Statuses, SessionStatus
<1>3. t \in Transactions
  BY <1>2, NoTxType DEF Transactions, Work, Points
<1>4. /\ t.op = op /\ t.at = "items" /\ t.x = x /\ t.to = "held" /\ t.seen = seen
      /\ t.items = items /\ t.known = NoTx.known
      /\ t.p = NoTx.p /\ t.due = NoTx.due /\ t.issues = NoTx.issues
  BY NoTxType DEF Transactions
<1>5. QED
  BY <1>1, <1>3, <1>4, NoTxFields DEF Taking

LEMMA MarkStarts ==
  ASSUME BodyOK, NEW r \in Requests,
         create_attendance(r) \/ bulk_attendance(r) \/ update_attendance(r) \/ delete_attendance(r)
  PROVE  \E t : Starts(r, t)
<1>1. CASE create_attendance(r)
  <2>1. PICK x \in Sessions, m \in Matriculas, to \in Marks :
          TakesMarks(x) /\ Begin(r, "create_attendance", Taking("marks", x, <<<<m, to>>>>))
    BY <1>1 DEF create_attendance
  <2>2. PICK items \in Items : items = <<<<m, to>>>> /\ Tail(items) = <<>>
    <3>1. <<<<m, to>>>> \in Items
      BY DEF Items
    <3>2. Tail(<<<<m, to>>>>) = <<>>
      OBVIOUS
    <3>3. QED
      BY <3>1, <3>2
  <2>3. PICK t \in Transactions :
          /\ t = Taking("marks", x, items)
          /\ t.op = "marks" /\ t.at = "items" /\ t.x = x /\ t.to = "held"
          /\ t.seen = session[x].status /\ t.items = items /\ t.known = NoMarks
          /\ t.p = Nobody /\ t.due = {} /\ t.issues = {}
    BY <2>1, TakingType
  <2>4. Tied(t)
    BY <2>3 DEF Tied, SessionStatus
  <2>5. MarksRead(t)
    BY <2>1, <2>2, <2>3 DEF MarksRead, TakesMarks
  <2>6. QED
    BY <2>1, <2>2, <2>3, <2>4, <2>5 DEF Starts, Begin
<1>2. CASE bulk_attendance(r)
  <2>1. PICK x \in Sessions, n \in 1..BatchSize :
          \E items \in [1..n -> Enrolled(CourseAt[x]) \X Marks] :
            /\ TakesMarks(x)
            /\ Begin(r, "bulk_attendance", [Taking("bulk", x, items) EXCEPT !.known = mark[x]])
    BY <1>2 DEF bulk_attendance
  <2>2. PICK items \in [1..n -> Enrolled(CourseAt[x]) \X Marks] :
            /\ TakesMarks(x)
            /\ Begin(r, "bulk_attendance", [Taking("bulk", x, items) EXCEPT !.known = mark[x]])
    BY <2>1
  <2>3. items \in Items
    <3>1. items \in [1..n -> Matriculas \X Marks] /\ n \in Nat
      BY ClassroomAssumption DEF Enrolled
    <3>2. QED
      BY <3>1 DEF Items
  <2>4. PICK s \in Transactions :
          /\ s = Taking("bulk", x, items)
          /\ s.op = "bulk" /\ s.at = "items" /\ s.x = x /\ s.to = "held"
          /\ s.seen = session[x].status
          /\ s.p = Nobody /\ s.due = {} /\ s.issues = {}
    BY <2>2, <2>3, TakingType
  <2> DEFINE t == [s EXCEPT !.known = mark[x]]
  <2>5. t \in Transactions
    BY DEF Transactions, BodyOK
  <2>6. /\ t.op = s.op /\ t.at = s.at /\ t.x = s.x /\ t.to = s.to /\ t.seen = s.seen
        /\ t.p = s.p /\ t.due = s.due /\ t.issues = s.issues
    BY DEF Transactions
  <2>7. Tied(t)
    BY <2>4, <2>6 DEF Tied, SessionStatus
  <2>8. MarksRead(t)
    BY <2>2, <2>4, <2>6 DEF MarksRead, TakesMarks
  <2>9. QED
    BY <2>2, <2>4, <2>5, <2>6, <2>7, <2>8 DEF Starts, Begin
<1>3. CASE update_attendance(r)
  <2>1. PICK x \in Sessions, m \in Matriculas, to \in Marks :
          /\ mark[x][m] # "none"
          /\ Begin(r, "update_attendance",
                   [NoTx EXCEPT !.op = "marks", !.at = "items", !.x = x,
                                !.known = [NoMarks EXCEPT ![m] = mark[x][m]],
                                !.writes = [NoMarks EXCEPT ![m] = to]])
    BY <1>3 DEF update_attendance
  <2>2. PICK known \in MarkRows, writes \in MarkRows :
          known = [NoMarks EXCEPT ![m] = mark[x][m]] /\ writes = [NoMarks EXCEPT ![m] = to]
    BY DEF BodyOK, NoMarks, MarkRows
  <2>7. ASSUME NEW n \in Matriculas, writes[n] # "none"
        PROVE  known[n] # "none"
    BY <2>1, <2>2, <2>7 DEF NoMarks
  <2> DEFINE t == [NoTx EXCEPT !.op = "marks", !.at = "items", !.x = x,
                               !.known = known, !.writes = writes]
  <2>3. t \in Transactions
    BY NoTxType DEF Transactions, Work, Points
  <2>4. /\ t.op = "marks" /\ t.at = "items" /\ t.x = x /\ t.to = NoTx.to /\ t.seen = NoTx.seen
        /\ t.items = NoTx.items /\ t.known = known /\ t.writes = writes
        /\ t.p = NoTx.p /\ t.due = NoTx.due /\ t.issues = NoTx.issues
    BY NoTxType DEF Transactions
  <2>5. Tied(t) /\ MarksRead(t)
    BY <2>4, <2>7, NoTxFields DEF Tied, MarksRead
  <2>6. QED
    BY <2>1, <2>2, <2>3, <2>4, <2>5, NoTxFields DEF Starts, Begin
<1>4. CASE delete_attendance(r)
  <2>1. PICK x \in Sessions, m \in Matriculas :
          Begin(r, "delete_attendance",
                [NoTx EXCEPT !.op = "unmark", !.at = "commit", !.x = x,
                             !.known = [NoMarks EXCEPT ![m] = mark[x][m]]])
    BY <1>4 DEF delete_attendance
  <2>2. PICK known \in MarkRows : known = [NoMarks EXCEPT ![m] = mark[x][m]]
    BY DEF BodyOK, NoMarks, MarkRows
  <2> DEFINE t == [NoTx EXCEPT !.op = "unmark", !.at = "commit", !.x = x, !.known = known]
  <2>3. t \in Transactions
    BY NoTxType DEF Transactions, Work, Points
  <2>4. /\ t.op = "unmark" /\ t.at = "commit" /\ t.x = x
        /\ t.p = NoTx.p /\ t.due = NoTx.due /\ t.issues = NoTx.issues
    BY NoTxType DEF Transactions
  <2>5. Tied(t)
    BY <2>4 DEF Tied
  <2>6. QED
    BY <2>1, <2>2, <2>3, <2>4, <2>5, NoTxFields DEF Starts, Begin
<1>5. QED
  BY <1>1, <1>2, <1>3, <1>4

LEMMA ReadingType ==
  ASSUME BodyOK, NEW p \in Passes, Issued(p)
  PROVE  /\ Reading(p) \in Transactions
         /\ Reading(p).op = "pass" /\ Reading(p).at = "commit" /\ Reading(p).p = p
         /\ Reading(p).seen = pass[p].status /\ Reading(p).was = pass[p].target
         /\ Reading(p).aim = Nobody /\ Reading(p).due = {} /\ Reading(p).issues = {}
<1>1. PICK seen \in Statuses, was \in Sessions \cup {Nobody} : seen = pass[p].status /\ was = pass[p].target
  BY DEF BodyOK, PassRows, Issued, Statuses
<1> DEFINE t == [NoTx EXCEPT !.op = "pass", !.at = "commit", !.p = p, !.seen = seen, !.was = was]
<1>2. /\ t \in Transactions
      /\ t.op = "pass" /\ t.at = "commit" /\ t.p = p /\ t.seen = seen /\ t.was = was
      /\ t.aim = NoTx.aim /\ t.due = NoTx.due /\ t.issues = NoTx.issues
  BY NoTxType DEF Transactions, Work, Points
<1>3. QED
  BY <1>1, <1>2, NoTxFields DEF Reading

LEMMA PassStarts ==
  ASSUME BodyOK, NEW r \in Requests,
         book_candidate_session(r) \/ cancel_makeup_booking(r) \/ mark_makeup_visitor(r)
  PROVE  \E t : Starts(r, t)
<1>1. ASSUME NEW p \in Passes, NEW to \in MakeUpStatus, NEW aim \in Sessions \cup {Nobody},
             NEW endpoint, Issued(p), NEW t,
             \/ t = [Reading(p) EXCEPT !.to = to] /\ aim = Nobody /\ to # "booked"
             \/ t = [Reading(p) EXCEPT !.to = to, !.aim = aim] /\ aim = pass[p].target /\ to # "booked"
             \/ /\ aim \in Sessions /\ to = "booked"
                /\ t = [Reading(p) EXCEPT !.at = "lock", !.x = aim, !.to = to, !.aim = aim],
             \/ to = "booked" /\ pass[p].status \in {"available", "booked"} /\ aim \in Sessions
             \/ to = "available" /\ pass[p].status = "booked" /\ aim = Nobody
             \/ /\ to \in {"attended", "cancelled"} /\ pass[p].status \in {"booked", "attended"}
                /\ aim = pass[p].target
             \/ /\ to = "expired" /\ pass[p].status \in {"available", "booked"} /\ aim = Nobody
                /\ pass[p].expires < today,
             Begin(r, endpoint, t)
      PROVE  \E u : Starts(r, u)
  <2>1. to \in Statuses /\ "lock" \in Points
    BY DEF Statuses, Points
  <2>2. PICK q \in Transactions :
          /\ q = Reading(p) /\ q.op = "pass" /\ q.at = "commit" /\ q.p = p
          /\ q.seen = pass[p].status /\ q.was = pass[p].target
          /\ q.aim = Nobody /\ q.due = {} /\ q.issues = {}
    BY <1>1, ReadingType
  <2>3. /\ t \in Transactions
        /\ t.op = "pass" /\ t.p = p /\ t.to = to /\ t.aim = aim
        /\ t.seen = q.seen /\ t.was = q.was /\ t.due = q.due /\ t.issues = q.issues
        /\ \/ t.at = "commit" /\ aim \in {Nobody, pass[p].target} /\ to # "booked"
           \/ t.at = "lock" /\ t.x \in Sessions /\ t.x = aim /\ to = "booked"
    <3>1. CASE t = [q EXCEPT !.to = to] /\ aim = Nobody /\ to # "booked"
      <4>1. t \in Transactions
        BY <2>1, <3>1 DEF Transactions
      <4>2. /\ t.op = q.op /\ t.at = q.at /\ t.p = q.p /\ t.to = to /\ t.aim = q.aim
            /\ t.seen = q.seen /\ t.was = q.was /\ t.due = q.due /\ t.issues = q.issues
        BY <3>1 DEF Transactions
      <4>3. QED
        BY <2>2, <3>1, <4>1, <4>2
    <3>2. CASE t = [q EXCEPT !.to = to, !.aim = aim] /\ aim = pass[p].target /\ to # "booked"
      <4>1. t \in Transactions
        BY <2>1, <3>2 DEF Transactions
      <4>2. /\ t.op = q.op /\ t.at = q.at /\ t.p = q.p /\ t.to = to /\ t.aim = aim
            /\ t.seen = q.seen /\ t.was = q.was /\ t.due = q.due /\ t.issues = q.issues
        BY <3>2 DEF Transactions
      <4>3. QED
        BY <2>2, <3>2, <4>1, <4>2
    <3>3. CASE /\ aim \in Sessions /\ to = "booked"
               /\ t = [q EXCEPT !.at = "lock", !.x = aim, !.to = to, !.aim = aim]
      <4>1. t \in Transactions
        BY <2>1, <3>3 DEF Transactions
      <4>2. /\ t.op = q.op /\ t.at = "lock" /\ t.x = aim /\ t.p = q.p /\ t.to = to /\ t.aim = aim
            /\ t.seen = q.seen /\ t.was = q.was /\ t.due = q.due /\ t.issues = q.issues
        BY <3>3 DEF Transactions
      <4>3. QED
        BY <2>2, <3>3, <4>1, <4>2
    <3>4. QED
      BY <1>1, <2>2, <3>1, <3>2, <3>3
  <2>4. Tied(t)
    BY <2>3 DEF Tied
  <2>5. Legal(t)
    BY <1>1, <2>2, <2>3 DEF Legal
  <2>6. PassRead(t)
    BY <1>1, <2>2, <2>3, <2>5 DEF PassRead
  <2>7. QED
    BY <1>1, <2>2, <2>3, <2>4, <2>6 DEF Starts, Begin
<1>2. CASE book_candidate_session(r)
  <2>1. PICK p \in Passes, x \in Sessions :
          /\ pass[p].status \in {"available", "booked"}
          /\ \/ /\ pass[p].expires < today
                /\ Begin(r, "book_candidate_session", [Reading(p) EXCEPT !.to = "expired"])
             \/ Begin(r, "book_candidate_session", [Reading(p) EXCEPT
                             !.at = "lock", !.x = x, !.to = "booked", !.aim = x])
    BY <1>2 DEF book_candidate_session, Due
  <2>2. Issued(p) /\ "expired" \in MakeUpStatus /\ "booked" \in MakeUpStatus
    BY <2>1 DEF Issued, MakeUpStatus
  <2>3. CASE /\ pass[p].expires < today
             /\ Begin(r, "book_candidate_session", [Reading(p) EXCEPT !.to = "expired"])
    BY <1>1, <2>1, <2>2, <2>3
  <2>4. CASE Begin(r, "book_candidate_session", [Reading(p) EXCEPT
                             !.at = "lock", !.x = x, !.to = "booked", !.aim = x])
    BY <1>1, <2>1, <2>2, <2>4
  <2>5. QED
    BY <2>1, <2>3, <2>4
<1>3. CASE cancel_makeup_booking(r)
  <2>1. PICK p \in Passes :
          /\ pass[p].status = "booked"
          /\ Begin(r, "cancel_makeup_booking", [Reading(p) EXCEPT
                       !.to = IF pass[p].expires < today THEN "expired" ELSE "available"])
    BY <1>3 DEF cancel_makeup_booking
  <2>2. PICK to \in MakeUpStatus :
          /\ to = IF pass[p].expires < today THEN "expired" ELSE "available"
          /\ to = "available" \/ (to = "expired" /\ pass[p].expires < today)
    BY DEF MakeUpStatus
  <2>3. Issued(p)
    BY <2>1 DEF Issued
  <2>4. QED
    BY <1>1, <2>1, <2>2, <2>3
<1>4. CASE mark_makeup_visitor(r)
  <2>1. PICK p \in Passes, to \in {"attended", "cancelled"} :
          /\ pass[p].status \in {"booked", "attended"}
          /\ Begin(r, "mark_makeup_visitor", [Reading(p) EXCEPT !.to = to, !.aim = pass[p].target])
    BY <1>4 DEF mark_makeup_visitor
  <2>2. Issued(p) /\ to # "booked" /\ to \in MakeUpStatus /\ pass[p].target \in Sessions \cup {Nobody}
    BY <2>1 DEF Issued, MakeUpStatus, BodyOK, PassRows
  <2>3. PICK aim \in Sessions \cup {Nobody} : aim = pass[p].target
    BY <2>2
  <2>4. Begin(r, "mark_makeup_visitor", [Reading(p) EXCEPT !.to = to, !.aim = aim])
    BY <2>1, <2>3
  <2>5. QED
    BY <1>1, <2>1, <2>2, <2>3, <2>4
<1>5. QED
  BY <1>2, <1>3, <1>4

LEMMA ListStarts ==
  ASSUME BodyOK, NEW r \in Requests, list_makeups(r)
  PROVE  \E t : Starts(r, t)
<1>1. PICK P \in SUBSET {p \in Passes : Due(p)} :
        Begin(r, "list_makeups", [NoTx EXCEPT !.op = "list", !.at = "commit",
                                              !.due = {<<p, pass[p].target>> : p \in P}])
  BY DEF list_makeups
<1>2. {<<p, pass[p].target>> : p \in P} \in DuePasses
  BY DEF DuePasses, BodyOK, PassRows
<1>3. PICK due \in DuePasses : due = {<<p, pass[p].target>> : p \in P}
  BY <1>2
<1> DEFINE t == [NoTx EXCEPT !.op = "list", !.at = "commit", !.due = due]
<1>4. t \in Transactions
  BY NoTxType DEF Transactions, Work, Points
<1>5. /\ t.op = "list" /\ t.at = "commit" /\ t.due = due
      /\ t.p = NoTx.p /\ t.issues = NoTx.issues
  BY NoTxType DEF Transactions
<1>6. \A d \in due : d[1] \in Passes /\ Due(d[1]) /\ d[2] = pass[d[1]].target
  BY <1>3
<1>7. Tied(t) /\ ListRead(t)
  BY <1>5, <1>6, NoTxFields DEF Tied, ListRead
<1>8. QED
  BY <1>1, <1>3, <1>4, <1>5, <1>7, NoTxFields DEF Starts, Begin

\* The actions that start a request.
Opens(r) ==
    \/ cancel(r) \/ reschedule(r) \/ update_session(r) \/ close_register(r) \/ reopen_register(r)
    \/ create_attendance(r) \/ bulk_attendance(r) \/ update_attendance(r) \/ delete_attendance(r)
    \/ book_candidate_session(r) \/ cancel_makeup_booking(r) \/ mark_makeup_visitor(r)
    \/ list_makeups(r)

LEMMA OpensStarts ==
  ASSUME BodyOK, NEW r \in Requests, Opens(r)
  PROVE  \E t : Starts(r, t)
BY SessionStarts, MarkStarts, PassStarts, ListStarts DEF Opens

LEMMA StartType ==
  ASSUME BodyOK, TxTied, NEW r \in Requests, NEW t, Starts(r, t)
  PROVE  BodyOK' /\ TxTied'
BY DEF Starts, BodyOK, TxTied, tables, locks

-----------------------------------------------------------------------------
(* Types.                                                                  *)

LEMMA SessionCommitType ==
  ASSUME BodyOK, TxTied, NEW r \in Requests, CommitSession(r)
  PROVE  BodyOK' /\ TxTied'
<1> DEFINE t == tx[r]
           row == [status |-> Column(t.seen, t.to, session[t.x].status),
                   closed |-> IF t.register = "keep" THEN session[t.x].closed
                              ELSE t.register = "close"]
<1>1. t \in Transactions /\ t.x \in Sessions /\ t.to \in SessionStatus
  BY DEF CommitSession, BodyOK, TxTied, Tied
<1>2. session[t.x].status \in SessionStatus \cup {"unborn"} /\ session[t.x].closed \in BOOLEAN
  BY <1>1 DEF BodyOK, SessionRows
<1>3. row \in SessionRows
  BY <1>1, <1>2 DEF SessionRows, Column
<1>4. session' \in [Sessions -> SessionRows]
  <2>1. \/ session' = [session EXCEPT ![t.x] = row]
        \/ session' = [[session EXCEPT ![t.x] = row]
                          EXCEPT ![t.moved] = [status |-> "scheduled", closed |-> FALSE]]
    BY <1>1 DEF CommitSession
  <2>2. [status |-> "scheduled", closed |-> FALSE] \in SessionRows
    BY DEF SessionRows, SessionStatus
  <2>3. QED
    BY <1>3, <2>1, <2>2 DEF BodyOK
<1>5. QED
  BY <1>4, EndType, EndTied DEF CommitSession, BodyOK

LEMMA LockGranted ==
  ASSUME BodyOK, NEW x \in Sessions, NEW m \in Matriculas, NEW r \in Requests
  PROVE  [markLock EXCEPT ![x][m] = r] \in [Sessions -> [Matriculas -> Requests \cup {Nobody}]]
BY DEF BodyOK

\* The transaction in which an item has been done, and the passes it issues.
LEMMA ItemType ==
  ASSUME BodyOK, TxTied, NEW r \in Requests, MarkItem(r)
  PROVE  BodyOK' /\ TxTied'
<1> DEFINE t == tx[r]
           m == Head(t.items)[1]
           to == Head(t.items)[2]
           done == [t EXCEPT !.items = Tail(@), !.writes[m] = to]
<1>1. t \in Transactions /\ t.x \in Sessions /\ t.at = "items" /\ t.items # <<>>
  BY DEF MarkItem, BodyOK, TxTied, Tied
<1>2. t.items \in Items /\ t.writes \in MarkRows /\ t.issues \in Issues
  BY <1>1 DEF Transactions
<1>3. m \in Matriculas /\ to \in Marks /\ Tail(t.items) \in Items
  BY <1>1, <1>2 DEF Items
<1>4. [t.writes EXCEPT ![m] = to] \in MarkRows
  BY <1>2, <1>3 DEF MarkRows
<1>5. /\ done \in Transactions
      /\ done.op = t.op /\ done.at = t.at /\ done.x = t.x /\ done.p = t.p
      /\ done.to = t.to /\ done.seen = t.seen /\ done.issues = t.issues
  BY <1>1, <1>3, <1>4 DEF Transactions
<1>6. PICK u : /\ tx' = [tx EXCEPT ![r] = u]
               /\ u \in Transactions
               /\ u.op = t.op /\ u.at = t.at /\ u.x = t.x /\ u.p = t.p
               /\ u.to = t.to /\ u.seen = t.seen
  <2>1. CASE tx' = [tx EXCEPT ![r] = done]
    BY <1>5, <2>1
  <2>2. ASSUME NEW p \in Passes,
               tx' = [tx EXCEPT ![r] = [done EXCEPT !.issues = @ \cup {<<p, m, today + Validity>>}]]
        PROVE  \E u : /\ tx' = [tx EXCEPT ![r] = u]
                      /\ u \in Transactions
                      /\ u.op = t.op /\ u.at = t.at /\ u.x = t.x /\ u.p = t.p
                      /\ u.to = t.to /\ u.seen = t.seen
    <3> DEFINE I == t.issues \cup {<<p, m, today + Validity>>}
               u == [done EXCEPT !.issues = I]
    <3>1. I \in Issues
      BY <1>2, <1>3, ClassroomAssumption DEF BodyOK, Issues
    <3>2. /\ u \in Transactions
          /\ u.op = t.op /\ u.at = t.at /\ u.x = t.x /\ u.p = t.p
          /\ u.to = t.to /\ u.seen = t.seen
      BY <1>5, <3>1 DEF Transactions
    <3>3. tx' = [tx EXCEPT ![r] = u]
      BY <1>5, <2>2
    <3>4. QED
      BY <3>2, <3>3
  <2>3. QED
    BY <2>1, <2>2 DEF MarkItem
<1>7. Tied(u)
  BY <1>6 DEF TxTied, Tied
<1>8. markLock' \in [Sessions -> [Matriculas -> Requests \cup {Nobody}]]
  <2>1. markLock' = markLock \/ markLock' = [markLock EXCEPT ![t.x][m] = r]
    BY DEF MarkItem
  <2>2. CASE markLock' = markLock
    BY <2>2 DEF BodyOK
  <2>3. CASE markLock' = [markLock EXCEPT ![t.x][m] = r]
    BY <1>1, <1>3, <2>3, LockGranted
  <2>4. QED
    BY <2>1, <2>2, <2>3
<1>9. QED
  BY <1>6, <1>7, <1>8 DEF MarkItem, BodyOK, TxTied, tables

LEMMA MarksCommitType ==
  ASSUME BodyOK, TxTied, NEW r \in Requests, CommitMarks(r) \/ CommitDeleteMark(r)
  PROVE  BodyOK' /\ TxTied'
<1> DEFINE t == tx[r]
<1>1. t \in Transactions /\ t.writes \in MarkRows /\ t.issues \in Issues
  BY DEF BodyOK, Transactions
<1>2. t.x \in Sessions
  BY DEF CommitMarks, CommitDeleteMark, TxTied, Tied
<1>3. CASE CommitMarks(r)
  <2>1. mark' \in [Sessions -> MarkRows]
    <3>1. PICK S \in SUBSET Matriculas :
            mark' = [mark EXCEPT ![t.x] = [m \in Matriculas |-> IF m \in S THEN t.writes[m] ELSE @[m]]]
      <4> DEFINE S == {m \in Matriculas : t.writes[m] # "none" /\ t.known[m] = "none"} \cup Rewritten(t)
      <4>1. S \in SUBSET Matriculas
        BY DEF Rewritten
      <4>2. QED
        BY <1>3, <4>1 DEF CommitMarks
    <3>2. [m \in Matriculas |-> IF m \in S THEN t.writes[m] ELSE mark[t.x][m]] \in MarkRows
      BY <1>1, <1>2 DEF BodyOK, MarkRows
    <3>3. QED
      BY <3>1, <3>2 DEF BodyOK
  <2>2. session' \in [Sessions -> SessionRows]
    <3>1. session' = [session EXCEPT ![t.x].status = Column(t.seen, t.to, session[t.x].status)]
      BY <1>2, <1>3 DEF CommitMarks, BodyOK
    <3>2. t.to \in SessionStatus \/ t.to = t.seen
      BY <1>3 DEF CommitMarks, TxTied, Tied
    <3>3. Column(t.seen, t.to, session[t.x].status) \in SessionStatus \cup {"unborn"}
      BY <1>2, <3>2 DEF Column, BodyOK, SessionRows
    <3>4. QED
      BY <3>1, <3>3 DEF BodyOK, SessionRows
  <2>3. pass' \in [Passes -> PassRows]
    <3>1. PICK by \in {"mark", "bulk"} :
            pass' = [p \in Passes |->
                      IF \E issue \in t.issues : issue[1] = p
                      THEN LET issue == CHOOSE i \in t.issues : i[1] = p IN
                           [status |-> "available", target |-> Nobody, expires |-> issue[3],
                            of |-> issue[2], origin |-> t.x, by |-> by]
                      ELSE pass[p]]
      <4>1. (IF t.op = "bulk" THEN "bulk" ELSE "mark") \in {"mark", "bulk"}
        OBVIOUS
      <4>2. QED
        BY <1>3, <4>1 DEF CommitMarks
    <3>2. ASSUME NEW p \in Passes, \E issue \in t.issues : issue[1] = p
          PROVE  LET issue == CHOOSE i \in t.issues : i[1] = p IN
                   [status |-> "available", target |-> Nobody, expires |-> issue[3],
                    of |-> issue[2], origin |-> t.x, by |-> by] \in PassRows
      <4> DEFINE issue == CHOOSE i \in t.issues : i[1] = p
      <4>1. issue \in t.issues
        BY <3>2
      <4>2. issue \in Passes \X Matriculas \X Nat
        BY <1>1, <4>1 DEF Issues
      <4>3. issue[2] \in Matriculas /\ issue[3] \in Nat
        BY <4>2
      <4>4. QED
        BY <1>2, <4>3 DEF PassRows, MakeUpStatus
    <3>3. QED
      BY <3>1, <3>2 DEF BodyOK
  <2>4. QED
    BY <1>3, <2>1, <2>2, <2>3, EndType, EndTied DEF CommitMarks, BodyOK
<1>4. CASE CommitDeleteMark(r)
  <2>1. mark' \in [Sessions -> MarkRows]
    <3>1. PICK S : mark' = [mark EXCEPT ![t.x] = [m \in Matriculas |->
                              IF m \in S THEN "none" ELSE @[m]]]
      BY <1>4 DEF CommitDeleteMark
    <3>2. [m \in Matriculas |-> IF m \in S THEN "none" ELSE mark[t.x][m]] \in MarkRows
      BY <1>2 DEF BodyOK, MarkRows
    <3>3. QED
      BY <3>1, <3>2 DEF BodyOK
  <2>2. QED
    BY <1>4, <2>1, EndType, EndTied DEF CommitDeleteMark, BodyOK
<1>5. QED
  BY <1>3, <1>4

LEMMA HandType ==
  ASSUME BodyOK, TxTied,
         (\E x \in Sessions : ensure_session(x)) \/ create_makeup_credit \/ Tick
  PROVE  BodyOK' /\ TxTied'
<1>1. ASSUME NEW x \in Sessions, ensure_session(x) PROVE BodyOK' /\ TxTied'
  BY <1>1 DEF ensure_session, BodyOK, TxTied, SessionRows, SessionStatus, locks
<1>2. CASE create_makeup_credit
  <2>1. PICK p \in Passes, m \in Matriculas, origin \in Sessions \cup {Nobody}, d \in 0..Validity :
          pass' = [pass EXCEPT ![p] = [status |-> "available", of |-> m, origin |-> origin,
                                       target |-> Nobody, expires |-> today + d, by |-> "hand"]]
    BY <1>2 DEF create_makeup_credit
  <2>2. [status |-> "available", of |-> m, origin |-> origin, target |-> Nobody,
         expires |-> today + d, by |-> "hand"] \in PassRows
    BY ClassroomAssumption DEF BodyOK, PassRows, MakeUpStatus
  <2>3. QED
    BY <1>2, <2>1, <2>2 DEF create_makeup_credit, BodyOK, TxTied, locks
<1>3. CASE Tick
  BY <1>3, ClassroomAssumption DEF Tick, BodyOK, TxTied, tables, locks
<1>4. QED
  BY <1>1, <1>2, <1>3

LEMMA LockType ==
  ASSUME BodyOK, TxTied, NEW r \in Requests, LockTarget(r)
  PROVE  BodyOK' /\ TxTied'
<1>1. CASE Rollback(r)
  BY <1>1, RollbackType, EndTied DEF Rollback
<1>2. CASE /\ sessionLock' = [sessionLock EXCEPT ![tx[r].x] = r]
           /\ tx' = [tx EXCEPT ![r].at = "commit"]
           /\ UNCHANGED <<tables, today, markLock>>
  <2>1. tx[r] \in Transactions /\ Tied(tx[r]) /\ tx[r].at = "lock"
    BY DEF BodyOK, TxTied, LockTarget
  <2> DEFINE t == [tx[r] EXCEPT !.at = "commit"]
  <2>2. /\ t \in Transactions
        /\ t.op = tx[r].op /\ t.at = "commit" /\ t.x = tx[r].x /\ t.p = tx[r].p
        /\ t.to = tx[r].to /\ t.seen = tx[r].seen
    BY <2>1 DEF Transactions, Points
  <2>3. Tied(t)
    BY <2>1, <2>2 DEF Tied
  <2>4. tx' = [tx EXCEPT ![r] = t]
    BY <1>2
  <2>5. QED
    BY <1>2, <2>2, <2>3, <2>4 DEF BodyOK, TxTied, tables
<1>3. QED
  BY <1>1, <1>2 DEF LockTarget

LEMMA PassCommitType ==
  ASSUME BodyOK, TxTied, NEW r \in Requests, CommitPass(r) \/ CommitExpiry(r)
  PROVE  BodyOK' /\ TxTied'
<1> DEFINE t == tx[r]
<1>1. CASE CommitPass(r)
  <2>1. /\ t.p \in Passes /\ t.to \in MakeUpStatus /\ t.aim \in Sessions \cup {Nobody}
        /\ pass[t.p] \in PassRows
    BY <1>1 DEF CommitPass, BodyOK, TxTied, Tied, Transactions
  <2>2. /\ Column(t.seen, t.to, pass[t.p].status) \in MakeUpStatus \cup {"unborn"}
        /\ Column(t.was, t.aim, pass[t.p].target) \in Sessions \cup {Nobody}
    BY <2>1 DEF Column, PassRows
  <2> DEFINE row == [pass[t.p] EXCEPT !.status = Column(t.seen, t.to, pass[t.p].status),
                                      !.target = Column(t.was, t.aim, pass[t.p].target)]
  <2>3. row \in PassRows
    BY <2>1, <2>2 DEF PassRows
  <2>4. pass' = [pass EXCEPT ![t.p] = row]
    BY <1>1, <2>1 DEF CommitPass, BodyOK, PassRows
  <2>5. QED
    BY <1>1, <2>3, <2>4, EndType, EndTied DEF CommitPass, BodyOK
<1>2. CASE CommitExpiry(r)
  <2>1. ASSUME NEW p \in Passes
        PROVE  pass'[p] \in PassRows
    <3>1. pass[p] \in PassRows
      BY DEF BodyOK
    <3>2. \/ pass'[p] = pass[p]
          \/ pass'[p] = [pass[p] EXCEPT !.status = "expired", !.target = pass[p].target]
          \/ pass'[p] = [pass[p] EXCEPT !.status = "expired", !.target = Nobody]
      BY <1>2 DEF CommitExpiry
    <3>3. QED
      BY <3>1, <3>2 DEF PassRows, MakeUpStatus
  <2>2. pass' = [p \in Passes |-> pass'[p]]
    BY <1>2 DEF CommitExpiry
  <2>3. pass' \in [Passes -> PassRows]
    BY <2>1, <2>2
  <2>4. QED
    BY <1>2, <2>3, EndType, EndTied DEF CommitExpiry, BodyOK
<1>3. QED
  BY <1>1, <1>2, ClassroomAssumption

LEMMA StepType ==
  ASSUME BodyOK, TxTied, Step
  PROVE  BodyOK' /\ TxTied'
<1>1. ASSUME NEW r \in Requests, SessionStep(r)
      PROVE  BodyOK' /\ TxTied'
  BY <1>1, OpensStarts, StartType, SessionCommitType DEF SessionStep, Opens
<1>2. ASSUME NEW r \in Requests, MarkStep(r)
      PROVE  BodyOK' /\ TxTied'
  BY <1>2, OpensStarts, StartType, ItemType, MarksCommitType DEF MarkStep, Opens
<1>3. ASSUME NEW r \in Requests, PassStep(r)
      PROVE  BodyOK' /\ TxTied'
  BY <1>3, OpensStarts, StartType, LockType, PassCommitType DEF PassStep, Opens
<1>4. ASSUME NEW r \in Requests, Fail(r)
      PROVE  BodyOK' /\ TxTied'
  BY <1>4, RollbackType, EndTied DEF Fail, Rollback
<1>5. QED
  BY <1>1, <1>2, <1>3, <1>4, HandType DEF Step

LEMMA InitType ==
  ASSUME Init
  PROVE  TypeOK /\ TxTied
<1>1. session \in [Sessions -> SessionRows]
  BY DEF Init, SessionRows, SessionStatus
<1>2. mark \in [Sessions -> MarkRows] /\ pass \in [Passes -> PassRows]
  BY NoPassType DEF Init, NoMarks, MarkRows
<1>3. tx \in [Requests -> Transactions] /\ TxTied
  BY NoTxType, NoTxTied DEF Init, TxTied
<1>4. QED
  BY <1>1, <1>2, <1>3, ClassroomAssumption DEF Init, TypeOK

\* Every table holds rows, every lock names a request, and every request carries what
\* fits the row it will write, whatever the requests and their order.
THEOREM ClassroomTypeCorrect == Spec => [](TypeOK /\ TxTied)
<1>1. Init => TypeOK /\ TxTied
  BY InitType
<1>2. (TypeOK /\ TxTied) /\ [Next]_vars => (TypeOK /\ TxTied)'
  <2> SUFFICES ASSUME TypeOK, TxTied, [Next]_vars PROVE TypeOK' /\ TxTied'
    OBVIOUS
  <2>1. CASE Next
    <3>1. BodyOK' /\ TxTied'
      BY <2>1, StepType, TypeParts DEF Next
    <3>2. contested' \subseteq Passes
      BY <2>1, TypeParts DEF Next, Watch
    <3>3. QED
      BY <3>1, <3>2 DEF TypeOK, BodyOK
  <2>2. CASE UNCHANGED vars
    BY <2>2 DEF vars, tables, locks, TypeOK, TxTied
  <2>3. QED
    BY <2>1, <2>2
<1>3. QED
  BY <1>1, <1>2, PTL DEF Spec

-----------------------------------------------------------------------------
(* What the steps leave alone.                                             *)

\* The end of a request leaves every other as it was.
LEMMA EndKeepsOthers ==
  ASSUME BodyOK, NEW r \in Requests, End(r)
  PROVE  /\ tx'[r] = NoTx
         /\ \A q \in Requests \ {r} : tx'[q] = tx[q]
BY DEF BodyOK, End

\* A step as seen from the passes: it starts a request, writes one or more of them, lets a
\* request go on with the same pass, or touches none.
GoesOn(r) ==
    /\ tx' = [tx EXCEPT ![r] = tx'[r]]
    /\ tx'[r].op = tx[r].op /\ tx'[r].p = tx[r].p /\ tx'[r].due = tx[r].due
    /\ tx'[r].seen = tx[r].seen /\ tx'[r].to = tx[r].to
    /\ tx'[r].was = tx[r].was /\ tx'[r].aim = tx[r].aim
    /\ UNCHANGED <<tables, today>>

\* MarkItem draws at most one pass, that no other request has drawn.
ItemIssues(r) ==
    \/ tx'[r].issues = tx[r].issues
    \/ \E p \in Passes : /\ Fresh(p)
                         /\ \E m \in Matriculas, e \in Nat : tx'[r].issues = tx[r].issues \cup {<<p, m, e>>}

LEMMA ItemGoesOn ==
  ASSUME BodyOK, TxTied, NEW r \in Requests, MarkItem(r)
  PROVE  GoesOn(r) /\ ItemIssues(r)
<1> DEFINE t == tx[r]
           m == Head(t.items)[1]
           to == Head(t.items)[2]
           done == [t EXCEPT !.items = Tail(@), !.writes[m] = to]
<1>1. t \in Transactions /\ t.items \in Items /\ t.items # <<>>
  BY DEF MarkItem, BodyOK, Transactions
<1>2. m \in Matriculas
  BY <1>1 DEF Items
<1>3. /\ done.op = t.op /\ done.p = t.p /\ done.due = t.due /\ done.seen = t.seen
      /\ done.to = t.to /\ done.was = t.was /\ done.aim = t.aim /\ done.issues = t.issues
  BY <1>1 DEF Transactions
<1>4. CASE tx' = [tx EXCEPT ![r] = done]
  <2>1. tx'[r] = done
    BY <1>4 DEF BodyOK
  <2>2. QED
    BY <1>3, <1>4, <2>1 DEF MarkItem, GoesOn, ItemIssues
<1>5. ASSUME NEW p \in Passes, Fresh(p),
             tx' = [tx EXCEPT ![r] = [done EXCEPT !.issues = @ \cup {<<p, m, today + Validity>>}]]
      PROVE  GoesOn(r) /\ ItemIssues(r)
  <2> DEFINE I == t.issues \cup {<<p, m, today + Validity>>}
             u == [done EXCEPT !.issues = I]
  <2>1. tx' = [tx EXCEPT ![r] = u] /\ tx'[r] = u
    BY <1>3, <1>5 DEF BodyOK
  <2>2. /\ u.op = t.op /\ u.p = t.p /\ u.due = t.due /\ u.seen = t.seen
        /\ u.to = t.to /\ u.was = t.was /\ u.aim = t.aim
    BY <1>1, <1>3 DEF Transactions
  <2>3. u.issues = I
    BY <1>1 DEF Transactions
  <2>4. today + Validity \in Nat
    BY ClassroomAssumption DEF BodyOK
  <2>5. UNCHANGED <<tables, today>>
    BY DEF MarkItem
  <2>6. GoesOn(r)
    BY <2>1, <2>2, <2>5 DEF GoesOn
  <2>7. tx'[r].issues = t.issues \cup {<<p, m, today + Validity>>}
    BY <2>1, <2>3
  <2>8. ItemIssues(r)
    BY <1>2, <1>5, <2>4, <2>7 DEF ItemIssues
  <2>9. QED
    BY <2>6, <2>8
<1>6. QED
  BY <1>4, <1>5 DEF MarkItem

LEMMA LockGoesOn ==
  ASSUME BodyOK, NEW r \in Requests, LockTarget(r)
  PROVE  \/ Rollback(r)
         \/ /\ GoesOn(r) /\ tx'[r].issues = tx[r].issues
            /\ tx[r].at = "lock" /\ tx'[r].at = "commit"
            /\ Date[tx[r].x] <= pass[tx[r].p].expires
<1>1. CASE /\ InDate(tx[r].x, tx[r].p)
           /\ tx' = [tx EXCEPT ![r].at = "commit"]
           /\ UNCHANGED <<tables, today, markLock>>
           /\ tx[r].at = "lock"
  <2>1. tx'[r] = [tx[r] EXCEPT !.at = "commit"] /\ tx' = [tx EXCEPT ![r] = tx'[r]]
    BY <1>1 DEF BodyOK
  <2>2. tx[r] \in Transactions
    BY DEF BodyOK
  <2>3. /\ tx'[r].at = "commit" /\ tx'[r].issues = tx[r].issues
        /\ tx'[r].op = tx[r].op /\ tx'[r].p = tx[r].p /\ tx'[r].due = tx[r].due
        /\ tx'[r].seen = tx[r].seen /\ tx'[r].to = tx[r].to
        /\ tx'[r].was = tx[r].was /\ tx'[r].aim = tx[r].aim
    BY <2>1, <2>2 DEF Transactions
  <2>4. QED
    BY <1>1, <2>1, <2>3 DEF GoesOn, InDate
<1>2. QED
  BY <1>1 DEF LockTarget

LEMMA StartGoes ==
  ASSUME BodyOK, NEW r \in Requests, NEW t, Starts(r, t)
  PROVE  /\ tx'[r] = t
         /\ \A q \in Requests \ {r} : tx'[q] = tx[q]
BY DEF Starts, BodyOK

LEMMA GoesOnGoes ==
  ASSUME BodyOK, NEW r \in Requests, GoesOn(r)
  PROVE  \A q \in Requests \ {r} : tx'[q] = tx[q]
BY DEF GoesOn, BodyOK

\* Every step starts a request, lets one go on, ends one, or is done at once.
Ends(r) ==
    \/ CommitSession(r) \/ CommitMarks(r) \/ CommitDeleteMark(r)
    \/ CommitPass(r) \/ CommitExpiry(r) \/ Rollback(r)

AtOnce == (\E x \in Sessions : ensure_session(x)) \/ create_makeup_credit \/ Tick

LEMMA StepKinds ==
  ASSUME BodyOK, TxTied, Step
  PROVE  \/ AtOnce
         \/ \E r \in Requests : \/ \E t : Starts(r, t)
                                \/ MarkItem(r) /\ GoesOn(r) /\ ItemIssues(r)
                                \/ /\ LockTarget(r) /\ GoesOn(r) /\ tx'[r].issues = tx[r].issues
                                   /\ tx[r].at = "lock" /\ tx'[r].at = "commit"
                                   /\ Date[tx[r].x] <= pass[tx[r].p].expires
                                \/ Ends(r)
<1>1. CASE AtOnce
  BY <1>1
<1>2. ASSUME NEW r \in Requests, SessionStep(r) \/ MarkStep(r) \/ PassStep(r) \/ Fail(r)
      PROVE  \/ \E t : Starts(r, t)
             \/ MarkItem(r) /\ GoesOn(r) /\ ItemIssues(r)
             \/ /\ LockTarget(r) /\ GoesOn(r) /\ tx'[r].issues = tx[r].issues
                /\ tx[r].at = "lock" /\ tx'[r].at = "commit"
                /\ Date[tx[r].x] <= pass[tx[r].p].expires
             \/ Ends(r)
  <2>1. CASE Opens(r)
    BY <2>1, OpensStarts
  <2>2. CASE MarkItem(r)
    BY <2>2, ItemGoesOn
  <2>3. CASE LockTarget(r)
    BY <2>3, LockGoesOn DEF Ends
  <2>4. CASE Ends(r)
    BY <2>4
  <2>5. QED
    BY <1>2, <2>1, <2>2, <2>3, <2>4 DEF SessionStep, MarkStep, PassStep, Fail, Opens, Ends
<1>3. QED
  BY <1>1, <1>2 DEF Step, AtOnce

LEMMA EndsEnds ==
  ASSUME NEW r \in Requests, Ends(r)
  PROVE  End(r) /\ UNCHANGED today
BY DEF Ends, CommitSession, CommitMarks, CommitDeleteMark, CommitPass, CommitExpiry, Rollback

-----------------------------------------------------------------------------
(* Passes: what was drawn, read and written.                               *)

\* A number is drawn for one pass only, and a handler reads passes that exist.
IssuesFresh ==
    \A r \in Requests : \A i \in tx[r].issues :
        /\ i[1] \in Passes /\ ~Issued(i[1])
        /\ \A q \in Requests \ {r} : \A j \in tx[q].issues : i[1] # j[1]

ReadsIssued ==
    \A r \in Requests :
        /\ tx[r].op = "pass" => Issued(tx[r].p)
        /\ \A d \in tx[r].due : d[1] \in Passes /\ Issued(d[1])

SameRow(p) == /\ pass'[p].of = pass[p].of /\ pass'[p].origin = pass[p].origin
              /\ pass'[p].expires = pass[p].expires /\ pass'[p].by = pass[p].by

\* The row of p is inserted, saved by its handler, or expired in a list.
Inserted(p) ==
    /\ ~Issued(p) /\ pass'[p].status = "available" /\ pass'[p].target = Nobody
    /\ \/ create_makeup_credit /\ Fresh(p) /\ pass'[p].by = "hand"
       \/ \E r \in Requests : /\ CommitMarks(r)
                              /\ \E i \in tx[r].issues :
                                   /\ i[1] = p /\ pass'[p].of = i[2] /\ pass'[p].origin = tx[r].x
                                   /\ pass'[p].by = IF tx[r].op = "bulk" THEN "bulk" ELSE "mark"

Saved(p) ==
    \E r \in Requests :
        /\ CommitPass(r) /\ tx[r].op = "pass" /\ tx[r].at = "commit" /\ tx[r].p = p
        /\ pass'[p].status = Column(tx[r].seen, tx[r].to, pass[p].status)
        /\ pass'[p].target = Column(tx[r].was, tx[r].aim, pass[p].target)
        /\ SameRow(p)

Lapsed(p) ==
    \E r \in Requests :
        /\ CommitExpiry(r)
        /\ \E d \in tx[r].due : d[1] = p /\ d[2] \in Sessions \cup {Nobody}
        /\ pass'[p].status = "expired"
        /\ pass'[p].target = IF {w \in Sessions \cup {Nobody} : <<p, w>> \in tx[r].due} = {Nobody}
                             THEN pass[p].target ELSE Nobody
        /\ SameRow(p)

LEMMA PassWrites ==
  ASSUME BodyOK, TxTied, IssuesFresh, Step, NEW p \in Passes
  PROVE  pass'[p] = pass[p] \/ Inserted(p) \/ Saved(p) \/ Lapsed(p)
<1>0. pass[p] \in PassRows
  BY DEF BodyOK
<1>1. CASE AtOnce
  <2>1. ASSUME NEW x \in Sessions, ensure_session(x) PROVE pass'[p] = pass[p]
    BY <2>1 DEF ensure_session
  <2>2. CASE create_makeup_credit
    <3>1. PICK n \in Passes, m \in Matriculas, origin \in Sessions \cup {Nobody}, d \in 0..Validity :
            /\ Fresh(n)
            /\ pass' = [pass EXCEPT ![n] = [status |-> "available", of |-> m, origin |-> origin,
                                            target |-> Nobody, expires |-> today + d, by |-> "hand"]]
      BY <2>2 DEF create_makeup_credit
    <3>2. CASE n = p
      BY <2>2, <3>1, <3>2 DEF BodyOK, Inserted, Fresh
    <3>3. CASE n # p
      BY <3>1, <3>3 DEF BodyOK
    <3>4. QED
      BY <3>2, <3>3
  <2>3. CASE Tick
    BY <2>3 DEF Tick, tables
  <2>4. QED
    BY <1>1, <2>1, <2>2, <2>3 DEF AtOnce
<1>2. ASSUME NEW r \in Requests, NEW t, Starts(r, t) PROVE pass'[p] = pass[p]
  BY <1>2 DEF Starts, tables
<1>3. ASSUME NEW r \in Requests, GoesOn(r) PROVE pass'[p] = pass[p]
  BY <1>3 DEF GoesOn, tables
<1>4. ASSUME NEW r \in Requests, Ends(r)
      PROVE  pass'[p] = pass[p] \/ Inserted(p) \/ Saved(p) \/ Lapsed(p)
  <2>1. CASE CommitSession(r) \/ CommitDeleteMark(r) \/ Rollback(r)
    BY <2>1 DEF CommitSession, CommitDeleteMark, Rollback, tables
  <2>2. CASE CommitMarks(r)
    <3>1. CASE ~ \E i \in tx[r].issues : i[1] = p
      BY <2>2, <3>1 DEF CommitMarks
    <3>2. CASE \E i \in tx[r].issues : i[1] = p
      <4> DEFINE issue == CHOOSE i \in tx[r].issues : i[1] = p
                 by == IF tx[r].op = "bulk" THEN "bulk" ELSE "mark"
      <4>1. issue \in tx[r].issues /\ issue[1] = p
        BY <3>2
      <4>2. pass'[p] = [status |-> "available", target |-> Nobody, expires |-> issue[3],
                        of |-> issue[2], origin |-> tx[r].x, by |-> by]
        BY <2>2, <3>2 DEF CommitMarks
      <4>3. ~Issued(p)
        BY <4>1 DEF IssuesFresh
      <4> HIDE DEF issue, by
      <4>4. /\ pass'[p].status = "available" /\ pass'[p].target = Nobody
            /\ pass'[p].of = issue[2] /\ pass'[p].origin = tx[r].x /\ pass'[p].by = by
        BY <4>2
      <4> USE DEF by
      <4>5. QED
        BY <2>2, <4>1, <4>3, <4>4 DEF Inserted
    <3>3. QED
      BY <3>1, <3>2
  <2>3. CASE CommitPass(r)
    <3>1. CASE tx[r].p = p
      BY <1>0, <2>3, <3>1 DEF CommitPass, BodyOK, PassRows, Saved, SameRow
    <3>2. CASE tx[r].p # p
      <4>1. pass' = [pass EXCEPT ![tx[r].p].status = Column(tx[r].seen, tx[r].to, @),
                                 ![tx[r].p].target = Column(tx[r].was, tx[r].aim, @)]
        BY <2>3 DEF CommitPass
      <4>2. QED
        BY <3>2, <4>1 DEF BodyOK
    <3>3. QED
      BY <3>1, <3>2
  <2>4. CASE CommitExpiry(r)
    <3> DEFINE read == {w \in Sessions \cup {Nobody} : <<p, w>> \in tx[r].due}
    <3>1. pass'[p] = IF read = {} THEN pass[p]
                     ELSE [pass[p] EXCEPT !.status = "expired",
                                          !.target = IF read = {Nobody} THEN @ ELSE Nobody]
      BY <2>4 DEF CommitExpiry
    <3>2. CASE read = {}
      BY <3>1, <3>2
    <3>3. CASE read # {}
      <4>1. PICK w \in Sessions \cup {Nobody} : <<p, w>> \in tx[r].due
        BY <3>3
      <4>2. \E d \in tx[r].due : d[1] = p /\ d[2] \in Sessions \cup {Nobody}
        BY <4>1
      <4>3. /\ pass'[p].status = "expired"
            /\ pass'[p].target = IF read = {Nobody} THEN pass[p].target ELSE Nobody
            /\ SameRow(p)
        BY <1>0, <3>1, <3>3 DEF PassRows, SameRow
      <4>4. QED
        BY <2>4, <4>2, <4>3 DEF Lapsed
    <3>4. QED
      BY <3>2, <3>3
  <2>5. QED
    BY <1>4, <2>1, <2>2, <2>3, <2>4 DEF Ends
<1>5. QED
  BY <1>1, <1>2, <1>3, <1>4, StepKinds

LEMMA IssuedStays ==
  ASSUME BodyOK, TxTied, IssuesFresh, Step, NEW p \in Passes, Issued(p)
  PROVE  Issued(p)' /\ SameRow(p)
<1>1. CASE pass'[p] = pass[p]
  BY <1>1 DEF Issued, SameRow
<1>2. CASE Saved(p)
  <2>1. PICK r \in Requests :
          /\ tx[r].op = "pass" /\ SameRow(p)
          /\ pass'[p].status = Column(tx[r].seen, tx[r].to, pass[p].status)
    BY <1>2 DEF Saved
  <2>2. tx[r].to \in MakeUpStatus
    BY <2>1 DEF TxTied, Tied
  <2>3. QED
    BY <2>1, <2>2 DEF Column, Issued, MakeUpStatus
<1>3. CASE Lapsed(p)
  BY <1>3 DEF Lapsed, Issued
<1>4. QED
  BY <1>1, <1>2, <1>3, PassWrites DEF Inserted

\* What a step does to the passes that the requests have drawn.
LEMMA IssuesMove ==
  ASSUME BodyOK, TxTied, Step
  PROVE  \E r \in Requests \cup {Nobody} :
           /\ \A q \in Requests \ {r} : tx'[q] = tx[q]
           /\ \/ r = Nobody
              \/ r \in Requests /\ tx'[r].issues \in {{}, tx[r].issues}
              \/ r \in Requests /\ ItemIssues(r) /\ UNCHANGED pass
<1>1. CASE AtOnce
  BY <1>1 DEF AtOnce, ensure_session, create_makeup_credit, Tick
<1>2. ASSUME NEW r \in Requests, NEW t, Starts(r, t)
      PROVE  tx'[r].issues = {} /\ \A q \in Requests \ {r} : tx'[q] = tx[q]
  BY <1>2, StartGoes DEF Starts
<1>3. ASSUME NEW r \in Requests, GoesOn(r)
      PROVE  UNCHANGED pass /\ \A q \in Requests \ {r} : tx'[q] = tx[q]
  BY <1>3, GoesOnGoes DEF GoesOn, tables
<1>4. ASSUME NEW r \in Requests, Ends(r)
      PROVE  tx'[r].issues = {} /\ \A q \in Requests \ {r} : tx'[q] = tx[q]
  BY <1>4, EndsEnds, EndKeepsOthers, NoTxFields
<1>5. QED
  BY <1>1, <1>2, <1>3, <1>4, StepKinds

\* A drawn pass is inserted by the request that drew it, when that request ends.
LEMMA StaysFresh ==
  ASSUME BodyOK, TxTied, IssuesFresh, ReadsIssued, Step,
         NEW q \in Requests, NEW i \in tx[q].issues, tx'[q].issues # {}
  PROVE  ~Issued(i[1])'
<1>1. i[1] \in Passes /\ ~Issued(i[1])
  BY DEF IssuesFresh
<1>2. CASE pass'[i[1]] = pass[i[1]]
  BY <1>1, <1>2 DEF Issued
<1>3. ~Saved(i[1]) /\ ~Lapsed(i[1])
  BY <1>1 DEF Saved, Lapsed, ReadsIssued
<1>4. ~Inserted(i[1])
  <2>1. ~Fresh(i[1])
    BY DEF Fresh
  <2>2. ASSUME NEW r \in Requests, CommitMarks(r), NEW j \in tx[r].issues, j[1] = i[1]
        PROVE  FALSE
    <3>1. r = q
      BY <2>2 DEF IssuesFresh
    <3>2. tx'[q].issues = {}
      BY <2>2, <3>1, EndsEnds, EndKeepsOthers, NoTxFields DEF Ends
    <3>3. QED
      BY <3>2
  <2>3. QED
    BY <2>1, <2>2 DEF Inserted
<1>5. QED
  BY <1>1, <1>2, <1>3, <1>4, PassWrites

LEMMA FreshStep ==
  ASSUME BodyOK, TxTied, IssuesFresh, ReadsIssued, Step
  PROVE  IssuesFresh'
<1> PICK r \in Requests \cup {Nobody} :
           /\ \A q \in Requests \ {r} : tx'[q] = tx[q]
           /\ \/ r = Nobody
              \/ r \in Requests /\ tx'[r].issues \in {{}, tx[r].issues}
              \/ r \in Requests /\ ItemIssues(r) /\ UNCHANGED pass
  BY IssuesMove
<1>1. CASE \A q \in Requests : tx'[q].issues \in {{}, tx[q].issues}
  <2> SUFFICES ASSUME NEW q \in Requests, NEW i \in tx'[q].issues
               PROVE  /\ i[1] \in Passes /\ ~Issued(i[1])'
                      /\ \A n \in Requests \ {q} : \A j \in tx'[n].issues : i[1] # j[1]
    BY DEF IssuesFresh
  <2>1. i \in tx[q].issues /\ tx'[q].issues # {}
    BY <1>1
  <2>2. ~Issued(i[1])'
    BY <2>1, StaysFresh
  <2>3. QED
    BY <1>1, <2>1, <2>2 DEF IssuesFresh
<1>2. CASE r \in Requests /\ ItemIssues(r) /\ UNCHANGED pass /\ tx'[r].issues # tx[r].issues
  <2>1. PICK p \in Passes, m \in Matriculas, e \in Nat :
          Fresh(p) /\ tx'[r].issues = tx[r].issues \cup {<<p, m, e>>}
    BY <1>2 DEF ItemIssues
  <2>2. \A q \in Requests \ {r} : tx'[q] = tx[q]
    OBVIOUS
  <2>3. ~Issued(p) /\ \A q \in Requests : \A j \in tx[q].issues : j[1] # p
    BY <2>1 DEF Fresh
  <2>4. \A q : Issued(q)' <=> Issued(q)
    BY <1>2 DEF Issued
  <2> SUFFICES ASSUME NEW q \in Requests, NEW i \in tx'[q].issues
               PROVE  /\ i[1] \in Passes /\ ~Issued(i[1])
                      /\ \A n \in Requests \ {q} : \A j \in tx'[n].issues : i[1] # j[1]
    BY <2>4 DEF IssuesFresh
  <2>5. CASE q # r
    <3>1. i \in tx[q].issues
      BY <2>2, <2>5
    <3>2. \A n \in Requests \ {q, r} : \A j \in tx'[n].issues : i[1] # j[1]
      BY <2>2, <3>1 DEF IssuesFresh
    <3>3. \A j \in tx'[r].issues : i[1] # j[1]
      BY <1>2, <2>1, <2>3, <2>5, <3>1 DEF IssuesFresh
    <3>4. QED
      BY <2>5, <3>1, <3>2, <3>3 DEF IssuesFresh
  <2>6. CASE q = r /\ i \in tx[r].issues
    BY <1>2, <2>2, <2>6 DEF IssuesFresh
  <2>7. CASE q = r /\ i = <<p, m, e>>
    BY <1>2, <2>2, <2>3, <2>7
  <2>8. QED
    BY <2>1, <2>5, <2>6, <2>7
<1>3. QED
  BY <1>1, <1>2, ClassroomAssumption, ClassroomAssumption

LEMMA ReadsStep ==
  ASSUME BodyOK, TxTied, IssuesFresh, ReadsIssued, Step
  PROVE  ReadsIssued'
<1>1. \A p \in Passes : pass[p].status # "unborn" => pass'[p].status # "unborn"
  BY IssuedStays DEF Issued
<1>2. ASSUME NEW q \in Requests, tx'[q].op = tx[q].op, tx'[q].p = tx[q].p, tx'[q].due = tx[q].due
      PROVE  /\ tx'[q].op = "pass" => pass'[tx'[q].p].status # "unborn"
             /\ \A d \in tx'[q].due : d[1] \in Passes /\ pass'[d[1]].status # "unborn"
  <2>1. tx[q].op = "pass" => tx[q].p \in Passes
    BY DEF TxTied, Tied
  <2>2. QED
    BY <1>1, <1>2, <2>1 DEF ReadsIssued, Issued
<1>3. CASE AtOnce
  <2>1. tx' = tx
    BY <1>3 DEF AtOnce, ensure_session, create_makeup_credit, Tick
  <2>2. QED
    BY <1>2, <2>1 DEF ReadsIssued, Issued
<1>4. ASSUME NEW r \in Requests, NEW t, Starts(r, t) PROVE ReadsIssued'
  <2>1. tx'[r] = t /\ \A q \in Requests \ {r} : tx'[q] = tx[q]
    BY <1>4, StartGoes
  <2>2. pass' = pass
    BY <1>4 DEF Starts, tables
  <2>3. /\ t.op = "pass" => Issued(t.p)
        /\ \A d \in t.due : d[1] \in Passes /\ Issued(d[1])
    <3>1. CASE t.op = "pass"
      BY <1>4, <3>1 DEF Starts, PassRead
    <3>2. CASE t.op = "list"
      BY <1>4, <3>2 DEF Starts, ListRead, Due, Issued
    <3>3. CASE t.op \notin {"pass", "list"}
      <4>1. t.due = {}
        BY <1>4, <3>3 DEF Starts, MarksRead, SessionRead
      <4>2. QED
        BY <3>3, <4>1
    <3>4. QED
      BY <3>1, <3>2, <3>3
  <2>4. QED
    BY <1>2, <2>1, <2>2, <2>3 DEF ReadsIssued, Issued
<1>5. ASSUME NEW r \in Requests, GoesOn(r) PROVE ReadsIssued'
  <2>1. \A q \in Requests \ {r} : tx'[q] = tx[q]
    BY <1>5, GoesOnGoes
  <2>2. QED
    BY <1>2, <1>5, <2>1 DEF GoesOn, ReadsIssued, Issued
<1>6. ASSUME NEW r \in Requests, Ends(r) PROVE ReadsIssued'
  <2>1. tx'[r] = NoTx /\ \A q \in Requests \ {r} : tx'[q] = tx[q]
    BY <1>6, EndsEnds, EndKeepsOthers
  <2>2. NoTx.op # "pass" /\ NoTx.due = {}
    BY DEF NoTx
  <2>3. QED
    BY <1>2, <2>1, <2>2 DEF ReadsIssued, Issued
<1>7. QED
  BY <1>3, <1>4, <1>5, <1>6, StepKinds

-----------------------------------------------------------------------------
(* A booked pass expires only once its class is over.                      *)

LEMMA TimePasses ==
  ASSUME BodyOK, TxTied, Step
  PROVE  today' >= today
<1>1. today \in Nat
  BY ClassroomAssumption DEF BodyOK
<1>2. CASE AtOnce
  BY <1>1, <1>2 DEF AtOnce, ensure_session, create_makeup_credit, Tick
<1>3. ASSUME NEW r \in Requests, NEW t, Starts(r, t) PROVE today' = today
  BY <1>3 DEF Starts
<1>4. ASSUME NEW r \in Requests, GoesOn(r) PROVE today' = today
  BY <1>4 DEF GoesOn
<1>5. ASSUME NEW r \in Requests, Ends(r) PROVE today' = today
  BY <1>5, EndsEnds
<1>6. QED
  BY <1>1, <1>2, <1>3, <1>4, <1>5, StepKinds

\* What a handler that expires a pass, or gives it a class, has made sure of.
Timely(t) ==
    /\ t.op = "pass" => /\ t.to = "expired" => pass[t.p].expires < today
                        /\ t.at = "commit" /\ t.aim # Nobody => Date[t.aim] <= pass[t.p].expires
                        /\ t.at = "lock" => t.x = t.aim
    /\ \A d \in t.due : pass[d[1]].expires < today

\* The class of a pass is never later than its last day.
Dated ==
    /\ \A p \in Passes : pass[p].target # Nobody => Date[pass[p].target] <= pass[p].expires
    /\ \A r \in Requests : Timely(tx[r])

\* The inductive invariant of the passes.
PassInv == BodyOK /\ TxTied /\ IssuesFresh /\ ReadsIssued /\ Dated

LEMMA TargetsDated ==
  ASSUME PassInv, Step, NEW p \in Passes, pass'[p].target # Nobody
  PROVE  Date[pass'[p].target] <= pass'[p].expires
<1> USE DEF PassInv
<1>1. CASE pass'[p] = pass[p]
  BY <1>1 DEF Dated
<1>2. CASE Inserted(p)
  BY <1>2 DEF Inserted
<1>3. CASE Saved(p)
  <2>1. PICK r \in Requests :
          /\ tx[r].op = "pass" /\ tx[r].at = "commit" /\ tx[r].p = p
          /\ pass'[p].target = Column(tx[r].was, tx[r].aim, pass[p].target)
          /\ SameRow(p)
    BY <1>3 DEF Saved
  <2>2. pass'[p].expires = pass[p].expires
    BY <2>1 DEF SameRow
  <2>3. pass'[p].target \in {pass[p].target, tx[r].aim}
    BY <2>1 DEF Column
  <2>4. tx[r].aim # Nobody => Date[tx[r].aim] <= pass[p].expires
    BY <2>1 DEF Dated, Timely
  <2>5. QED
    BY <2>2, <2>3, <2>4 DEF Dated
<1>4. CASE Lapsed(p)
  <2>1. pass'[p].target \in {pass[p].target, Nobody} /\ pass'[p].expires = pass[p].expires
    BY <1>4 DEF Lapsed, SameRow
  <2>2. QED
    BY <2>1 DEF Dated
<1>5. QED
  BY <1>1, <1>2, <1>3, <1>4, PassWrites

LEMMA TimelyStep ==
  ASSUME PassInv, Step, NEW q \in Requests
  PROVE  Timely(tx[q])'
<1> USE DEF PassInv
<1>1. \A p \in Passes : pass[p].status # "unborn" => pass'[p].expires = pass[p].expires
  BY IssuedStays DEF Issued, SameRow
<1>2. \A p \in Passes : pass[p].expires \in Nat
  BY DEF BodyOK, PassRows
<1>3. today \in Nat /\ today' \in Nat /\ today' >= today
  <2>1. BodyOK'
    BY StepType
  <2>2. QED
    BY <2>1, TimePasses, ClassroomAssumption DEF BodyOK
<1>4. ASSUME tx'[q].op = tx[q].op, tx'[q].p = tx[q].p, tx'[q].due = tx[q].due,
             tx'[q].to = tx[q].to, tx'[q].aim = tx[q].aim,
             \/ tx'[q].at = tx[q].at /\ tx'[q].x = tx[q].x
             \/ /\ tx[q].op = "pass" /\ tx[q].at = "lock" /\ tx'[q].at = "commit"
                /\ Date[tx[q].x] <= pass[tx[q].p].expires
             \/ tx[q].op # "pass"
      PROVE  Timely(tx[q])'
  <2>1. ASSUME tx[q].op = "pass"
        PROVE  /\ tx[q].to = "expired" => pass'[tx[q].p].expires < today'
               /\ tx'[q].at = "commit" /\ tx[q].aim # Nobody => Date[tx[q].aim] <= pass'[tx[q].p].expires
               /\ tx'[q].at = "lock" => tx'[q].x = tx[q].aim
    <3>1. tx[q].p \in Passes /\ pass'[tx[q].p].expires = pass[tx[q].p].expires
      BY <1>1, <2>1 DEF TxTied, Tied, ReadsIssued, Issued
    <3>2. Timely(tx[q])
      BY DEF Dated
    <3>3. tx[q].to = "expired" => pass'[tx[q].p].expires < today'
      BY <1>2, <1>3, <2>1, <3>1, <3>2 DEF Timely
    <3>4. tx'[q].at = "commit" /\ tx[q].aim # Nobody => Date[tx[q].aim] <= pass'[tx[q].p].expires
      BY <1>4, <2>1, <3>1, <3>2 DEF Timely
    <3>5. tx'[q].at = "lock" => tx'[q].x = tx[q].aim
      BY <1>4, <2>1, <3>2 DEF Timely
    <3>6. QED
      BY <3>3, <3>4, <3>5
  <2>2. ASSUME NEW d \in tx[q].due PROVE pass'[d[1]].expires < today'
    <3>1. d[1] \in Passes /\ pass[d[1]].status # "unborn"
      BY DEF ReadsIssued, Issued
    <3>2. pass[d[1]].expires < today
      BY DEF Dated, Timely
    <3>3. QED
      BY <1>1, <1>2, <1>3, <3>1, <3>2
  <2>3. QED
    BY <1>4, <2>1, <2>2 DEF Timely
<1>5. CASE AtOnce
  <2>1. tx' = tx
    BY <1>5 DEF AtOnce, ensure_session, create_makeup_credit, Tick
  <2>2. QED
    BY <1>4, <2>1
<1>6. ASSUME NEW r \in Requests, NEW t, Starts(r, t) PROVE Timely(tx[q])'
  <2>1. tx'[r] = t /\ (q # r => tx'[q] = tx[q])
    BY <1>6, StartGoes
  <2>2. pass' = pass /\ today' = today
    BY <1>6 DEF Starts, tables
  <2>3. CASE q = r
    <3>1. CASE t.op = "pass"
      <4>1. /\ t.p \in Passes /\ t.due = {} /\ t.was = pass[t.p].target
            /\ t.to = "expired" => pass[t.p].expires < today
            /\ t.at = "commit" => t.aim \in {Nobody, t.was}
            /\ t.at # "commit" => t.x = t.aim
        BY <1>6, <3>1 DEF Starts, PassRead
      <4>2. QED
        BY <2>1, <2>2, <2>3, <4>1 DEF Timely, Dated
    <3>2. CASE t.op = "list"
      <4>1. \A d \in t.due : pass[d[1]].expires < today
        BY <1>6, <3>2 DEF Starts, ListRead, Due
      <4>2. QED
        BY <2>1, <2>2, <2>3, <3>2, <4>1 DEF Timely
    <3>3. CASE t.op \notin {"pass", "list"}
      <4>1. t.due = {}
        BY <1>6, <3>3 DEF Starts, MarksRead, SessionRead
      <4>2. QED
        BY <2>1, <2>3, <3>3, <4>1 DEF Timely
    <3>4. QED
      BY <3>1, <3>2, <3>3
  <2>4. CASE q # r
    BY <1>4, <2>1, <2>4
  <2>5. QED
    BY <2>3, <2>4
<1>7. ASSUME NEW r \in Requests, MarkItem(r), GoesOn(r) PROVE Timely(tx[q])'
  <2>1. tx[r].op # "pass"
    BY <1>7 DEF MarkItem, TxTied, Tied
  <2>2. q # r => tx'[q] = tx[q]
    BY <1>7, GoesOnGoes
  <2>3. QED
    BY <1>4, <1>7, <2>1, <2>2 DEF GoesOn
<1>8. ASSUME NEW r \in Requests, LockTarget(r), GoesOn(r), tx[r].at = "lock", tx'[r].at = "commit",
             Date[tx[r].x] <= pass[tx[r].p].expires
      PROVE  Timely(tx[q])'
  <2>1. tx[r].op = "pass"
    BY <1>8 DEF TxTied, Tied
  <2>2. q # r => tx'[q] = tx[q]
    BY <1>8, GoesOnGoes
  <2>3. QED
    BY <1>4, <1>8, <2>1, <2>2 DEF GoesOn
<1>9. ASSUME NEW r \in Requests, Ends(r) PROVE Timely(tx[q])'
  <2>1. tx'[r] = NoTx /\ (q # r => tx'[q] = tx[q])
    BY <1>9, EndsEnds, EndKeepsOthers
  <2>2. NoTx.op # "pass" /\ NoTx.due = {}
    BY DEF NoTx
  <2>3. QED
    BY <1>4, <2>1, <2>2 DEF Timely
<1>10. QED
  BY <1>5, <1>6, <1>7, <1>8, <1>9, StepKinds

LEMMA PassInvStep ==
  ASSUME PassInv, Step
  PROVE  PassInv'
<1>1. BodyOK' /\ TxTied'
  BY StepType DEF PassInv
<1>2. IssuesFresh' /\ ReadsIssued'
  BY FreshStep, ReadsStep DEF PassInv
<1>3. Dated'
  BY TargetsDated, TimelyStep DEF Dated
<1>4. QED
  BY <1>1, <1>2, <1>3 DEF PassInv

LEMMA PassInvInit ==
  ASSUME Init
  PROVE  PassInv
<1>1. TypeOK /\ TxTied
  BY InitType
<1>2. BodyOK
  BY <1>1, TypeParts
<1>3. \A r \in Requests : tx[r] = NoTx
  BY DEF Init
<1>4. NoTx.op = "none" /\ NoTx.due = {} /\ NoTx.issues = {}
  BY DEF NoTx
<1>5. \A p \in Passes : pass[p].target = Nobody
  BY DEF Init, NoPass
<1>6. IssuesFresh /\ ReadsIssued /\ Dated
  BY <1>3, <1>4, <1>5 DEF IssuesFresh, ReadsIssued, Dated, Timely
<1>7. QED
  BY <1>1, <1>2, <1>6 DEF PassInv

LEMMA PassInvStutter ==
  ASSUME PassInv, UNCHANGED vars
  PROVE  PassInv'
BY DEF vars, tables, locks, PassInv, BodyOK, TxTied, IssuesFresh, ReadsIssued, Dated, Timely, Issued

LEMMA PassInvHolds == Spec => []PassInv
<1>1. Init => PassInv
  BY PassInvInit
<1>2. PassInv /\ [Next]_vars => PassInv'
  BY PassInvStep, PassInvStutter DEF Next
<1>3. QED
  BY <1>1, <1>2, PTL DEF Spec

\* Whatever the interleaving of bookings, releases, lists and days, a booked pass
\* becomes expired only when the day of its class is past.
THEOREM ExpiresAfterClass == Spec => ExpiredAfterClass
<1> DEFINE Step1 == \A p \in Passes :
             (pass[p].status = "booked" /\ pass[p].target # Nobody /\ pass'[p].status = "expired")
                => Date[pass[p].target] < today
<1>1. PassInv /\ [Next]_vars => [Step1]_vars
  <2> SUFFICES ASSUME PassInv, Next, NEW p \in Passes,
                      pass[p].status = "booked", pass[p].target # Nobody, pass'[p].status = "expired"
               PROVE  Date[pass[p].target] < today
    OBVIOUS
  <2> USE DEF PassInv
  <2>1. Step
    BY DEF Next
  <2>2. Date[pass[p].target] <= pass[p].expires
    BY DEF Dated
  <2>3. pass[p].expires < today
    <3>1. CASE Saved(p)
      <4>1. PICK r \in Requests :
              /\ tx[r].op = "pass" /\ tx[r].p = p
              /\ pass'[p].status = Column(tx[r].seen, tx[r].to, pass[p].status)
        BY <3>1 DEF Saved
      <4>2. tx[r].to = "expired"
        BY <4>1 DEF Column
      <4>3. QED
        BY <4>1, <4>2 DEF Dated, Timely
    <3>2. CASE Lapsed(p)
      <4>1. PICK r \in Requests : \E d \in tx[r].due : d[1] = p
        BY <3>2 DEF Lapsed
      <4>2. QED
        BY <4>1 DEF Dated, Timely
    <3>3. QED
      BY <2>1, <3>1, <3>2, PassWrites DEF Inserted
  <2>4. /\ Date[pass[p].target] \in Nat /\ pass[p].expires \in Nat /\ today \in Nat
    BY ClassroomAssumption DEF BodyOK, PassRows
  <2>5. QED
    BY <2>2, <2>3, <2>4
<1>2. QED
  BY <1>1, PassInvHolds, PTL DEF Spec, ExpiredAfterClass

-----------------------------------------------------------------------------
(* One pass per absence.                                                   *)

\* Nobody takes the row of a mark from the request that holds it.
LEMMA LocksKept ==
  ASSUME BodyOK, TxTied, Step, NEW q \in Requests, NEW x \in Sessions, NEW m \in Matriculas,
         markLock[x][m] = q, tx'[q].op # "none"
  PROVE  markLock'[x][m] = q
<1>1. CASE AtOnce
  BY <1>1 DEF AtOnce, ensure_session, create_makeup_credit, Tick, locks
<1>2. ASSUME NEW r \in Requests, NEW t, Starts(r, t) PROVE markLock'[x][m] = q
  BY <1>2 DEF Starts, locks
<1>3. ASSUME NEW r \in Requests, MarkItem(r) PROVE markLock'[x][m] = q
  <2> DEFINE n == Head(tx[r].items)[1]
  <2>1. CASE UNCHANGED markLock
    BY <2>1
  <2>2. CASE RowFree(markLock[tx[r].x][n], r) /\ markLock' = [markLock EXCEPT ![tx[r].x][n] = r]
    <3>1. markLock[tx[r].x][n] \in {Nobody, r}
      BY <2>2 DEF RowFree, Free
    <3>2. q # Nobody
      BY ClassroomAssumption
    <3>3. CASE tx[r].x = x /\ n = m
      BY <2>2, <3>1, <3>2, <3>3 DEF BodyOK
    <3>4. CASE ~(tx[r].x = x /\ n = m)
      <4>1. markLock[x] \in [Matriculas -> Requests \cup {Nobody}]
        BY DEF BodyOK
      <4>2. markLock' = [markLock EXCEPT ![tx[r].x] = [markLock[tx[r].x] EXCEPT ![n] = r]]
        BY <2>2
      <4>3. QED
        BY <3>4, <4>1, <4>2 DEF BodyOK
    <3>5. QED
      BY <3>3, <3>4
  <2>3. QED
    BY <1>3, <2>1, <2>2 DEF MarkItem
<1>4. ASSUME NEW r \in Requests, LockTarget(r), tx'[r].at = "commit" PROVE markLock'[x][m] = q
  <2>1. ~Rollback(r)
    BY <1>4, EndKeepsOthers DEF Rollback, NoTx
  <2>2. QED
    BY <1>4, <2>1 DEF LockTarget
<1>5. ASSUME NEW r \in Requests, Ends(r) PROVE markLock'[x][m] = q
  <2>1. r # q
    BY <1>5, EndsEnds, EndKeepsOthers DEF NoTx
  <2>2. QED
    BY <1>5, <2>1, EndsEnds DEF End
<1>6. QED
  BY <1>1, <1>2, <1>3, <1>4, <1>5, StepKinds

\* A request for a single mark draws at most one pass, holds the mark's row, and
\* no pass that a single mark has issued is for that absence.
Holds(r) ==
    tx[r].op = "marks" =>
      /\ tx[r].items # <<>> => tx[r].issues = {} /\ Tail(tx[r].items) = <<>> /\ tx[r].known = NoMarks
      /\ \A i, j \in tx[r].issues : i = j
      /\ \A i \in tx[r].issues :
           /\ i[2] \in Matriculas /\ markLock[tx[r].x][i[2]] = r
           /\ \A p \in Passes : ~(pass[p].by = "mark" /\ pass[p].of = i[2] /\ pass[p].origin = tx[r].x)

CreditInv ==
    /\ PassInv
    /\ OneCreditPerAbsence
    /\ \A p \in Passes : pass[p].by = "mark" => Issued(p)
    /\ \A r \in Requests : Holds(r)

\* Where a pass of a single mark comes from.
NewByMark(p) ==
    \E r \in Requests :
        /\ CommitMarks(r) /\ tx[r].op = "marks"
        /\ \E i \in tx[r].issues : i[1] = p /\ pass'[p].of = i[2] /\ pass'[p].origin = tx[r].x

LEMMA ByMark ==
  ASSUME PassInv, Step, NEW p \in Passes, pass'[p].by = "mark"
  PROVE  \/ SameRow(p) /\ pass[p].by = "mark"
         \/ Inserted(p) /\ NewByMark(p)
<1> USE DEF PassInv
<1>1. CASE Inserted(p)
  <2>1. PICK r \in Requests :
          /\ CommitMarks(r)
          /\ \E i \in tx[r].issues :
               /\ i[1] = p /\ pass'[p].of = i[2] /\ pass'[p].origin = tx[r].x
               /\ pass'[p].by = IF tx[r].op = "bulk" THEN "bulk" ELSE "mark"
    BY <1>1 DEF Inserted
  <2>2. tx[r].op = "marks"
    <3>1. tx[r].op \in {"marks", "bulk"}
      BY <2>1 DEF CommitMarks, TxTied, Tied
    <3>2. QED
      BY <2>1, <3>1
  <2>3. QED
    BY <1>1, <2>1, <2>2 DEF NewByMark
<1>2. CASE pass'[p] = pass[p]
  BY <1>2 DEF SameRow
<1>3. CASE Saved(p) \/ Lapsed(p)
  BY <1>3 DEF Saved, Lapsed, SameRow
<1>4. QED
  BY <1>1, <1>2, <1>3, PassWrites

LEMMA ByMarkIssued ==
  ASSUME CreditInv, Step, NEW p \in Passes, pass'[p].by = "mark"
  PROVE  Issued(p)'
<1> USE DEF CreditInv
<1>1. CASE SameRow(p) /\ pass[p].by = "mark"
  BY <1>1, IssuedStays DEF PassInv
<1>2. CASE Inserted(p)
  BY <1>2 DEF Inserted, Issued
<1>3. QED
  BY <1>1, <1>2, ByMark

\* A commit of a single mark inserts the only pass of that absence.
LEMMA OneCreditStep ==
  ASSUME CreditInv, Step
  PROVE  OneCreditPerAbsence'
<1> USE DEF CreditInv
<1> SUFFICES ASSUME NEW p \in Passes, NEW q \in Passes,
                    pass'[p].by = "mark", pass'[q].by = "mark",
                    pass'[p].of = pass'[q].of, pass'[p].origin = pass'[q].origin
             PROVE  p = q
  BY DEF OneCreditPerAbsence
<1>1. ASSUME NEW n \in Passes, NEW o \in Passes, NewByMark(n), SameRow(o), pass[o].by = "mark",
             pass'[n].of = pass'[o].of, pass'[n].origin = pass'[o].origin
      PROVE  FALSE
  <2>1. PICK r \in Requests :
          /\ tx[r].op = "marks"
          /\ \E i \in tx[r].issues : pass'[n].of = i[2] /\ pass'[n].origin = tx[r].x
    BY <1>1 DEF NewByMark
  <2>2. PICK i \in tx[r].issues : pass'[n].of = i[2] /\ pass'[n].origin = tx[r].x
    BY <2>1
  <2>3. ~(pass[o].by = "mark" /\ pass[o].of = i[2] /\ pass[o].origin = tx[r].x)
    BY <2>1 DEF Holds
  <2>4. QED
    BY <1>1, <2>2, <2>3 DEF SameRow
<1>2. CASE NewByMark(p) /\ NewByMark(q)
  <2>1. PICK r \in Requests :
          /\ CommitMarks(r) /\ tx[r].op = "marks"
          /\ \E i \in tx[r].issues : i[1] = p /\ pass'[p].of = i[2] /\ pass'[p].origin = tx[r].x
    BY <1>2 DEF NewByMark
  <2>2. PICK s \in Requests :
          /\ CommitMarks(s) /\ tx[s].op = "marks"
          /\ \E j \in tx[s].issues : j[1] = q /\ pass'[q].of = j[2] /\ pass'[q].origin = tx[s].x
    BY <1>2 DEF NewByMark
  <2>3. PICK i \in tx[r].issues : i[1] = p /\ pass'[p].of = i[2] /\ pass'[p].origin = tx[r].x
    BY <2>1
  <2>4. PICK j \in tx[s].issues : j[1] = q /\ pass'[q].of = j[2] /\ pass'[q].origin = tx[s].x
    BY <2>2
  <2>5. markLock[tx[r].x][i[2]] = r /\ markLock[tx[s].x][j[2]] = s
    BY <2>1, <2>2 DEF Holds
  <2>6. r = s
    BY <2>3, <2>4, <2>5
  <2>7. i = j
    BY <2>1, <2>6 DEF Holds
  <2>8. QED
    BY <2>3, <2>4, <2>7
<1>3. CASE SameRow(p) /\ pass[p].by = "mark" /\ SameRow(q) /\ pass[q].by = "mark"
  BY <1>3 DEF SameRow, OneCreditPerAbsence
<1>4. (SameRow(p) /\ pass[p].by = "mark") \/ NewByMark(p)
  BY ByMark
<1>5. (SameRow(q) /\ pass[q].by = "mark") \/ NewByMark(q)
  BY ByMark
<1>6. QED
  BY <1>1, <1>2, <1>3, <1>4, <1>5

\* The single mark is written, and its pass drawn, under the lock of its row.
LEMMA ItemHolds ==
  ASSUME BodyOK, TxTied, NEW r \in Requests, MarkItem(r), tx[r].op = "marks", Holds(r)
  PROVE  /\ tx'[r].x = tx[r].x /\ tx'[r].items = <<>>
         /\ \/ tx'[r].issues = {}
            \/ \E p \in Passes, m \in Matriculas, e \in Nat :
                 /\ tx'[r].issues = {<<p, m, e>>}
                 /\ NeedsPass(m, tx[r].x) /\ markLock'[tx[r].x][m] = r
<1> DEFINE t == tx[r]
           m == Head(t.items)[1]
           to == Head(t.items)[2]
           done == [t EXCEPT !.items = Tail(@), !.writes[m] = to]
<1>1. t \in Transactions /\ t.x \in Sessions /\ t.items \in Items /\ t.items # <<>>
  BY DEF MarkItem, BodyOK, TxTied, Tied, Transactions
<1>2. m \in Matriculas
  BY <1>1 DEF Items
<1>3. t.issues = {} /\ Tail(t.items) = <<>> /\ t.known = NoMarks
  BY <1>1 DEF Holds
<1>4. done.x = t.x /\ done.items = <<>> /\ done.issues = {}
  BY <1>1, <1>3 DEF Transactions
<1>5. markLock'[t.x][m] = r
  <2>1. TakesRow(r, m)
    BY <1>2, <1>3 DEF TakesRow, NoMarks
  <2>2. markLock' = [markLock EXCEPT ![t.x][m] = r]
    BY <2>1 DEF MarkItem
  <2>3. QED
    BY <1>1, <1>2, <2>2 DEF BodyOK
<1>6. CASE tx' = [tx EXCEPT ![r] = done]
  <2>1. tx'[r] = done
    BY <1>6 DEF BodyOK
  <2>2. QED
    BY <1>4, <2>1
<1>7. ASSUME NEW p \in Passes, NeedsPass(m, t.x),
             tx' = [tx EXCEPT ![r] = [done EXCEPT !.issues = @ \cup {<<p, m, today + Validity>>}]]
      PROVE  /\ tx'[r].x = t.x /\ tx'[r].items = <<>>
             /\ \E n \in Matriculas, e \in Nat :
                  /\ tx'[r].issues = {<<p, n, e>>}
                  /\ NeedsPass(n, t.x) /\ markLock'[t.x][n] = r
  <2> DEFINE I == {<<p, m, today + Validity>>}
             u == [done EXCEPT !.issues = I]
  <2>1. tx'[r] = u
    BY <1>4, <1>7 DEF BodyOK
  <2>2. u.x = done.x /\ u.items = done.items
    BY <1>1 DEF Transactions
  <2>3. u.issues = I
    BY <1>1 DEF Transactions
  <2>4. today + Validity \in Nat
    BY ClassroomAssumption DEF BodyOK
  <2>5. tx'[r].issues = {<<p, m, today + Validity>>}
    BY <2>1, <2>3
  <2>6. QED
    BY <1>2, <1>4, <1>5, <1>7, <2>1, <2>2, <2>4, <2>5
<1>8. QED
  BY <1>6, <1>7 DEF MarkItem

LEMMA HoldsStep ==
  ASSUME CreditInv, Step, NEW q \in Requests
  PROVE  Holds(q)'
<1> USE DEF CreditInv
<1>0. BodyOK /\ TxTied
  BY DEF PassInv
<1>1. ASSUME tx'[q] = tx[q] PROVE Holds(q)'
  <2> SUFFICES ASSUME tx[q].op = "marks" PROVE Holds(q)'
    BY <1>1 DEF Holds
  <2>1. /\ tx[q].items # <<>> => tx[q].issues = {} /\ Tail(tx[q].items) = <<>> /\ tx[q].known = NoMarks
        /\ \A i, j \in tx[q].issues : i = j
    BY DEF Holds
  <2>2. ASSUME NEW i \in tx[q].issues
        PROVE  /\ i[2] \in Matriculas /\ markLock'[tx[q].x][i[2]] = q
               /\ \A p \in Passes :
                    ~(pass'[p].by = "mark" /\ pass'[p].of = i[2] /\ pass'[p].origin = tx[q].x)
    <3>1. /\ i[2] \in Matriculas /\ markLock[tx[q].x][i[2]] = q
          /\ \A p \in Passes : ~(pass[p].by = "mark" /\ pass[p].of = i[2] /\ pass[p].origin = tx[q].x)
      BY DEF Holds
    <3>2. tx[q].x \in Sessions
      BY <1>0 DEF TxTied, Tied
    <3>3. markLock'[tx[q].x][i[2]] = q
      BY <1>0, <1>1, <3>1, <3>2, LocksKept
    <3>4. ASSUME NEW p \in Passes, pass'[p].by = "mark", pass'[p].of = i[2], pass'[p].origin = tx[q].x
          PROVE  FALSE
      <4>1. CASE SameRow(p) /\ pass[p].by = "mark"
        BY <3>1, <3>4, <4>1 DEF SameRow
      <4>2. CASE NewByMark(p)
        <5>1. PICK r \in Requests :
                /\ CommitMarks(r) /\ tx[r].op = "marks"
                /\ \E j \in tx[r].issues : pass'[p].of = j[2] /\ pass'[p].origin = tx[r].x
          BY <4>2 DEF NewByMark
        <5>2. PICK j \in tx[r].issues : pass'[p].of = j[2] /\ pass'[p].origin = tx[r].x
          BY <5>1
        <5>3. markLock[tx[r].x][j[2]] = r
          BY <5>1 DEF Holds
        <5>4. r = q
          BY <3>1, <3>4, <5>2, <5>3
        <5>5. tx'[q] = NoTx
          BY <1>0, <5>1, <5>4, EndsEnds, EndKeepsOthers DEF Ends
        <5>6. QED
          BY <1>1, <5>5 DEF NoTx
      <4>3. QED
        BY <3>4, <4>1, <4>2, ByMark
    <3>5. QED
      BY <3>1, <3>3, <3>4
  <2>3. QED
    BY <1>1, <2>1, <2>2 DEF Holds
<1>2. CASE AtOnce
  <2>1. tx' = tx
    BY <1>2 DEF AtOnce, ensure_session, create_makeup_credit, Tick
  <2>2. QED
    BY <1>1, <2>1
<1>3. ASSUME NEW r \in Requests, NEW t, Starts(r, t) PROVE Holds(q)'
  <2>1. tx'[r] = t /\ (q # r => tx'[q] = tx[q])
    BY <1>0, <1>3, StartGoes
  <2>2. t.issues = {}
    BY <1>3 DEF Starts
  <2>3. t.op = "marks" /\ t.items # <<>> => Tail(t.items) = <<>> /\ t.known = NoMarks
    BY <1>3 DEF Starts, MarksRead
  <2>4. CASE q = r
    BY <2>1, <2>2, <2>3, <2>4 DEF Holds
  <2>5. QED
    BY <1>1, <2>1, <2>4
<1>4. ASSUME NEW r \in Requests, MarkItem(r), GoesOn(r) PROVE Holds(q)'
  <2>1. q # r => tx'[q] = tx[q]
    BY <1>0, <1>4, GoesOnGoes
  <2>2. CASE q = r /\ tx[r].op = "marks"
    <3>1. /\ tx'[r].x = tx[r].x /\ tx'[r].items = <<>>
          /\ \/ tx'[r].issues = {}
             \/ \E p \in Passes, m \in Matriculas, e \in Nat :
                  /\ tx'[r].issues = {<<p, m, e>>}
                  /\ NeedsPass(m, tx[r].x) /\ markLock'[tx[r].x][m] = r
      BY <1>0, <1>4, <2>2, ItemHolds
    <3>2. CASE tx'[r].issues = {}
      BY <2>2, <3>1, <3>2 DEF Holds
    <3>3. ASSUME NEW p \in Passes, NEW m \in Matriculas, NEW e \in Nat,
                 tx'[r].issues = {<<p, m, e>>}, NeedsPass(m, tx[r].x), markLock'[tx[r].x][m] = r
          PROVE  Holds(q)'
      <4>1. pass' = pass
        BY <1>4 DEF GoesOn, tables
      <4>2. \A n \in Passes : ~(pass[n].by = "mark" /\ pass[n].of = m /\ pass[n].origin = tx[r].x)
        BY <3>3 DEF NeedsPass
      <4>3. QED
        BY <2>2, <3>1, <3>3, <4>1, <4>2 DEF Holds
    <3>4. QED
      BY <3>1, <3>2, <3>3
  <2>3. CASE q = r /\ tx[r].op # "marks"
    BY <1>4, <2>3 DEF GoesOn, Holds
  <2>4. QED
    BY <1>1, <2>1, <2>2, <2>3
<1>5. ASSUME NEW r \in Requests, GoesOn(r), tx[r].at = "lock" PROVE Holds(q)'
  <2>1. q # r => tx'[q] = tx[q]
    BY <1>0, <1>5, GoesOnGoes
  <2>2. tx[r].op = "pass"
    BY <1>0, <1>5 DEF TxTied, Tied
  <2>3. q = r => tx'[q].op # "marks"
    BY <1>5, <2>2 DEF GoesOn
  <2>4. QED
    BY <1>1, <2>1, <2>3 DEF Holds
<1>6. ASSUME NEW r \in Requests, Ends(r) PROVE Holds(q)'
  <2>1. tx'[r] = NoTx /\ (q # r => tx'[q] = tx[q])
    BY <1>0, <1>6, EndsEnds, EndKeepsOthers
  <2>2. NoTx.op # "marks"
    BY DEF NoTx
  <2>3. QED
    BY <1>1, <2>1, <2>2 DEF Holds
<1>7. QED
  BY <1>0, <1>2, <1>3, <1>4, <1>5, <1>6, StepKinds

\* The row lock of the mark is what makes it true: however many requests mark the same
\* student, and however the marks are corrected and deleted, one absence issues one pass.
THEOREM OnePassPerAbsence == Spec => []OneCreditPerAbsence
<1>1. Init => CreditInv
  <2> SUFFICES ASSUME Init PROVE CreditInv
    OBVIOUS
  <2>1. PassInv
    BY PassInvInit
  <2>2. \A p \in Passes : pass[p].by # "mark"
    BY DEF Init, NoPass
  <2>3. \A r \in Requests : tx[r].op # "marks"
    BY DEF Init, NoTx
  <2>4. QED
    BY <2>1, <2>2, <2>3 DEF CreditInv, OneCreditPerAbsence, Holds
<1>2. CreditInv /\ Step => CreditInv'
  <2> SUFFICES ASSUME CreditInv, Step PROVE CreditInv'
    OBVIOUS
  <2>1. PassInv'
    BY PassInvStep DEF CreditInv
  <2>2. OneCreditPerAbsence'
    BY OneCreditStep
  <2>3. \A p \in Passes : (pass[p].by = "mark" => Issued(p))'
    BY ByMarkIssued
  <2>4. \A r \in Requests : Holds(r)'
    BY HoldsStep
  <2>5. QED
    BY <2>1, <2>2, <2>3, <2>4 DEF CreditInv
<1>3. CreditInv /\ UNCHANGED vars => CreditInv'
  <2> SUFFICES ASSUME CreditInv, UNCHANGED vars PROVE CreditInv'
    OBVIOUS
  <2>1. PassInv'
    BY PassInvStutter DEF CreditInv
  <2>2. pass' = pass /\ tx' = tx /\ markLock' = markLock
    BY DEF vars, tables, locks
  <2>3. QED
    BY <2>1, <2>2 DEF CreditInv, OneCreditPerAbsence, Holds, Issued
<1>4. CreditInv => OneCreditPerAbsence
  BY DEF CreditInv
<1>5. QED
  BY <1>1, <1>2, <1>3, <1>4, PTL DEF Spec, Next

-----------------------------------------------------------------------------
(* A register tells of a class that took place, or was called off.         *)

Over(status) == status \in {"held", "cancelled"}

\* What a request has read of the class, and what it will make of it.
Told(t) ==
    t.op \in {"session", "marks", "bulk"} =>
      /\ Over(t.seen) => Over(session[t.x].status)
      /\ t.op = "session" => /\ Over(t.to) \/ t.to = t.seen
                             /\ t.register = "close" => t.to = "held"
      /\ t.op # "session" =>
           \/ t.to = "held"
           \/ /\ t.to = t.seen /\ t.items = <<>>
              /\ \A m \in Matriculas : t.writes[m] # "none" => t.known[m] # "none"

RegisterInv ==
    /\ BodyOK /\ TxTied
    /\ HappenedIsRegistered
    /\ \A r \in Requests : Told(tx[r])

LEMMA ItemKeeps ==
  ASSUME BodyOK, TxTied, NEW r \in Requests, MarkItem(r)
  PROVE  tx'[r].x = tx[r].x /\ tx'[r].op = tx[r].op
<1> DEFINE t == tx[r]
           m == Head(t.items)[1]
           to == Head(t.items)[2]
           done == [t EXCEPT !.items = Tail(@), !.writes[m] = to]
<1>1. t \in Transactions
  BY DEF BodyOK
<1>2. done.x = t.x /\ done.op = t.op
  BY <1>1 DEF Transactions
<1>3. CASE tx' = [tx EXCEPT ![r] = done]
  <2>1. tx'[r] = done
    BY <1>3 DEF BodyOK
  <2>2. QED
    BY <1>2, <2>1
<1>4. ASSUME NEW p \in Passes,
             tx' = [tx EXCEPT ![r] = [done EXCEPT !.issues = @ \cup {<<p, m, today + Validity>>}]]
      PROVE  tx'[r].x = tx[r].x /\ tx'[r].op = tx[r].op
  <2> DEFINE u == [done EXCEPT !.issues = @ \cup {<<p, m, today + Validity>>}]
  <2>1. tx'[r] = u
    BY <1>4 DEF BodyOK
  <2>2. u.x = done.x /\ u.op = done.op
    BY <1>1 DEF Transactions
  <2>3. QED
    BY <1>2, <2>1, <2>2
<1>5. QED
  BY <1>3, <1>4 DEF MarkItem

\* The row of session x once the request r commits.
LEMMA SessionSaved ==
  ASSUME BodyOK, TxTied, NEW r \in Requests, CommitSession(r), NEW x \in Sessions
  PROVE  \/ session'[x] = session[x]
         \/ /\ x = tx[r].x
            /\ session'[x].status = Column(tx[r].seen, tx[r].to, session[x].status)
            /\ session'[x].closed = IF tx[r].register = "keep" THEN session[x].closed
                                    ELSE tx[r].register = "close"
         \/ ~Exists(x) /\ session'[x].closed = FALSE
<1> DEFINE t == tx[r]
           row == [status |-> Column(t.seen, t.to, session[t.x].status),
                   closed |-> IF t.register = "keep" THEN session[t.x].closed ELSE t.register = "close"]
           written == [session EXCEPT ![t.x] = row]
<1>1. t.x \in Sessions
  BY DEF CommitSession, TxTied, Tied
<1>2. written \in [Sessions -> {row} \cup SessionRows] /\ written[x] = IF x = t.x THEN row ELSE session[x]
  BY <1>1 DEF BodyOK
<1>3. \/ session' = written
      \/ /\ ~Exists(t.moved)
         /\ session' = [written EXCEPT ![t.moved] = [status |-> "scheduled", closed |-> FALSE]]
  BY DEF CommitSession
<1>4. /\ row.status = Column(t.seen, t.to, session[t.x].status)
      /\ row.closed = IF t.register = "keep" THEN session[t.x].closed ELSE t.register = "close"
  OBVIOUS
<1> HIDE DEF row, written
<1>5. CASE session' = written
  BY <1>2, <1>4, <1>5
<1>6. CASE /\ ~Exists(t.moved)
           /\ session' = [written EXCEPT ![t.moved] = [status |-> "scheduled", closed |-> FALSE]]
  BY <1>2, <1>4, <1>6
<1>7. QED
  BY <1>3, <1>5, <1>6

LEMMA MarksSaved ==
  ASSUME BodyOK, TxTied, NEW r \in Requests, CommitMarks(r), NEW x \in Sessions
  PROVE  /\ session'[x].closed = session[x].closed
         /\ x # tx[r].x => session'[x].status = session[x].status /\ mark'[x] = mark[x]
         /\ x = tx[r].x =>
              /\ session'[x].status = Column(tx[r].seen, tx[r].to, session[x].status)
              /\ \A m \in Matriculas :
                   \/ mark'[x][m] = mark[x][m]
                   \/ m \in Rewritten(tx[r]) /\ mark[x][m] # "none"
                   \/ tx[r].writes[m] # "none" /\ tx[r].known[m] = "none"
<1>1. tx[r].x \in Sessions
  BY DEF CommitMarks, TxTied, Tied
<1>2. session' = [session EXCEPT ![tx[r].x].status = Column(tx[r].seen, tx[r].to, @)]
  BY DEF CommitMarks
<1>3. session[x] \in SessionRows
  BY DEF BodyOK
<1>4. /\ session'[x].closed = session[x].closed
      /\ x # tx[r].x => session'[x].status = session[x].status
      /\ x = tx[r].x => session'[x].status = Column(tx[r].seen, tx[r].to, session[x].status)
  BY <1>1, <1>2, <1>3 DEF BodyOK, SessionRows
<1>5. mark' = [mark EXCEPT ![tx[r].x] = [m \in Matriculas |->
                    IF m \in {n \in Matriculas : tx[r].writes[n] # "none" /\ tx[r].known[n] = "none"}
                             \cup Rewritten(tx[r])
                    THEN tx[r].writes[m] ELSE @[m]]]
  BY DEF CommitMarks
<1>6. \A m \in Rewritten(tx[r]) : mark[tx[r].x][m] # "none"
  BY DEF CommitMarks
<1>7. x # tx[r].x => mark'[x] = mark[x]
  BY <1>5 DEF BodyOK
<1>8. x = tx[r].x => mark'[x] = [m \in Matriculas |->
                    IF m \in {n \in Matriculas : tx[r].writes[n] # "none" /\ tx[r].known[n] = "none"}
                             \cup Rewritten(tx[r])
                    THEN tx[r].writes[m] ELSE mark[x][m]]
  BY <1>1, <1>5 DEF BodyOK
<1>9. QED
  BY <1>4, <1>6, <1>7, <1>8

\* A class that took place or was called off is never back on the calendar.
LEMMA OverStays ==
  ASSUME RegisterInv, Step, NEW x \in Sessions, Over(session[x].status)
  PROVE  Over(session'[x].status)
<1> USE DEF RegisterInv
<1>1. CASE AtOnce
  <2>1. ASSUME NEW y \in Sessions, ensure_session(y) PROVE Over(session'[x].status)
    <3>1. x # y
      BY <2>1 DEF ensure_session, Exists, Over
    <3>2. session' = [session EXCEPT ![y].status = "scheduled"]
      BY <2>1 DEF ensure_session
    <3>3. QED
      BY <3>1, <3>2 DEF BodyOK
  <2>2. CASE create_makeup_credit \/ Tick
    BY <2>2 DEF create_makeup_credit, Tick, tables
  <2>3. QED
    BY <1>1, <2>1, <2>2 DEF AtOnce
<1>2. ASSUME NEW r \in Requests, NEW t, Starts(r, t) PROVE Over(session'[x].status)
  BY <1>2 DEF Starts, tables
<1>3. ASSUME NEW r \in Requests, GoesOn(r) PROVE Over(session'[x].status)
  BY <1>3 DEF GoesOn, tables
<1>4. ASSUME NEW r \in Requests, Ends(r) PROVE Over(session'[x].status)
  <2>1. CASE CommitSession(r)
    <3>1. Over(tx[r].to) \/ tx[r].to = tx[r].seen
      BY <2>1 DEF CommitSession, Told
    <3>2. Exists(x)
      BY DEF Exists, Over
    <3>3. session'[x] = session[x]
          \/ session'[x].status = Column(tx[r].seen, tx[r].to, session[x].status)
      BY <2>1, <3>2, SessionSaved
    <3>4. QED
      BY <3>1, <3>3 DEF Column
  <2>2. CASE CommitMarks(r)
    <3>1. tx[r].op \in {"marks", "bulk"}
      BY <2>2 DEF CommitMarks, TxTied, Tied
    <3>2. Over(tx[r].to) \/ tx[r].to = tx[r].seen
      BY <3>1 DEF Told, Over
    <3>3. session'[x].status \in {session[x].status, Column(tx[r].seen, tx[r].to, session[x].status)}
      BY <2>2, MarksSaved
    <3>4. QED
      BY <3>2, <3>3 DEF Column
  <2>3. CASE CommitDeleteMark(r) \/ CommitPass(r) \/ CommitExpiry(r) \/ Rollback(r)
    BY <2>3 DEF CommitDeleteMark, CommitPass, CommitExpiry, Rollback, tables
  <2>4. QED
    BY <1>4, <2>1, <2>2, <2>3 DEF Ends
<1>5. QED
  BY <1>1, <1>2, <1>3, <1>4, StepKinds

LEMMA ToldStep ==
  ASSUME RegisterInv, Step, "update_session" \notin Endpoints, NEW q \in Requests
  PROVE  Told(tx[q])'
<1> USE DEF RegisterInv
<1>1. ASSUME tx'[q] = tx[q] PROVE Told(tx[q])'
  <2>1. tx[q].op \in {"session", "marks", "bulk"} => tx[q].x \in Sessions
    BY DEF TxTied, Tied
  <2>2. Told(tx[q])
    OBVIOUS
  <2>3. tx[q].x \in Sessions /\ Over(session[tx[q].x].status) => Over(session'[tx[q].x].status)
    BY OverStays
  <2>4. QED
    BY <1>1, <2>1, <2>2, <2>3 DEF Told, Over
<1>2. CASE AtOnce
  <2>1. tx' = tx
    BY <1>2 DEF AtOnce, ensure_session, create_makeup_credit, Tick
  <2>2. QED
    BY <1>1, <2>1
<1>3. ASSUME NEW r \in Requests, NEW t, Starts(r, t) PROVE Told(tx[q])'
  <2>1. tx'[r] = t /\ (q # r => tx'[q] = tx[q])
    BY <1>3, StartGoes
  <2>2. session' = session
    BY <1>3 DEF Starts, tables
  <2>3. Told(t)
    <3>1. CASE t.op = "session"
      BY <1>3, <3>1 DEF Starts, SessionRead, Told, Over
    <3>2. CASE t.op \in {"marks", "bulk"}
      <4>1. \/ t.seen = session[t.x].status /\ t.to = "held"
            \/ /\ t.seen = "none" /\ t.to = "none" /\ t.items = <<>>
               /\ \A m \in Matriculas : t.writes[m] # "none" => t.known[m] # "none"
        BY <1>3, <3>2 DEF Starts, MarksRead
      <4>2. QED
        BY <3>2, <4>1 DEF Told, Over
    <3>3. CASE t.op \notin {"session", "marks", "bulk"}
      BY <3>3 DEF Told
    <3>4. QED
      BY <3>1, <3>2, <3>3
  <2>4. CASE q = r
    BY <2>1, <2>2, <2>3, <2>4 DEF Told
  <2>5. QED
    BY <1>1, <2>1, <2>4
<1>4. ASSUME NEW r \in Requests, MarkItem(r), GoesOn(r) PROVE Told(tx[q])'
  <2>1. q # r => tx'[q] = tx[q]
    BY <1>4, GoesOnGoes
  <2>2. CASE q = r
    <3>1. tx[r].op \in {"marks", "bulk"} /\ tx[r].items # <<>>
      BY <1>4 DEF MarkItem, TxTied, Tied
    <3>2. tx[r].to = "held" /\ (Over(tx[r].seen) => Over(session[tx[r].x].status))
      BY <3>1 DEF Told
    <3>3. /\ tx'[r].op = tx[r].op /\ tx'[r].x = tx[r].x
          /\ tx'[r].seen = tx[r].seen /\ tx'[r].to = tx[r].to
      BY <1>4, ItemKeeps DEF GoesOn
    <3>4. session' = session
      BY <1>4 DEF GoesOn, tables
    <3>5. QED
      BY <2>2, <3>1, <3>2, <3>3, <3>4 DEF Told
  <2>3. QED
    BY <1>1, <2>1, <2>2
<1>5. ASSUME NEW r \in Requests, GoesOn(r), tx[r].at = "lock" PROVE Told(tx[q])'
  <2>1. q # r => tx'[q] = tx[q]
    BY <1>5, GoesOnGoes
  <2>2. tx[r].op = "pass"
    BY <1>5 DEF TxTied, Tied
  <2>3. q = r => tx'[q].op = "pass"
    BY <1>5, <2>2 DEF GoesOn
  <2>4. QED
    BY <1>1, <2>1, <2>3 DEF Told
<1>6. ASSUME NEW r \in Requests, Ends(r) PROVE Told(tx[q])'
  <2>1. tx'[r] = NoTx /\ (q # r => tx'[q] = tx[q])
    BY <1>6, EndsEnds, EndKeepsOthers
  <2>2. NoTx.op = "none"
    BY DEF NoTx
  <2>3. QED
    BY <1>1, <2>1, <2>2 DEF Told
<1>7. QED
  BY <1>2, <1>3, <1>4, <1>5, <1>6, StepKinds

LEMMA RegisteredStep ==
  ASSUME RegisterInv, Step
  PROVE  HappenedIsRegistered'
<1> USE DEF RegisterInv
<1> SUFFICES ASSUME NEW x \in Sessions,
                    session'[x].closed \/ \E m \in Matriculas : mark'[x][m] # "none"
             PROVE  Over(session'[x].status)
  BY DEF HappenedIsRegistered, Over
<1>1. ASSUME session[x].closed \/ \E m \in Matriculas : mark[x][m] # "none"
      PROVE  Over(session'[x].status)
  BY <1>1, OverStays DEF HappenedIsRegistered, Over
<1>2. CASE session'[x].closed = session[x].closed /\ mark'[x] = mark[x]
  BY <1>1, <1>2
<1>3. CASE AtOnce
  <2>1. ASSUME NEW y \in Sessions, ensure_session(y)
        PROVE  session'[x].closed = session[x].closed /\ mark'[x] = mark[x]
    BY <2>1 DEF ensure_session, BodyOK, SessionRows
  <2>2. CASE create_makeup_credit \/ Tick
    BY <1>2, <2>2 DEF create_makeup_credit, Tick, tables
  <2>3. QED
    BY <1>2, <1>3, <2>1, <2>2 DEF AtOnce
<1>4. ASSUME NEW r \in Requests, NEW t, Starts(r, t) PROVE Over(session'[x].status)
  BY <1>2, <1>4 DEF Starts, tables
<1>5. ASSUME NEW r \in Requests, GoesOn(r) PROVE Over(session'[x].status)
  BY <1>2, <1>5 DEF GoesOn, tables
<1>6. ASSUME NEW r \in Requests, Ends(r) PROVE Over(session'[x].status)
  <2>1. CASE CommitSession(r)
    <3>1. mark' = mark
      BY <2>1 DEF CommitSession
    <3>2. CASE \E m \in Matriculas : mark[x][m] # "none"
      BY <1>1, <3>2
    <3>3. CASE session'[x].closed
      <4>1. CASE session'[x] = session[x]
        BY <1>2, <3>1, <4>1
      <4>2. CASE /\ x = tx[r].x
                 /\ session'[x].status = Column(tx[r].seen, tx[r].to, session[x].status)
                 /\ session'[x].closed = IF tx[r].register = "keep" THEN session[x].closed
                                         ELSE tx[r].register = "close"
        <5>1. CASE session[x].closed
          BY <1>1, <5>1
        <5>2. CASE tx[r].register = "close"
          <6>1. tx[r].to = "held" /\ (Over(tx[r].seen) => Over(session[x].status))
            BY <2>1, <4>2, <5>2 DEF CommitSession, Told
          <6>2. QED
            BY <4>2, <6>1 DEF Column, Over
        <5>3. CASE ~session[x].closed /\ tx[r].register # "close"
          BY <3>3, <4>2, <5>3
        <5>4. QED
          BY <5>1, <5>2, <5>3
      <4>3. CASE session'[x].closed = FALSE
        BY <3>3, <4>3
      <4>4. QED
        BY <2>1, <4>1, <4>2, <4>3, SessionSaved
    <3>4. QED
      BY <3>1, <3>2, <3>3
  <2>2. CASE CommitMarks(r)
    <3>1. CASE x # tx[r].x
      BY <1>2, <2>2, <3>1, MarksSaved
    <3>2. CASE x = tx[r].x
      <4>1. CASE session[x].closed \/ \E m \in Matriculas : mark[x][m] # "none"
        BY <1>1, <4>1
      <4>2. CASE ~session[x].closed /\ \A m \in Matriculas : mark[x][m] = "none"
        <5>1. PICK m \in Matriculas : mark'[x][m] # "none"
          BY <2>2, <4>2, MarksSaved
        <5>2. tx[r].writes[m] # "none" /\ tx[r].known[m] = "none"
          BY <2>2, <3>2, <4>2, <5>1, MarksSaved
        <5>3. tx[r].op \in {"marks", "bulk"}
          BY <2>2 DEF CommitMarks, TxTied, Tied
        <5>4. tx[r].to = "held" /\ (Over(tx[r].seen) => Over(session[x].status))
          BY <3>2, <5>2, <5>3 DEF Told
        <5>5. session'[x].status = Column(tx[r].seen, tx[r].to, session[x].status)
          BY <2>2, <3>2, MarksSaved
        <5>6. QED
          BY <5>4, <5>5 DEF Column, Over
      <4>3. QED
        BY <4>1, <4>2
    <3>3. QED
      BY <3>1, <3>2
  <2>3. CASE CommitDeleteMark(r)
    <3>1. session' = session /\ tx[r].x \in Sessions
      BY <2>3 DEF CommitDeleteMark, TxTied, Tied
    <3>2. \A m \in Matriculas : mark'[x][m] \in {"none", mark[x][m]}
      BY <2>3, <3>1 DEF CommitDeleteMark, BodyOK
    <3>3. QED
      BY <1>1, <3>1, <3>2
  <2>4. CASE CommitPass(r) \/ CommitExpiry(r) \/ Rollback(r)
    BY <1>2, <2>4 DEF CommitPass, CommitExpiry, Rollback, tables
  <2>5. QED
    BY <1>6, <2>1, <2>2, <2>3, <2>4 DEF Ends
<1>7. QED
  BY <1>3, <1>4, <1>5, <1>6, StepKinds

\* When nobody sets the status by hand, no order of taps, closings, reopenings, moves and
\* cancellations leaves a class "scheduled" whose register is closed or holds a mark.
THEOREM RegisterTellsTheClass ==
  ASSUME "update_session" \notin Endpoints
  PROVE  Spec => []HappenedIsRegistered
<1>1. Init => RegisterInv
  <2> SUFFICES ASSUME Init PROVE RegisterInv
    OBVIOUS
  <2>1. BodyOK /\ TxTied
    BY InitType, TypeParts
  <2>2. HappenedIsRegistered
    BY DEF Init, HappenedIsRegistered, NoMarks
  <2>3. \A r \in Requests : tx[r].op = "none"
    BY DEF Init, NoTx
  <2>4. \A r \in Requests : Told(tx[r])
    BY <2>3 DEF Told
  <2>5. QED
    BY <2>1, <2>2, <2>4 DEF RegisterInv
<1>2. RegisterInv /\ Step => RegisterInv'
  <2> SUFFICES ASSUME RegisterInv, Step PROVE RegisterInv'
    OBVIOUS
  <2>1. BodyOK' /\ TxTied'
    BY StepType DEF RegisterInv
  <2>2. HappenedIsRegistered'
    BY RegisteredStep
  <2>3. \A q \in Requests : Told(tx[q])'
    BY ToldStep
  <2>4. QED
    BY <2>1, <2>2, <2>3 DEF RegisterInv
<1>3. RegisterInv /\ UNCHANGED vars => RegisterInv'
  BY DEF vars, tables, locks, RegisterInv, BodyOK, TxTied, HappenedIsRegistered, Told
<1>4. RegisterInv => HappenedIsRegistered
  BY DEF RegisterInv
<1>5. QED
  BY <1>1, <1>2, <1>3, <1>4, PTL DEF Spec, Next

-----------------------------------------------------------------------------
(***************************************************************************)
(* Make-up passes.                                                         *)
(***************************************************************************)

-----------------------------------------------------------------------------
(* A pass that one request handles at a time.                              *)

\* What a request knows of the passes that it alone handles: they are as it read them.
Knows(t) ==
    /\ t.op = "pass" => /\ Legal(t) /\ t.due = {}
                        /\ t.p \notin contested =>
                             t.seen = pass[t.p].status /\ t.was = pass[t.p].target
    /\ t.op # "pass" => t.p = Nobody
    /\ \A d \in t.due : d[1] \notin contested =>
         pass[d[1]].status \in {"available", "booked"} /\ d[2] = pass[d[1]].target

SoleHandler ==
    \A p \in Passes \ contested : \A r, q \in Requests :
        r # q => ~(p \in Handles(tx[r]) /\ p \in Handles(tx[q]))

SoleInv ==
    /\ PassInv /\ SoleHandler
    /\ contested \subseteq {p \in Passes : Issued(p)}
    /\ \A p \in Passes : ~Issued(p) => pass[p].target = Nobody
    /\ \A r \in Requests : Knows(tx[r])

LEMMA HandledIssued ==
  ASSUME PassInv, NEW q \in Requests, tx[q].op # "pass" => tx[q].p = Nobody,
         NEW p \in Passes, p \in Handles(tx[q])
  PROVE  Issued(p)
BY ClassroomAssumption DEF PassInv, ReadsIssued, Handles

LEMMA NoTxHandles == \A p \in Passes : p \notin Handles(NoTx)
BY ClassroomAssumption, NoTxFields DEF Handles

\* Nobody else writes the pass that a request alone handles.
LEMMA RowKept ==
  ASSUME SoleInv, Step, NEW q \in Requests, NEW p \in Passes \ contested,
         p \in Handles(tx[q]), p \in Handles(tx'[q])
  PROVE  pass'[p] = pass[p]
<1> USE DEF SoleInv
<1>0. BodyOK /\ TxTied /\ IssuesFresh
  BY DEF PassInv
<1>1. Issued(p)
  <2>1. Knows(tx[q])
    OBVIOUS
  <2>2. QED
    BY <2>1, HandledIssued DEF Knows
<1>2. ASSUME NEW r \in Requests, CommitPass(r) \/ CommitExpiry(r), p \in Handles(tx[r]) PROVE FALSE
  <2>1. r = q
    BY <1>2 DEF SoleHandler
  <2>2. tx'[r] = NoTx
    BY <1>0, <1>2, EndsEnds, EndKeepsOthers DEF Ends
  <2>3. QED
    BY <2>1, <2>2, NoTxHandles
<1>3. ~Saved(p)
  BY <1>2 DEF Saved, Handles
<1>4. ~Lapsed(p)
  BY <1>2 DEF Lapsed, Handles
<1>5. QED
  BY <1>0, <1>1, <1>3, <1>4, PassWrites DEF Inserted

LEMMA KnowsStep ==
  ASSUME SoleInv, Step, Watch, NEW q \in Requests
  PROVE  Knows(tx[q])'
<1> USE DEF SoleInv
<1>0. BodyOK /\ TxTied
  BY DEF PassInv
<1>1. contested \subseteq contested'
  BY DEF Watch
<1>2. ASSUME tx'[q].op = tx[q].op, tx'[q].p = tx[q].p, tx'[q].due = tx[q].due,
             tx'[q].seen = tx[q].seen, tx'[q].to = tx[q].to,
             tx'[q].was = tx[q].was, tx'[q].aim = tx[q].aim
      PROVE  Knows(tx[q])'
  <2>1. Knows(tx[q])
    OBVIOUS
  <2>2. ASSUME NEW p \in Passes \ contested, p \in Handles(tx[q]) PROVE pass'[p] = pass[p]
    <3>1. p \in Handles(tx'[q])
      BY <1>2, <2>2 DEF Handles
    <3>2. QED
      BY <2>2, <3>1, RowKept
  <2>3. ASSUME tx[q].op = "pass"
        PROVE  /\ Legal(tx[q])' /\ tx'[q].due = {}
               /\ tx'[q].p \notin contested' =>
                    tx'[q].seen = pass'[tx'[q].p].status /\ tx'[q].was = pass'[tx'[q].p].target
    <3>1. Legal(tx[q]) /\ tx[q].due = {}
      BY <2>1, <2>3 DEF Knows
    <3>2. Legal(tx[q])'
      BY <1>2, <3>1 DEF Legal
    <3>3. tx[q].p \in Passes /\ tx[q].p \in Handles(tx[q])
      BY <1>0, <2>3 DEF TxTied, Tied, Handles
    <3>4. ASSUME tx[q].p \notin contested'
          PROVE  tx[q].seen = pass'[tx[q].p].status /\ tx[q].was = pass'[tx[q].p].target
      <4>1. tx[q].p \notin contested
        BY <1>1, <3>4
      <4>2. pass'[tx[q].p] = pass[tx[q].p]
        BY <2>2, <3>3, <4>1
      <4>3. QED
        BY <2>1, <2>3, <4>1, <4>2 DEF Knows
    <3>5. QED
      BY <1>2, <3>1, <3>2, <3>4
  <2>4. ASSUME NEW d \in tx[q].due, d[1] \notin contested'
        PROVE  pass'[d[1]].status \in {"available", "booked"} /\ d[2] = pass'[d[1]].target
    <3>1. d[1] \in Passes /\ d[1] \in Handles(tx[q])
      BY DEF PassInv, ReadsIssued, Handles
    <3>2. pass'[d[1]] = pass[d[1]]
      BY <1>1, <2>2, <2>4, <3>1
    <3>3. QED
      BY <1>1, <2>1, <2>4, <3>2 DEF Knows
  <2>5. tx'[q].op # "pass" => tx'[q].p = Nobody
    BY <1>2, <2>1 DEF Knows
  <2>6. QED
    BY <1>2, <2>3, <2>4, <2>5 DEF Knows
<1>3. CASE AtOnce
  <2>1. tx' = tx
    BY <1>3 DEF AtOnce, ensure_session, create_makeup_credit, Tick
  <2>2. QED
    BY <1>2, <2>1
<1>4. ASSUME NEW r \in Requests, NEW t, Starts(r, t) PROVE Knows(tx[q])'
  <2>1. tx'[r] = t /\ (q # r => tx'[q] = tx[q])
    BY <1>0, <1>4, StartGoes
  <2>2. pass' = pass
    BY <1>4 DEF Starts, tables
  <2>3. CASE q = r
    <3>1. CASE t.op = "pass"
      <4>1. /\ t.due = {} /\ Legal(t)
            /\ t.seen = pass[t.p].status /\ t.was = pass[t.p].target
        BY <1>4, <3>1 DEF Starts, PassRead
      <4>2. QED
        BY <2>1, <2>2, <2>3, <3>1, <4>1 DEF Knows, Legal
    <3>2. CASE t.op = "list"
      <4>1. /\ t.p = Nobody
            /\ \A d \in t.due : /\ pass[d[1]].status \in {"available", "booked"}
                                /\ d[2] = pass[d[1]].target
        BY <1>4, <3>2 DEF Starts, ListRead, Due
      <4>2. QED
        BY <2>1, <2>2, <2>3, <3>2, <4>1 DEF Knows
    <3>3. CASE t.op \notin {"pass", "list"}
      <4>1. t.due = {} /\ t.p = Nobody
        BY <1>4, <3>3 DEF Starts, MarksRead, SessionRead
      <4>2. QED
        BY <2>1, <2>3, <3>3, <4>1 DEF Knows
    <3>4. QED
      BY <3>1, <3>2, <3>3
  <2>4. QED
    BY <1>2, <2>1, <2>3
<1>5. ASSUME NEW r \in Requests, GoesOn(r) PROVE Knows(tx[q])'
  <2>1. q # r => tx'[q] = tx[q]
    BY <1>0, <1>5, GoesOnGoes
  <2>2. QED
    BY <1>2, <1>5, <2>1 DEF GoesOn
<1>6. ASSUME NEW r \in Requests, Ends(r) PROVE Knows(tx[q])'
  <2>1. tx'[r] = NoTx /\ (q # r => tx'[q] = tx[q])
    BY <1>0, <1>6, EndsEnds, EndKeepsOthers
  <2>2. NoTx.op # "pass" /\ NoTx.p = Nobody /\ NoTx.due = {}
    BY DEF NoTx
  <2>3. QED
    BY <1>2, <2>1, <2>2 DEF Knows
<1>7. QED
  BY <1>0, <1>3, <1>4, <1>5, <1>6, StepKinds

LEMMA SoleStep ==
  ASSUME SoleInv, Next
  PROVE  SoleInv'
<1> USE DEF SoleInv
<1>1. Step /\ Watch
  BY DEF Next
<1>2. PassInv' /\ \A q \in Requests : Knows(tx[q])'
  BY <1>1, PassInvStep, KnowsStep
<1>3. SoleHandler'
  BY <1>1 DEF Watch, SoleHandler
<1>4. BodyOK /\ TxTied /\ IssuesFresh
  BY DEF PassInv
<1>5. contested' \subseteq {p \in Passes : Issued(p)'}
  <2> SUFFICES ASSUME NEW p \in contested' PROVE p \in Passes /\ Issued(p)'
    OBVIOUS
  <2>1. CASE p \in contested
    BY <1>1, <1>4, <2>1, IssuedStays
  <2>2. CASE p \notin contested
    <3>1. p \in Passes /\ \E r \in Requests : p \in Handles(tx'[r])
      BY <1>1, <2>2 DEF Watch
    <3>2. PICK r \in Requests : p \in Handles(tx'[r])
      BY <3>1
    <3>3. /\ tx'[r].op = "pass" => pass'[tx'[r].p].status # "unborn"
          /\ \A d \in tx'[r].due : pass'[d[1]].status # "unborn"
          /\ tx'[r].op # "pass" => tx'[r].p = Nobody
      BY <1>2 DEF PassInv, ReadsIssued, Issued, Knows
    <3>4. QED
      BY <3>1, <3>2, <3>3, ClassroomAssumption DEF Handles, Issued
  <2>3. QED
    BY <2>1, <2>2
<1>6. ASSUME NEW p \in Passes, pass'[p].status = "unborn" PROVE pass'[p].target = Nobody
  <2>1. ~Issued(p)
    BY <1>1, <1>4, <1>6, IssuedStays DEF Issued
  <2>2. CASE pass'[p] = pass[p]
    BY <2>1, <2>2
  <2>3. ASSUME NEW r \in Requests, p \in Handles(tx[r]) PROVE FALSE
    <3>1. Knows(tx[r])
      OBVIOUS
    <3>2. QED
      BY <2>1, <2>3, <3>1, HandledIssued DEF Knows
  <2>4. ~Saved(p) /\ ~Lapsed(p)
    BY <2>3 DEF Saved, Lapsed, Handles
  <2>5. QED
    BY <1>1, <1>4, <1>6, <2>2, <2>4, PassWrites DEF Inserted
<1>7. QED
  BY <1>2, <1>3, <1>5, <1>6 DEF Issued

LEMMA SoleInit ==
  ASSUME Init
  PROVE  SoleInv
<1>1. PassInv
  BY PassInvInit
<1>2. \A r \in Requests : tx[r] = NoTx
  BY DEF Init
<1>3. NoTx.op # "pass" /\ NoTx.p = Nobody /\ NoTx.due = {}
  BY DEF NoTx
<1>4. SoleHandler
  BY <1>2, NoTxHandles DEF SoleHandler
<1>5. \A r \in Requests : Knows(tx[r])
  BY <1>2, <1>3 DEF Knows
<1>6. \A p \in Passes : pass[p].target = Nobody
  BY DEF Init, NoPass
<1>7. contested = {}
  BY DEF Init
<1>8. QED
  BY <1>1, <1>4, <1>5, <1>6, <1>7 DEF SoleInv

LEMMA SoleStutter ==
  ASSUME SoleInv, UNCHANGED vars
  PROVE  SoleInv'
<1>1. PassInv'
  BY PassInvStutter DEF SoleInv
<1>2. tx' = tx /\ pass' = pass /\ contested' = contested
  BY DEF vars, tables
<1>3. QED
  BY <1>1, <1>2 DEF SoleInv, SoleHandler, Issued, Knows, Legal, Handles

LEMMA SoleInvHolds == Spec => []SoleInv
<1>1. Init => SoleInv
  BY SoleInit
<1>2. SoleInv /\ [Next]_vars => SoleInv'
  BY SoleStep, SoleStutter
<1>3. QED
  BY <1>1, <1>2, PTL DEF Spec

-----------------------------------------------------------------------------
(* The life that a pass promises its owner.                                *)

\* Only a request that starts can come across another one.
LEMMA NothingContended ==
  ASSUME SoleInv, Watch,
         \A q \in Requests : Handles(tx'[q]) \subseteq Handles(tx[q])
  PROVE  contested' = contested
BY DEF SoleInv, SoleHandler, Watch

LEMMA EndContendsNothing ==
  ASSUME SoleInv, Watch, NEW r \in Requests, End(r)
  PROVE  contested' = contested
<1>1. tx'[r] = NoTx /\ \A q \in Requests \ {r} : tx'[q] = tx[q]
  BY EndKeepsOthers DEF SoleInv, PassInv
<1>2. \A q \in Requests : Handles(tx'[q]) \subseteq Handles(tx[q])
  BY <1>1, NoTxHandles DEF Handles
<1>3. QED
  BY <1>2, NothingContended

LEMMA PromiseStutters ==
  ASSUME UNCHANGED <<pass, contested>>
  PROVE  UNCHANGED Promise!vars
BY DEF Promise!vars

\* A request that starts on passes that others handle takes them from the promise.
LEMMA StartPromised ==
  ASSUME SoleInv, Step, Watch, UNCHANGED pass
  PROVE  Promise!Next
<1> DEFINE P == contested' \ contested
<1>1. SoleInv'
  BY SoleStep DEF Next
<1>2. P \subseteq Passes /\ \A p \in P : Issued(p)
  BY <1>1 DEF SoleInv, Issued
<1>3. contested' = contested \cup P
  BY DEF Watch
<1> HIDE DEF P
<1>4. Promise!Contend(P)
  BY <1>2, <1>3 DEF Promise!Contend, Promise!End, Issued
<1>5. QED
  BY <1>2, <1>4 DEF Promise!Next, Promise!Contend, Promise!End

\* Passes that were never issued are issued together, available and without a class.
LEMMA IssuePromised ==
  ASSUME SoleInv, UNCHANGED contested, NEW P \in SUBSET Passes,
         \A p \in P : /\ ~Issued(p)
                      /\ pass'[p].status = "available" /\ pass'[p].target = Nobody,
         \A p \in Passes \ P : pass'[p] = pass[p]
  PROVE  Promise!Next
<1>1. \A p \in P : p \notin contested /\ pass[p].status = "unborn" /\ pass[p].target = Nobody
  BY DEF SoleInv, Issued
<1>2. Promise!Issue(P)
  BY <1>1 DEF Promise!Issue
<1>3. QED
  BY <1>2 DEF Promise!Next

LEMMA MarksPromised ==
  ASSUME SoleInv, NEW r \in Requests, CommitMarks(r), UNCHANGED contested
  PROVE  Promise!Next
<1> DEFINE P == {p \in Passes : \E i \in tx[r].issues : i[1] = p}
<1>1. ASSUME NEW p \in P
      PROVE  ~Issued(p) /\ pass'[p].status = "available" /\ pass'[p].target = Nobody
  <2> DEFINE issue == CHOOSE i \in tx[r].issues : i[1] = p
             by == IF tx[r].op = "bulk" THEN "bulk" ELSE "mark"
  <2>1. ~Issued(p)
    BY DEF SoleInv, PassInv, IssuesFresh
  <2>2. pass'[p] = [status |-> "available", target |-> Nobody, expires |-> issue[3],
                    of |-> issue[2], origin |-> tx[r].x, by |-> by]
    BY DEF CommitMarks
  <2> HIDE DEF issue, by
  <2>3. QED
    BY <2>1, <2>2
<1>2. ASSUME NEW p \in Passes \ P PROVE pass'[p] = pass[p]
  BY <1>2 DEF CommitMarks
<1> HIDE DEF P
<1>3. P \in SUBSET Passes
  BY DEF P
<1>4. QED
  BY <1>1, <1>2, <1>3, IssuePromised

LEMMA HandPromised ==
  ASSUME SoleInv, create_makeup_credit, UNCHANGED contested
  PROVE  Promise!Next
<1>1. PICK n \in Passes, m \in Matriculas, origin \in Sessions \cup {Nobody}, d \in 0..Validity :
        /\ Fresh(n)
        /\ pass' = [pass EXCEPT ![n] = [status |-> "available", of |-> m, origin |-> origin,
                                        target |-> Nobody, expires |-> today + d, by |-> "hand"]]
  BY DEF create_makeup_credit
<1>2. pass \in [Passes -> PassRows]
  BY DEF SoleInv, PassInv, BodyOK
<1>3. pass'[n].status = "available" /\ pass'[n].target = Nobody /\ ~Issued(n)
  BY <1>1, <1>2 DEF Fresh
<1>4. \A p \in Passes \ {n} : pass'[p] = pass[p]
  BY <1>1, <1>2
<1>5. QED
  BY <1>3, <1>4, IssuePromised, {n} \in SUBSET Passes

\* What a handler saves of a pass that it alone handles is what it decided.
LEMMA SavedAsDecided ==
  ASSUME SoleInv, NEW r \in Requests, CommitPass(r), tx[r].p \notin contested
  PROVE  /\ tx[r].p \in Passes
         /\ pass'[tx[r].p].status = tx[r].to /\ pass'[tx[r].p].target = tx[r].aim
         /\ Legal(tx[r])
         /\ tx[r].seen = pass[tx[r].p].status /\ tx[r].was = pass[tx[r].p].target
<1>1. tx[r].op = "pass" /\ tx[r].p \in Passes
  BY DEF CommitPass, SoleInv, PassInv, TxTied, Tied
<1>2. pass \in [Passes -> PassRows]
  BY DEF SoleInv, PassInv, BodyOK
<1>3. Legal(tx[r]) /\ tx[r].seen = pass[tx[r].p].status /\ tx[r].was = pass[tx[r].p].target
  BY <1>1 DEF SoleInv, Knows
<1>4. /\ pass'[tx[r].p].status = Column(tx[r].seen, tx[r].to, pass[tx[r].p].status)
      /\ pass'[tx[r].p].target = Column(tx[r].was, tx[r].aim, pass[tx[r].p].target)
  BY <1>1, <1>2 DEF CommitPass, PassRows
<1>5. QED
  BY <1>1, <1>3, <1>4 DEF Column

LEMMA PassPromised ==
  ASSUME SoleInv, NEW r \in Requests, CommitPass(r), UNCHANGED contested
  PROVE  Promise!Next \/ UNCHANGED Promise!vars
<1> DEFINE p == tx[r].p
           life == [n \in Passes |-> IF n \in contested THEN "contended" ELSE pass[n].status]
           class == [n \in Passes |-> IF n \in contested THEN Nobody ELSE pass[n].target]
<1>1. \A n \in Passes \ {p} : pass'[n] = pass[n]
  <2>1. pass' = [pass EXCEPT ![p].status = Column(tx[r].seen, tx[r].to, @),
                             ![p].target = Column(tx[r].was, tx[r].aim, @)]
    BY DEF CommitPass
  <2>2. QED
    BY <2>1 DEF SoleInv, PassInv, BodyOK
<1>2. CASE p \in contested
  BY <1>1, <1>2 DEF Promise!vars
<1>3. CASE p \notin contested
  <2>1. /\ p \in Passes
        /\ pass'[p].status = tx[r].to /\ pass'[p].target = tx[r].aim
        /\ Legal(tx[r])
        /\ tx[r].seen = pass[p].status /\ tx[r].was = pass[p].target
    BY <1>3, SavedAsDecided
  <2>2. life[p] = tx[r].seen /\ class[p] = tx[r].was
    BY <1>3, <2>1
  <2>3. Promise!Move(p, tx[r].to, tx[r].aim)
    BY <1>1, <1>3, <2>1 DEF Promise!Move
  <2> HIDE DEF p
  <2>4. CASE tx[r].to = "booked" /\ tx[r].seen \in {"available", "booked"} /\ tx[r].aim \in Sessions
    <3>1. Promise!Book(p, tx[r].aim)
      BY <2>2, <2>3, <2>4 DEF Promise!Book, Promise!Usable
    <3>2. QED
      BY <2>1, <2>4, <3>1 DEF Promise!Next, Promise!Book, Promise!Move
  <2>5. CASE tx[r].to = "available" /\ tx[r].seen = "booked" /\ tx[r].aim = Nobody
    <3>1. Promise!Release(p)
      BY <2>2, <2>3, <2>5 DEF Promise!Release, Promise!Move
    <3>2. QED
      BY <2>1, <3>1 DEF Promise!Next, Promise!Release, Promise!Move
  <2>6. CASE tx[r].to = "attended" /\ tx[r].seen = "booked" /\ tx[r].aim = tx[r].was
    <3>1. Promise!Attend(p)
      BY <2>2, <2>3, <2>6 DEF Promise!Attend, Promise!Move
    <3>2. QED
      BY <2>1, <3>1 DEF Promise!Next, Promise!Attend, Promise!Move
  <2>7. CASE tx[r].to = "attended" /\ tx[r].seen = "attended" /\ tx[r].aim = tx[r].was
    <3>1. \A n \in Passes : pass'[n].status = pass[n].status /\ pass'[n].target = pass[n].target
      BY <1>1, <2>1, <2>7
    <3>2. QED
      BY <3>1 DEF Promise!vars
  <2>8. CASE tx[r].to = "cancelled" /\ tx[r].seen \in {"booked", "attended"} /\ tx[r].aim = tx[r].was
    <3>1. Promise!Miss(p)
      BY <2>2, <2>3, <2>8 DEF Promise!Miss, Promise!Move
    <3>2. QED
      BY <2>1, <3>1 DEF Promise!Next, Promise!Miss, Promise!Move
  <2>9. CASE tx[r].to = "expired" /\ tx[r].seen \in {"available", "booked"} /\ tx[r].aim = Nobody
    <3>1. Promise!Expire({p})
      BY <1>1, <1>3, <2>1, <2>9 DEF Promise!Expire, Promise!End, Promise!Usable
    <3>2. {p} \in SUBSET Passes
      BY <2>1
    <3>3. QED
      BY <3>1, <3>2 DEF Promise!Next, Promise!Expire, Promise!End
  <2>10. QED
    BY <2>1, <2>4, <2>5, <2>6, <2>7, <2>8, <2>9 DEF Legal
<1>4. QED
  BY <1>2, <1>3

LEMMA ExpiryPromised ==
  ASSUME SoleInv, NEW r \in Requests, CommitExpiry(r), UNCHANGED contested
  PROVE  Promise!Next
<1> DEFINE read(p) == {was \in Sessions \cup {Nobody} : <<p, was>> \in tx[r].due}
           E == {p \in Passes \ contested : read(p) # {}}
<1>1. \A p \in Passes : pass'[p] = IF read(p) = {} THEN pass[p]
                                   ELSE [pass[p] EXCEPT !.status = "expired",
                                          !.target = IF read(p) = {Nobody} THEN @ ELSE Nobody]
  BY DEF CommitExpiry
<1>2. ASSUME NEW p \in E
      PROVE  /\ pass[p].status \in {"available", "booked"}
             /\ pass'[p].status = "expired" /\ pass'[p].target = Nobody
  <2>1. pass[p] \in PassRows
    BY DEF SoleInv, PassInv, BodyOK
  <2>2. \A was \in read(p) : pass[p].status \in {"available", "booked"} /\ was = pass[p].target
    BY DEF SoleInv, Knows
  <2>3. read(p) = {pass[p].target}
    BY <2>2
  <2> HIDE DEF read
  <2>4. pass'[p] = [pass[p] EXCEPT !.status = "expired",
                                   !.target = IF read(p) = {Nobody} THEN @ ELSE Nobody]
    BY <1>1
  <2>5. pass'[p].status = "expired" /\ pass'[p].target = Nobody
    BY <2>1, <2>3, <2>4 DEF PassRows
  <2>6. QED
    BY <2>2, <2>3, <2>5
<1>3. \A p \in (Passes \ contested) \ E : pass'[p] = pass[p]
  BY <1>1
<1>4. E \in SUBSET Passes /\ \A p \in E : p \notin contested
  OBVIOUS
<1> HIDE DEF E
<1>5. Promise!Expire(E)
  BY <1>2, <1>3, <1>4 DEF Promise!Expire, Promise!End, Promise!Usable
<1>6. QED
  BY <1>4, <1>5 DEF Promise!Next, Promise!Expire, Promise!End

LEMMA StepKeepsPassPromise ==
  ASSUME SoleInv, [Next]_vars
  PROVE  [Promise!Next]_(Promise!vars)
<1>0. BodyOK /\ TxTied
  BY DEF SoleInv, PassInv
<1>1. CASE UNCHANGED vars
  BY <1>1, PromiseStutters DEF vars, tables
<1>2. CASE Next
  <2> USE <1>2 DEF Next
  <2>1. CASE AtOnce
    <3>1. tx' = tx
      BY <2>1 DEF AtOnce, ensure_session, create_makeup_credit, Tick
    <3>2. contested' = contested
      BY <3>1, NothingContended
    <3>3. CASE create_makeup_credit
      BY <3>2, <3>3, HandPromised
    <3>4. CASE (\E x \in Sessions : ensure_session(x)) \/ Tick
      BY <3>2, <3>4, PromiseStutters DEF ensure_session, Tick, tables
    <3>5. QED
      BY <2>1, <3>3, <3>4 DEF AtOnce
  <2>2. ASSUME NEW r \in Requests, NEW t, Starts(r, t) PROVE Promise!Next
    BY <2>2, StartPromised DEF Starts, tables
  <2>3. ASSUME NEW r \in Requests, GoesOn(r) PROVE Promise!Next
    BY <2>3, StartPromised DEF GoesOn, tables
  <2>4. ASSUME NEW r \in Requests, Ends(r) PROVE Promise!Next \/ UNCHANGED Promise!vars
    <3>1. contested' = contested
      BY <2>4, EndsEnds, EndContendsNothing
    <3>2. CASE CommitSession(r) \/ CommitDeleteMark(r) \/ Rollback(r)
      BY <3>1, <3>2, PromiseStutters DEF CommitSession, CommitDeleteMark, Rollback, tables
    <3>3. CASE CommitMarks(r)
      BY <3>1, <3>3, MarksPromised
    <3>4. CASE CommitPass(r)
      BY <3>1, <3>4, PassPromised
    <3>5. CASE CommitExpiry(r)
      BY <3>1, <3>5, ExpiryPromised
    <3>6. QED
      BY <2>4, <3>2, <3>3, <3>4, <3>5 DEF Ends
  <2>5. QED
    BY <1>0, <2>1, <2>2, <2>3, <2>4, StepKinds
<1>3. QED
  BY <1>1, <1>2

\* Every handler, daily task and list, with its reads, its stale writes and its
\* failures, keeps what a pass promises: used and expired passes stay so, a class is
\* only given by a booking and only taken by a release or the expiry.
THEOREM ClassroomKeepsPassPromise == Spec => KeepsPassPromise
<1>1. Init => Promise!Init
  BY DEF Init, NoPass, Promise!Init
<1>2. QED
  BY <1>1, StepKeepsPassPromise, SoleInvHolds, PTL DEF Spec, KeepsPassPromise, Promise!Spec

-----------------------------------------------------------------------------
(* No class is overbooked.                                                 *)

\* A booking: it waits for the class, or holds it and has found room.
Books(r) == tx[r].op = "pass" /\ tx[r].to = "booked"

HoldsTarget(r) ==
    /\ tx[r].at = "lock" => tx[r].to = "booked" /\ tx[r].x = tx[r].aim
    /\ Books(r) /\ tx[r].at = "commit" => tx[r].aim \in Sessions /\ sessionLock[tx[r].aim] = r

\* The passes whose booking in x has found room and is not yet saved.
Reserved(x) ==
    {p \in Passes : \E r \in Requests : /\ Books(r) /\ tx[r].at = "commit"
                                        /\ tx[r].aim = x /\ tx[r].p = p}

Places(x) == (Booked(x) \cup Reserved(x)) \ contested

RoomFor(x) ==
    Places(x) # {} =>
        Cardinality(Enrolled(CourseAt[x])) + Cardinality(Places(x)) <= MaxStudents[CourseAt[x]]

RoomInv ==
    /\ SoleInv
    /\ \A r \in Requests : HoldsTarget(r)
    /\ \A x \in Sessions : RoomFor(x)

LEMMA Finite ==
  /\ \A c : IsFiniteSet(Enrolled(c)) /\ Cardinality(Enrolled(c)) \in Nat
  /\ \A x : IsFiniteSet(Booked(x)) /\ Cardinality(Booked(x)) \in Nat
  /\ \A x : IsFiniteSet(Places(x)) /\ Cardinality(Places(x)) \in Nat
  /\ \A x \in Sessions : MaxStudents[CourseAt[x]] \in Nat
<1>1. ASSUME NEW S, S \subseteq Matriculas \/ S \subseteq Passes
      PROVE  IsFiniteSet(S) /\ Cardinality(S) \in Nat
  BY <1>1, FS_Subset, FS_CardinalityType, ClassroomAssumption
<1>2. \A c : Enrolled(c) \subseteq Matriculas
  BY DEF Enrolled
<1>3. \A x : Booked(x) \subseteq Passes /\ Places(x) \subseteq Passes
  BY DEF Booked, Reserved, Places
<1>4. \A x \in Sessions : MaxStudents[CourseAt[x]] \in Nat
  BY ClassroomAssumption
<1>5. QED
  BY <1>1, <1>2, <1>3, <1>4

LEMMA FewerPlaces ==
  ASSUME NEW x \in Sessions, RoomFor(x), Places(x)' \subseteq Places(x)
  PROVE  RoomFor(x)'
<1>1. IsFiniteSet(Places(x)) /\ Cardinality(Places(x)) \in Nat
  BY Finite
<1>2. PICK S : S = Places(x)'
  OBVIOUS
<1>3. Cardinality(S) <= Cardinality(Places(x)) /\ IsFiniteSet(S) /\ Cardinality(S) \in Nat
  BY <1>1, <1>2, FS_Subset, FS_CardinalityType
<1>4. Cardinality(Enrolled(CourseAt[x])) \in Nat /\ MaxStudents[CourseAt[x]] \in Nat
  BY Finite
<1>5. Enrolled(CourseAt[x])' = Enrolled(CourseAt[x])
  BY DEF Enrolled
<1>6. S # {} => Places(x) # {}
  BY <1>2
<1>7. S # {} => Cardinality(Enrolled(CourseAt[x])) + Cardinality(S) <= MaxStudents[CourseAt[x]]
  BY <1>1, <1>3, <1>4, <1>6 DEF RoomFor
<1>8. QED
  BY <1>2, <1>5, <1>7 DEF RoomFor

\* Nobody takes a class from the booking that holds it.
LEMMA TargetKept ==
  ASSUME SoleInv, Step, NEW q \in Requests, NEW x \in Sessions, sessionLock[x] = q,
         tx'[q].op # "none"
  PROVE  sessionLock'[x] = q
<1>0. BodyOK /\ TxTied
  BY DEF SoleInv, PassInv
<1>1. CASE AtOnce
  BY <1>1 DEF AtOnce, ensure_session, create_makeup_credit, Tick, locks
<1>2. ASSUME NEW r \in Requests, NEW t, Starts(r, t) PROVE sessionLock'[x] = q
  BY <1>2 DEF Starts, locks
<1>3. ASSUME NEW r \in Requests, MarkItem(r) PROVE sessionLock'[x] = q
  BY <1>3 DEF MarkItem
<1>4. ASSUME NEW r \in Requests, LockTarget(r), tx'[r].at = "commit" PROVE sessionLock'[x] = q
  <2>1. ~Rollback(r)
    BY <1>0, <1>4, EndKeepsOthers DEF Rollback, NoTx
  <2>2. sessionLock[tx[r].x] \in {Nobody, r} /\ sessionLock' = [sessionLock EXCEPT ![tx[r].x] = r]
    BY <1>4, <2>1 DEF LockTarget, LockFree, Free
  <2>3. q # Nobody
    BY ClassroomAssumption
  <2>4. QED
    BY <1>0, <2>2, <2>3 DEF BodyOK
<1>5. ASSUME NEW r \in Requests, Ends(r) PROVE sessionLock'[x] = q
  <2>1. r # q
    BY <1>0, <1>5, EndsEnds, EndKeepsOthers DEF NoTx
  <2>2. QED
    BY <1>5, <2>1, EndsEnds DEF End
<1>6. QED
  BY <1>0, <1>1, <1>2, <1>3, <1>4, <1>5, StepKinds

\* A booking that has found room holds the class.
LEMMA LockTaken ==
  ASSUME SoleInv, NEW r \in Requests, LockTarget(r), tx'[r].at = "commit"
  PROVE  /\ tx[r].at = "lock" /\ tx[r].x \in Sessions
         /\ sessionLock[tx[r].x] \in {Nobody, r} /\ sessionLock'[tx[r].x] = r
         /\ Occupied(tx[r]) < MaxStudents[CourseAt[tx[r].x]]
         /\ UNCHANGED pass
<1>1. BodyOK /\ TxTied
  BY DEF SoleInv, PassInv
<1>2. ~Rollback(r)
  BY <1>1, EndKeepsOthers DEF Rollback, NoTx
<1>3. tx[r].at = "lock" /\ tx[r].x \in Sessions
  BY <1>1 DEF LockTarget, TxTied, Tied
<1>4. QED
  BY <1>1, <1>2, <1>3 DEF LockTarget, LockFree, Free, tables, BodyOK

LEMMA HoldsTargetStep ==
  ASSUME SoleInv, Step, \A r \in Requests : HoldsTarget(r), NEW q \in Requests
  PROVE  HoldsTarget(q)'
<1>0. BodyOK /\ TxTied
  BY DEF SoleInv, PassInv
<1>1. CASE tx'[q] = tx[q]
  <2>1. ASSUME Books(q), tx[q].at = "commit"
        PROVE  tx[q].aim \in Sessions /\ sessionLock'[tx[q].aim] = q
    <3>1. tx[q].aim \in Sessions /\ sessionLock[tx[q].aim] = q
      BY <2>1 DEF HoldsTarget
    <3>2. tx'[q].op # "none"
      BY <1>1, <2>1 DEF Books
    <3>3. QED
      BY <3>1, <3>2, TargetKept
  <2>2. QED
    BY <1>1, <2>1 DEF HoldsTarget, Books
<1>2. CASE AtOnce
  BY <1>1, <1>2 DEF AtOnce, ensure_session, create_makeup_credit, Tick
<1>3. ASSUME NEW r \in Requests, NEW t, Starts(r, t) PROVE HoldsTarget(q)'
  <2>1. tx'[r] = t /\ (q # r => tx'[q] = tx[q])
    BY <1>0, <1>3, StartGoes
  <2>2. t.op = "pass" => (t.at = "commit" => t.to # "booked") /\ (t.at = "lock" => t.x = t.aim /\ t.to = "booked")
    BY <1>3 DEF Starts, PassRead
  <2>3. t.at = "lock" => t.op = "pass"
    BY <1>3 DEF Starts, Tied
  <2>4. QED
    BY <1>1, <2>1, <2>2, <2>3 DEF HoldsTarget, Books
<1>4. ASSUME NEW r \in Requests, MarkItem(r), GoesOn(r) PROVE HoldsTarget(q)'
  <2>1. q # r => tx'[q] = tx[q]
    BY <1>0, <1>4, GoesOnGoes
  <2>2. tx'[r].op # "pass"
    BY <1>0, <1>4 DEF MarkItem, TxTied, Tied, GoesOn
  <2>3. tx'[r].at # "lock"
    BY <1>0, <1>4, <2>2, ItemType DEF TxTied, Tied
  <2>4. QED
    BY <1>1, <2>1, <2>2, <2>3 DEF HoldsTarget, Books
<1>5. ASSUME NEW r \in Requests, LockTarget(r), GoesOn(r), tx'[r].at = "commit" PROVE HoldsTarget(q)'
  <2>1. q # r => tx'[q] = tx[q]
    BY <1>0, <1>5, GoesOnGoes
  <2>2. tx[r].at = "lock" /\ tx[r].x \in Sessions /\ sessionLock'[tx[r].x] = r
    BY <1>5, LockTaken
  <2>3. tx[r].x = tx[r].aim /\ tx'[r].aim = tx[r].aim
    BY <1>5, <2>2 DEF HoldsTarget, GoesOn
  <2>4. QED
    BY <1>1, <1>5, <2>1, <2>2, <2>3 DEF HoldsTarget
<1>6. ASSUME NEW r \in Requests, Ends(r) PROVE HoldsTarget(q)'
  <2>1. tx'[r] = NoTx /\ (q # r => tx'[q] = tx[q])
    BY <1>0, <1>6, EndsEnds, EndKeepsOthers
  <2>2. NoTx.op # "pass" /\ NoTx.at = "idle"
    BY DEF NoTx
  <2>3. QED
    BY <1>1, <2>1, <2>2 DEF HoldsTarget, Books
<1>7. QED
  BY <1>0, <1>2, <1>3, <1>4, <1>5, <1>6, StepKinds

\* A pass takes a place when its booking finds room, and not before.
LEMMA PlaceTaken ==
  ASSUME SoleInv, Step, Watch, \A r \in Requests : HoldsTarget(r),
         NEW x \in Sessions, NEW p \in Places(x)' \ Places(x)
  PROVE  \E r \in Requests :
           /\ LockTarget(r) /\ GoesOn(r) /\ tx'[r].at = "commit" /\ tx[r].at = "lock"
           /\ tx[r].aim = x /\ tx[r].p = p
<1>0. BodyOK /\ TxTied /\ IssuesFresh
  BY DEF SoleInv, PassInv
<1>1. contested \subseteq contested'
  BY DEF Watch
<1>2. p \in Passes /\ p \notin contested' /\ p \notin contested
  BY <1>1 DEF Places, Booked, Reserved
<1>3. p \notin Booked(x) /\ p \notin Reserved(x)
  BY <1>2 DEF Places
<1>4. ~(pass'[p].status = "booked" /\ pass'[p].target = x)
  <2> SUFFICES ASSUME pass'[p].status = "booked", pass'[p].target = x PROVE FALSE
    OBVIOUS
  <2>1. pass'[p] # pass[p]
    BY <1>2, <1>3 DEF Booked
  <2>2. ASSUME NEW r \in Requests, CommitPass(r), tx[r].op = "pass", tx[r].at = "commit", tx[r].p = p
        PROVE  FALSE
    <3>1. tx[r].to = "booked" /\ tx[r].aim = x
      BY <1>2, <2>2, SavedAsDecided
    <3>2. QED
      BY <1>2, <1>3, <2>2, <3>1 DEF Reserved, Books
  <2>3. ~Saved(p)
    BY <2>2 DEF Saved
  <2>4. QED
    BY <1>0, <1>2, <2>1, <2>3, PassWrites DEF Inserted, Lapsed
<1>5. PICK q \in Requests :
        tx'[q].op = "pass" /\ tx'[q].to = "booked" /\ tx'[q].at = "commit" /\ tx'[q].aim = x /\ tx'[q].p = p
  BY <1>4 DEF Places, Booked, Reserved, Books
<1>6. tx'[q] # tx[q]
  BY <1>2, <1>3, <1>5 DEF Reserved, Books
<1>7. ~AtOnce
  BY <1>6 DEF AtOnce, ensure_session, create_makeup_credit, Tick
<1>8. ASSUME NEW r \in Requests, NEW t, Starts(r, t) PROVE FALSE
  <2>1. tx'[r] = t /\ (q # r => tx'[q] = tx[q])
    BY <1>0, <1>8, StartGoes
  <2>2. t.op = "pass" /\ t.at = "commit" => t.to # "booked"
    BY <1>8 DEF Starts, PassRead
  <2>3. QED
    BY <1>5, <1>6, <2>1, <2>2
<1>9. ASSUME NEW r \in Requests, MarkItem(r), GoesOn(r) PROVE FALSE
  <2>1. q # r => tx'[q] = tx[q]
    BY <1>0, <1>9, GoesOnGoes
  <2>2. tx'[r].op # "pass"
    BY <1>0, <1>9 DEF MarkItem, TxTied, Tied, GoesOn
  <2>3. QED
    BY <1>5, <1>6, <2>1, <2>2
<1>10. ASSUME NEW r \in Requests, Ends(r) PROVE FALSE
  <2>1. tx'[r] = NoTx /\ (q # r => tx'[q] = tx[q])
    BY <1>0, <1>10, EndsEnds, EndKeepsOthers
  <2>2. NoTx.op # "pass"
    BY DEF NoTx
  <2>3. QED
    BY <1>5, <1>6, <2>1, <2>2
<1>11. PICK r \in Requests : /\ LockTarget(r) /\ GoesOn(r)
                             /\ tx[r].at = "lock" /\ tx'[r].at = "commit"
  BY <1>0, <1>7, <1>8, <1>9, <1>10, StepKinds
<1>12. q = r
  BY <1>0, <1>6, <1>11, GoesOnGoes
<1>13. QED
  BY <1>5, <1>11, <1>12 DEF GoesOn

\* The room that a booking finds is enough for it and for all that are there.
LEMMA RoomFound ==
  ASSUME RoomInv, Watch, NEW r \in Requests, LockTarget(r), GoesOn(r),
         tx[r].at = "lock", tx'[r].at = "commit", NEW x \in Sessions, tx[r].aim = x
  PROVE  RoomFor(x)'
<1> DEFINE p == tx[r].p
           full == Cardinality(Enrolled(CourseAt[x]))
<1>0. BodyOK /\ TxTied /\ SoleInv /\ \A q \in Requests : HoldsTarget(q)
  BY DEF RoomInv, SoleInv, PassInv
<1>1. tx[r].op = "pass" /\ p \in Passes /\ tx[r].x = x
  BY <1>0 DEF TxTied, Tied, HoldsTarget
<1>2. /\ sessionLock[x] \in {Nobody, r} /\ Occupied(tx[r]) < MaxStudents[CourseAt[x]]
      /\ pass' = pass
  BY <1>0, <1>1, LockTaken
<1>3. Reserved(x) = {}
  <2> SUFFICES ASSUME NEW q \in Requests, Books(q), tx[q].at = "commit", tx[q].aim = x PROVE FALSE
    BY DEF Reserved
  <2>1. sessionLock[x] = q
    BY <1>0 DEF HoldsTarget
  <2>2. q = r
    BY <1>2, <2>1, ClassroomAssumption
  <2>3. QED
    BY <2>2
<1>4. Reserved(x)' \subseteq {p}
  <2> SUFFICES ASSUME NEW q \in Requests, tx'[q].op = "pass", tx'[q].to = "booked",
                      tx'[q].at = "commit", tx'[q].aim = x
               PROVE  tx'[q].p = p
    BY DEF Reserved, Books
  <2>1. CASE q = r
    BY <2>1 DEF GoesOn
  <2>2. CASE q # r
    <3>1. tx'[q] = tx[q]
      BY <1>0, <2>2, GoesOnGoes
    <3>2. tx[q].p \in Reserved(x)
      BY <1>0, <3>1 DEF Reserved, Books, TxTied, Tied
    <3>3. QED
      BY <1>3, <3>2
  <2>3. QED
    BY <2>1, <2>2
<1>5. Booked(x)' = Booked(x) /\ contested \subseteq contested'
  BY <1>2 DEF Booked, Watch
<1>6. IsFiniteSet(Booked(x)) /\ Cardinality(Booked(x)) \in Nat /\ full \in Nat
      /\ MaxStudents[CourseAt[x]] \in Nat
  BY Finite
<1>7. PICK S : S = Places(x)'
  OBVIOUS
<1>8. full + Cardinality(S) <= MaxStudents[CourseAt[x]]
  <2> DEFINE own == IF tx[r].seen = "booked" /\ tx[r].was = x THEN 1 ELSE 0
  <2>1. (full + Cardinality(Booked(x))) - own < MaxStudents[CourseAt[x]]
    BY <1>1, <1>2 DEF Occupied
  <2>2. own \in {0, 1}
    OBVIOUS
  <2>3. CASE p \in contested
    <3>1. S \subseteq Booked(x)
      BY <1>4, <1>5, <1>7, <2>3 DEF Places
    <3>2. Cardinality(S) <= Cardinality(Booked(x)) /\ Cardinality(S) \in Nat
      BY <1>6, <3>1, FS_Subset, FS_CardinalityType
    <3> HIDE DEF own, full
    <3>3. QED
      BY <1>6, <2>1, <2>2, <3>2
  <2>4. CASE p \notin contested
    <3>1. own = 1 <=> p \in Booked(x)
      BY <1>0, <1>1, <2>4 DEF SoleInv, Knows, Booked
    <3>2. S \subseteq Booked(x) \cup {p}
      BY <1>4, <1>5, <1>7 DEF Places
    <3>3. /\ IsFiniteSet(Booked(x) \cup {p})
          /\ Cardinality(Booked(x) \cup {p}) =
               IF p \in Booked(x) THEN Cardinality(Booked(x)) ELSE Cardinality(Booked(x)) + 1
      BY <1>6, FS_AddElement
    <3>4. Cardinality(S) <= Cardinality(Booked(x) \cup {p}) /\ Cardinality(S) \in Nat
      BY <3>2, <3>3, FS_Subset, FS_CardinalityType
    <3> HIDE DEF own, full
    <3>5. QED
      BY <1>6, <2>1, <2>2, <3>1, <3>3, <3>4
  <2>5. QED
    BY <2>3, <2>4
<1>9. Enrolled(CourseAt[x])' = Enrolled(CourseAt[x])
  BY DEF Enrolled
<1>10. QED
  BY <1>7, <1>8, <1>9 DEF RoomFor

LEMMA RoomStep ==
  ASSUME RoomInv, Next
  PROVE  RoomInv'
<1>0. SoleInv /\ Step /\ Watch /\ \A r \in Requests : HoldsTarget(r)
  BY DEF RoomInv, Next
<1>1. SoleInv' /\ \A q \in Requests : HoldsTarget(q)'
  BY <1>0, SoleStep, HoldsTargetStep
<1>2. ASSUME NEW x \in Sessions PROVE RoomFor(x)'
  <2>1. RoomFor(x)
    BY DEF RoomInv
  <2>2. CASE Places(x)' \subseteq Places(x)
    BY <2>1, <2>2, FewerPlaces
  <2>3. CASE \E p \in Places(x)' : p \notin Places(x)
    <3>1. PICK p \in Places(x)' \ Places(x) : TRUE
      BY <2>3
    <3>2. PICK r \in Requests :
            /\ LockTarget(r) /\ GoesOn(r) /\ tx'[r].at = "commit" /\ tx[r].at = "lock"
            /\ tx[r].aim = x /\ tx[r].p = p
      BY <1>0, <3>1, PlaceTaken
    <3>3. QED
      BY <1>0, <3>2, RoomFound
  <2>4. QED
    BY <2>2, <2>3
<1>3. QED
  BY <1>1, <1>2 DEF RoomInv

LEMMA RoomInit ==
  ASSUME Init
  PROVE  RoomInv
<1>1. \A r \in Requests : tx[r].op # "pass" /\ tx[r].at # "lock"
  BY DEF Init, NoTx
<1>2. \A x \in Sessions : Places(x) = {}
  BY <1>1 DEF Init, NoPass, Places, Booked, Reserved, Books
<1>3. QED
  BY <1>1, <1>2, SoleInit DEF RoomInv, HoldsTarget, Books, RoomFor

LEMMA RoomStutter ==
  ASSUME RoomInv, UNCHANGED vars
  PROVE  RoomInv'
<1>1. SoleInv'
  BY SoleStutter DEF RoomInv
<1>2. tx' = tx /\ pass' = pass /\ contested' = contested /\ sessionLock' = sessionLock
  BY DEF vars, tables, locks
<1>3. \A r \in Requests : HoldsTarget(r)'
  BY <1>2 DEF RoomInv, HoldsTarget, Books
<1>4. ASSUME NEW x \in Sessions PROVE RoomFor(x)'
  <2>1. Places(x)' = Places(x)
    BY <1>2 DEF Places, Booked, Reserved, Books
  <2>2. QED
    BY <2>1, FewerPlaces DEF RoomInv
<1>5. QED
  BY <1>1, <1>3, <1>4 DEF RoomInv

LEMMA RoomIsEnough ==
  ASSUME RoomInv
  PROVE  NotOverbooked
<1> SUFFICES ASSUME NEW x \in Sessions, Booked(x) \ contested # {}
             PROVE  Cardinality(Enrolled(CourseAt[x])) + Cardinality(Booked(x) \ contested)
                      <= MaxStudents[CourseAt[x]]
  BY DEF NotOverbooked
<1>1. PICK S : S = Booked(x) \ contested
  OBVIOUS
<1>2. S \subseteq Places(x)
  BY <1>1 DEF Places
<1>3. IsFiniteSet(Places(x)) /\ Cardinality(Places(x)) \in Nat
  BY Finite
<1>4. Cardinality(S) <= Cardinality(Places(x)) /\ Cardinality(S) \in Nat
  BY <1>2, <1>3, FS_Subset, FS_CardinalityType
<1>5. Cardinality(Enrolled(CourseAt[x])) \in Nat /\ MaxStudents[CourseAt[x]] \in Nat
  BY Finite
<1>6. Cardinality(Enrolled(CourseAt[x])) + Cardinality(Places(x)) <= MaxStudents[CourseAt[x]]
  BY <1>1, <1>2 DEF RoomInv, RoomFor
<1>7. QED
  BY <1>1, <1>3, <1>4, <1>5, <1>6

\* Bookings that race for the last places of a class never take more than there are,
\* with those that hold a seat, among the passes that one request handles at a time.
THEOREM NeverOverbooked == Spec => []NotOverbooked
<1>1. Init => RoomInv
  BY RoomInit
<1>2. RoomInv /\ [Next]_vars => RoomInv'
  BY RoomStep, RoomStutter
<1>3. RoomInv => NotOverbooked
  BY RoomIsEnough
<1>4. QED
  BY <1>1, <1>2, <1>3, PTL DEF Spec
=============================================================================
