# educa: a TLA+ verification project

educa is the administration system of language academies: a FastAPI backend over
Postgres (`src/backend/app`) and a React client (`src/frontend`). This directory
holds TLA+ models of the parts of both whose correctness depends on the order in
which requests, jobs, crashes, answers and clicks happen, the TLC configurations
that check them, and TLAPS proofs of what matters most.

Contents: 1 the system and its hard parts; 2 the plan, with what is left of it;
3 the modules; 4 the runs, their bounds and the fairness they assume; 5 where the
code and what is said of it disagree; 6 the proofs; 7 what is not modelled.

## 1. The system

### How the server runs

Every HTTP request runs in a thread with its own SQLAlchemy session
(`core/database.py:get_db`) and one Postgres transaction at READ COMMITTED: each
SELECT sees what is committed at that moment, rows are written when the handler
commits, and an exception rolls everything back. Nothing is shared in memory
between requests; all interaction is through rows. Explicit row locks
(`SELECT ... FOR UPDATE`) are taken in seven places only:

| row | where |
| --- | --- |
| academy (`tenants`) | `services/enrollments.py:65`, before the quota is counted |
| course | `routers/enrollments.py:152`, `:349`, `:463`, before the seats are counted |
| matricula (`enrollments`) | `routers/payments.py:217`, before an invoice is issued |
| class session | `routers/makeups.py:423`, before a make-up is booked |
| delivery | `services/delivery.py:129`, `SKIP LOCKED`, when a message is claimed |

Everything else is read without a lock and used later. (Rows that an UPDATE or
INSERT has written stay locked to the commit as well, and a row that references
another keeps it from a `FOR UPDATE`; the models use both where they matter.) Each API process also runs
a background thread (`services/background.py`) that drains the notification
outbox, runs the weekly at-risk sweep and refreshes payment statuses; the same jobs
can be started by hand from `cli.py`, so several of them may run at once.

### Components

| component | state | operations | what makes it correct | here |
| --- | --- | --- | --- | --- |
| Enrollments (`routers/enrollments.py`, `services/enrollments.py`) | status of each matricula | create, bulk create, PATCH status, delete | never more seats than capacity or plan; no student in two rooms at once; no graded matricula lost | `Seats` |
| Course catalogue (`routers/catalog.py`, `services/courses.py`) | status and capacity of each course | edit, change status, delete | shelved only when empty; births only while open | `Seats` |
| Plans (`services/tenant_plans.py`, `routers/tenants.py`) | quota of the academy | change plan, edit the quota | the quota covers the students | `Seats` |
| Grades (`routers/grades.py`) | marks of a matricula | upsert | a record is never erased | `Seats` (one action) |
| Notification outbox (`services/delivery.py`, `services/notifications.py`, `services/push.py`) | deliveries, subscriptions | queue, expire, claim, attempt, commit | at most once except for a lost answer; nothing stale is sent; the queue drains | `Outbox` |
| Background jobs (`services/background.py`, `services/risk_sweep.py`) | the loop, the week's claim | batch, sweep | once a week, whole or not at all | `Outbox` |
| Renewals (`routers/renewals.py`) | requests for a place in the next level | request, withdraw, approve, reject | one pending request per matricula; an approval has its matricula; no door but `open_enrollment` | `Renewals` |
| Payments (`routers/payments.py`, `services/finance.py`) | payments, invoices, cached status | pay, refresh, invoice | the cache agrees with the payments; no money is invoiced twice | `Ledger` |
| Sessions (`routers/sessions.py`, `services/sessions.py`) | status and register of each class | ensure, cancel, move, PATCH, close, reopen | a marked or closed class is not still to come | `Classroom` |
| Attendance (`routers/attendance.py`) | one mark per student and class | single and bulk upsert, correct, delete | one absence issues one pass | `Classroom` |
| Make-up credits (`routers/makeups.py`, `cli.py`) | passes: status, target class, last day | issue, book, release, use, expire | a class is not overfilled; no place expires before its class; a used pass stays used | `Classroom` |
| Tokens (`routers/auth.py`, `services/device_sessions.py`, `lib/api.ts`, `auth/`) | refresh rows; the pair in the browser's storage, shared by its tabs | login, refresh, logout, change of password | an honest browser is not taken for a thief; a refused request gets its turn | `WebSession` |
| Login, second factor, lockout (`routers/auth.py`, `pages/Login.tsx`, `MFAVerify.tsx`) | counts of failed attempts, links to a provider's identity, the academy a browser remembers | password, provider, code | a good credential is turned away only for a reason one can name | `SignIn` |
| Permissions (`core/deps.py`, `lib/nav.ts`, `router.tsx`) | the account and the client's copy of it | menus, palette, tray, guards | what is offered opens, and what is refused is not offered | `Access` |
| Query cache (`lib/queries`, `lib/queryClient.ts`) | cached answers, thirty seconds each | read, change, invalidate | a screen shows its own changes | `QueryCache` |
| Offline register (`pages/ClassMode.tsx`, `lib/attendanceQueue.ts`) | taps in memory and in the phone | tap, send, retry, close | the last tap stands; none is left lying | `ClassMode` |
| Register and grade sheet (`pages/TeacherDashboard.tsx`, `GradeTable.tsx`) | optimistic rows | mark, save a score, roll back | at rest the sheet shows the server | `RosterSheet`, `GradeCell` |
| Waiting room (`pages/Lobby.tsx`, `routers/meetings.py`) | the link held, the streams running | enter, reconnect, test devices | the link in its hours; no camera left on | `LobbyRoom`, `DeviceTest` |
| Wizards and dialogs (`features/`) | what a dialog remembers of what it has made | several requests in a row | done means done; nothing is made twice | `Wizards`, `EnrollBatch`, `StudentImport`, `QuickPay`, `SpeedGrader` |
| Forms (`features/`, `components/ui.tsx`) | fields, requests under way | open, send, close | saved once; an answer acts on its own opening | `FormSession` |
| Figures of the screens (`lib/attendance.ts`, `lib/enrollment.ts`, `lib/format.ts`, panels) | none | pure functions | they agree with the server's rules | `Figures`, `DayFigures`, `ListFigures` |
| Ludi, audit trail, start-up and commands | one row each, or none | CRUD, reads, wiring | single-row validation | not modelled |

The interactions that matter: the enrollment, catalogue, plan and grade endpoints
meet on the rows of `enrollments` and `courses`, which is why they are one module;
renewals call `open_enrollment`; payments cache their result on the matricula;
sessions, attendance and make-ups share sessions and credits; any of them queues
messages in the transaction of its change (`notify`), and the background jobs of
every process meet on the rows of the queue. In the browser, tabs share the token
pair in `localStorage` and a lock; pages share one query cache, into which answers
come in any order; and a dialog may be closed and opened again while its request is
on its way.

### What is hard

* A handler checks on an unlocked read and writes later (status of a matricula,
  state and capacity of a course, count of grades, quota of a plan).
* Two row locks taken in two orders (`create_enrollment` takes the academy first,
  `bulk_enroll` the course first).
* Cascades: deleting a course or a matricula deletes what another request has just
  written below it.
* Life cycles that cross: matricula paused, course shelved, matricula reactivated.
* A process that dies between what a provider did and what the database knows.
* Several processes that drain the same queue and sweep the same academies.
* Two overlapping movements of one account, each deriving a status from what it sees.
* Tabs that refresh one token together, with reloads and lost answers in between.
* Optimistic updates whose rollback, refetch and next change cross.
* Dialogs that make several things in a row and are tried again after one failed.
* Copies of one rule on both sides, and of one table in four menus.

`PROJECT.json` lists each of these hazards at its line with the property that would
catch it, or the reason why none does.

## 2. The plan

Order of the modules, most important first:

1. `Lifecycles`, `Seats`: who holds a seat. Done, and proved.
2. `DeliveryPromise`, `Outbox`: notifications and background jobs. Done, and proved.
3. `Renewals`, which extends `Seats`: requests reviewed by several people, and an
   approval that calls `open_enrollment` with a course its session already holds.
   Done, and proved.
4. `PassPromise`, `Classroom`: sessions, attendance and make-up credits. Done, and
   proved.
5. The quota and the timetable under the academy's row: theorems about `Seats`. Done.
6. `WebSession`: rotation of refresh tokens by the tabs of a browser. Done, and proved.
7. `ClassMode`: the offline register, with liveness. Done, and proved.
8. The rest of the client and the ledger: small machines composed in `WebClient`.
   Done, and proved.
9. `Figures`, `DayFigures`, `ListFigures`: the pure rules of the screens against
   reference definitions. Done.

Left: the list of devices and closing one of them; the conflict queries of
teachers and rooms (`services/scheduling.py`) as operators; payroll.

## 3. The modules

### Lifecycles

The tables of `models/enums.py`: the statuses of a matricula and of a course,
the transitions allowed, and the sets the endpoints ask about (`OccupiesSeat`,
`AcceptsEnrolment`, `CourseIsActive`, `OpeningStates`).

### Seats

One academy, its students and courses. State:

| variable | code |
| --- | --- |
| `status[e]` | committed `Enrollment.status`; a matricula is `<<student, course, n>>`, "unborn" before its INSERT and "deleted" after a DELETE or a cascade |
| `recorded` | the matriculas on which a grade was ever written |
| `courseStatus`, `maxStudents` | committed columns of `Course` |
| `plan` | `Tenant.max_active_students` |
| `tenantLock`, `courseLock` | the row locks of `FOR UPDATE` |
| `tx[r]` | the request in flight in slot `r`: endpoint, place in the handler, and what it read and will write |

A handler is cut where another request can change its outcome: its unlocked
reads (the action named after the endpoint), each lock it waits for with the checks
made under it (`check_tenant_student_quota`, `OpenEnrollment`,
`ReactivateEnrollment`, `BulkLockCourse`, `BulkSeat`), and its commit (`Commit...`).
Refusals end the request without a write (`Rollback`). The commit applies the partial
unique index and fails on a row that is gone, as SQLAlchemy's flush does. A request
may die anywhere and is rolled back (`Fail`): its connection is lost, its process
killed, or Postgres aborts it to end a deadlock. `AbortDeadlock` is that last case,
named apart because fairness speaks of it.

What is abstracted:

* the counter of enrolment codes, a row lock that is always the last one taken;
* `create_grade` is one step, and an attendance mark counts as a grade: both are what
  `delete_enrollment` looks for;
* every course has dates, a teacher and a timetable, so readiness never stops a
  change of status; a clash of sessions may, and is a free choice of the commit;
* the timetable is a fixed set of pairs of courses that overlap (`Clashing`);
* a superadmin has no academy and takes no academy lock: requests in `Unscoped`. The
  runs leave it empty, since the quota is not meant for them; the theorems hold
  for any `Unscoped`.

### Renewals

Extends `Seats` with the rows of `renewal_requests` (`ask[a]`) and what a handler
knows of the one it judges (`review[r]`). `Elsewhere` is any step of a request of
`Seats`, with the cascade that takes the renewal requests of a deleted matricula or
course with it; the other actions are the four endpoints.

* `request_renewal` reads everything it checks without a lock; `CommitRequest` inserts
  under the partial unique index.
* `withdraw_request` and `reject_request` read the request and `CommitDecision`
  writes it, if it is still there. Nothing locks the request, so a rejection can
  overwrite an approval committed in between, and a withdrawal can delete it.
* `approve_request` is a `create_enrollment` of `Seats` seen through another handler:
  the same locks, checks and transaction `tx[r]`. The difference is what
  `open_enrollment` finds after it has waited for the course's lock. SQLAlchemy
  returns the object that the session already holds, with the columns of its first
  read, and this handler holds one: `review[r].seen` and `review[r].max` are those
  columns, passed to `open_enrollment` in place of the current ones.
* `CommitApproval` writes the matricula and the decision together.

What is abstracted: the levels of a track are consecutive numbers (`Level`); money
past due never stops a request; the fee, the notes and the notifications are
left out. `Asks` bounds the renewal requests ever made.

One detail stays outside the model because it is about the answer and not the state:
`request_renewal` flushes its INSERT (`renewals.py:278`) before `commit_or_conflict`
(`:303`), so the second of two taps is stopped by the index at the flush, with a 500
instead of the 409 prepared for it.

### DeliveryPromise and Outbox

`DeliveryPromise` says what a reader of the outbox expects of it without clock,
retries, locks or processes: one attempt at a time per message, "sent" only when
the provider took it, a final status for ever, no expiry during an attempt.

`Outbox` is the implementation: `Request` (a change that queues a message),
`unsubscribe`, `Tick`, and for each process `dispatch_pending` (the cutoff of the
expiry), `ExpireStale` (its UPDATE, which waits for locked rows), `claim_next`
(SKIP LOCKED), `send` (what the provider did and what it answered, which may
differ), `settle` (the commit of an attempt), `BatchDone`, `sweep_academy` (INSERT
of the week's row), `SweepCommit`, and `Crash`. `job[p]` is what the process
is doing; `taken[m]` counts what the provider took and `excused` the messages whose
attempt ended with nobody to write it down. Clocks are relative, so nothing but
`taken` needs a bound: `wait[m]` counts down to `next_attempt_at` and `age[m]`
counts up to the first tick at which the message is stale.

What is abstracted: the channels differ only in that a push has a device that may
be gone; one academy and one week for the sweep; a sweep queues any of its alerts;
the order in which due messages are claimed. A message that becomes stale while
a batch runs may still be sent by that batch, as in the code: the property is about
what was stale when the batch began.

### PassPromise and Classroom

`PassPromise` is the life of a make-up pass as its owner sees it: issued, booked,
released, used or missed, expired, and never back from an end. A pass that two
requests handle at once becomes "contended", and nothing more is promised of it.

`Classroom` is the code: classes, their registers, marks and passes.

| variable | code |
| --- | --- |
| `session[x]` | committed status of a class, "unborn" before its INSERT, and whether `register_closed_at` is set |
| `mark[x][m]` | the committed mark of matricula `m` in class `x` |
| `pass[p]` | committed row of a make-up credit: status, matricula, origin, target, last day; `by` remembers which endpoint issued it |
| `today` | the academy's calendar |
| `markLock`, `sessionLock` | the row of a mark, held from its upsert to the commit, and the `FOR UPDATE` of a booking |
| `tx[r]` | the request in flight: what it read (`seen`, `was`, `known`, `due`) and what it will write (`to`, `aim`, `writes`, `issues`) |
| `contested` | auxiliary: the passes that two requests have handled at the same time; it restricts no step |

Each endpoint starts with the action of its name, which reads what the handler reads
without a lock. `MarkItem` is one item of the single or bulk upsert, with the
search for a pass of that absence; `LockTarget` is the wait for the class's row and
the checks a booking makes under it. `CommitSession`, `CommitMarks`,
`CommitDeleteMark`, `CommitPass` and `CommitExpiry` write.

SQLAlchemy's UPDATE names only the attributes whose value changed, so what a
handler read and leaves alone keeps whatever was committed meanwhile: `Column`. That
is how two handlers of one pass can leave a mixture of both, and why `contested`
exists. The sessions of the program have `autoflush` off, so marks corrected
by `bulk_attendance` take no lock before its commit and a batch that names a student
twice looks for the pass twice (`TakesRow`, `NeedsPass`).

What is abstracted:

* who holds a seat is fixed (`Home`); `Seats` is about how that changes. All courses
  have one level, so every class is a candidate for every pass;
* "absent" and "late" are "present" here: only "excused" does more than mark;
* the flush of a session's UPDATE and the commit are one step; the share locks that
  foreign keys take are left out, which allows more interleavings than Postgres does;
* a move finds any free day: the conflicts of teachers and rooms are left out;
* `expire-makeups --on` with a day other than today is left out.

### WebSession

One browser: the pair of tokens in `localStorage` (`store`), the tabs that share it
(`tab`), `withRefreshLock` (`lock`), and the rows of `refresh_sessions` (`pair`). Pairs are
numbered as they are issued. Each tab runs one request at a time through the
interceptors of `lib/api.ts`: asking, a 401, the lock, the second look at the storage
(another tab may have refreshed meanwhile), `POST /auth/refresh`, the answer, the
repetition. On the server, a rotated token that is presented again closes every
session of the user. Any page may be reloaded at any moment, any answer may be lost,
and what a dead page had sent may still arrive (`strays`, `logouts`). `WebLocks` says
whether the browser has the Web Locks API; without it the code runs unlocked, and
`NoFalseTheft` fails as its comment expects.

Abstracted: one request per tab; access tokens expire at any time; the list of
devices and closing one of them.

### ClassMode

The register taken from a phone (`pages/ClassMode.tsx`, `lib/attendanceQueue.ts`): taps
(`pending`, `stored`), the two timers in one variable (`timer`), the batch under way and
what the server did with it (`flight`), a batch the page stopped waiting for that may
yet arrive (`late`), closing and reopening the register, the answer the page has of the
board, and on the server the marks, the closed flag and the matriculas that still
accept marks. A batch may also be refused whatever it holds: a session that ran out, an
account that lost its right (401, 403). Colleagues correct, the office withdraws, the
page is left and opened.

### WebClient: the machines of the client

The client is many small machines that share nothing but the server's rows, so
`WebClient` does not multiply them: a behaviour of it is a behaviour of one of them,
`part` says of which, and the slots `s1`...`s12` hold its variables. Each property reads
"if this is that part, then ...", and the constants of the machines are its own
(`ClientAssumption` is what the theorems need of them). `MCWebClient` gives those of
some size their values and adds the figures, which the `ASSUME`s of the same run
evaluate. What the machines do share is checked too: `FormsUseHooks` says that what the
forms send is a change that some hook makes, with the name the cache knows it by.

| module | the machine |
| --- | --- |
| `Hooks`, `Screens`, `QueryCache` | every hook of `lib/queries` as data (its key, what it shows, what it writes and which keys it invalidates), every screen as the hooks it uses, and the cache of TanStack Query following one question and one change of one screen: sending, committing, answers out of order, refetches that overlap, leaving and coming back, staleness after thirty seconds |
| `GradeCell` | one cell of the grade sheet, saved when it is left, with its optimistic entry of an invented number, its rollback, the upsert, and a colleague who corrects |
| `RosterSheet` | the register on the teacher's page: taps by button and by key, and "everyone present", over a cached list that is put back whole when one is refused |
| `LobbyRoom`, `DeviceTest` | the waiting room against `lobby_access`, and the runs of the camera test with permissions granted late |
| `Wizards` | the three dialogs that make a course, a teacher or a timetable in several requests (account, languages, course, staff, the check of the hours, each class), with what each remembers for the next try |
| `EnrollBatch` | the ticks of the list of students, the wizard that takes them over, the batch and its outcomes |
| `StudentImport` | a file of students: reading, sending, the passwords in the answer, from the two pages that open the dialog |
| `SpeedGrader` | one form that serves a list of deliveries which moves under it |
| `QuickPay`, `Ledger` | the cash desk's dialog with its two effects; the account behind it: movements, the cached status and its refreshes, invoices under the row of the matricula |
| `SignIn` | the sign-in pages used by several people in turn, and the server's choice of account, its counts, locks and links, while accounts and academies are closed |
| `Access` | for every role and permission, what menu, palette, tray and bell link to, what each screen asks and offers, and what the guards of the endpoints take; an administrator changes permissions meanwhile |
| `Forms`, `FormSession` | every form as data (how it begins, what it requires, whether its button is off while it saves, who owns the request), and the life of one of them: opened, filled, sent, closed and opened again while answers travel |

`Ledger` speaks of one matricula with movements of one unit. `doubt` is auxiliary: it is
true from the moment the status may be wrong (the day turned, the fee was patched, two
movements overlapped) until a movement or sweep that nobody overtook has committed.

Of `Wizards`: the checks of all the hours of a submission are one step, since the code
waits for all of them and writes nothing meanwhile. The button of the two wizards is off for
the whole submission; that of `CreateScheduleModal` only while a class is being created
(`create.isPending`, the hook of the call made last), so a second submission may start while
the hours are checked: `try` holds two, and `Waits` says when the button is off. A third at
once is left out.

Of `SignIn`: one password may be that of none, some or all of the accounts of an address
(`accepts`), and each account may be linked to the identity the provider reports, to another,
or to none. `ServePassword` and `ServeProvider` have every answer of the code: locks, the
choice between accounts whose password fits, the 401 of an account that is deactivated or
linked elsewhere, the 403 of an academy suspended, and the lookup by identity that comes
before the one by address. A password refused by the server is tried with the provider
(`TrySupabase`), as `AuthContext.tsx` does. `call.why` is auxiliary: what the server notes in
its log of a refusal and tells nobody.

Figures are functions, not machines: `Figures` (runs of absences, what a drop-down of
statuses offers, who owes, modalities, ends of periods), `DayFigures` (the next class,
the phase of a class, gaps of a timetable, countdowns) and `ListFigures` (tabs, counters,
filters, "select all", copies of the tables of roles and plans). Each is compared by an
`ASSUME` with a reference definition, over all inputs of a bounded size: with the
server's own rule where the client copies one (`StreaksAgree`, `OffersTheTable`,
`DebtsAreSeen`, `PlansAgree`, `OffersManageable`), otherwise with a definition that
says what is meant and not how.

### Proof modules

| module | extends | about |
| --- | --- | --- |
| `SeatsProofs` | `Seats` | types, births, records and shelved courses |
| `LockProofs` | `SeatsProofs` | what the rows of course and academy protect: capacity, quota, timetable |
| `RenewalsProofs` | `Renewals`, `SeatsProofs` | renewals, and that they are ordinary enrolments |
| `OutboxProofs` | `Outbox` | the outbox and its promise |
| `ClassroomProofs` | `Classroom` | sessions, marks, passes and their promise |
| `WebSessionProofs` | `WebSession` | the tabs of a browser and their tokens |
| `ClassModeProofs` | `ClassMode` | the offline register |
| `ClientProofs` | `WebClient` | the machines of the client, one section each |

## 4. The runs

| run | question | instance |
| --- | --- | --- |
| `seats_sequential` | does any sequence of calls, one at a time, break capacity, records or the emptiness of shelved courses? | 2 students, 1 course, 2 matriculas each, every endpoint |
| `seats_quota` | does the academy's lock keep the quota and keep a student out of two rooms? | 2 concurrent requests, 2 clashing courses |
| `seats_fair` | do concurrent requests on one course enrol into a closed course, or wait for ever? (Capacity under concurrency is not checked here: see `stale_patch_overfills`, and section 6.) | 2 requests, deadlocks included, `FairSpec` |
| `outbox` | two processes, a mail and a push, crashes, lost answers, an unsubscription, a weekly sweep | `MaxAttempts = 2`, `Limit = 2` |
| `outbox_drains` | does a message leave the queue even if every attempt dies? | 1 message, 2 processes, `FairSpec` |
| `stale_patch_overfills` | finding: PATCH on a stale read exceeds the capacity | 2 requests |
| `renewals` | do renewals race with each other and with the other endpoints without breaking their rules, and do they only do what an ordinary enrolment could? | 2 concurrent requests, 2 renewal requests, 2 levels |
| `classroom_register` | do taps, corrections, bulk lists, closings, reopenings and moves of a class issue two passes for one absence, or leave a marked class "scheduled"? | 1 student, 2 days of which one is not on the timetable, 2 passes, 2 concurrent requests, batches of 2 |
| `classroom_passes` | do bookings, releases, visits, lists and cancellations overfill a class, expire a place before its class, or bring a used pass back? | 2 passes, 2 classes on 2 days, 1 free place, 2 concurrent requests |
| `web_session` | do tabs that share one token pair ever look like thieves, and does a refused request get its turn? | 2 tabs, 1 user, 2 pairs, 1 change of password, `FairSpec` |
| `class_mode` | does every tap reach the register, in spite of lost answers, timeouts, reloads and other people? | 2 students, 2 taps, 2 changes by others, `FairSpec` |
| `web_client` | do the dialogs, sheets and menus of the client, each against the server's side of it, do what they say? | every machine, small; the bounds stand in `MCWebClient` |

Bounds and why they are enough:

* `Copies` bounds the matriculas a student ever has in one course. Two are
  the smallest number for which a withdrawn and a live one coexist; the unique index
  speaks of pairs of rows, so a third adds no new situation.
* `Requests` bounds the requests in flight. Every lock protects a check against
  one other writer, so two show an overlap: while one handler stands between its read
  and its commit the other slot can run several requests to their end, as the
  stale PATCH needs.
* Capacities and quotas are 1 or 2, so the last seat is always near.
* `MaxAttempts` is 2 or 3 instead of 5, `StaleAfter` a few ticks instead of 24 h:
  retry, exhaustion and expiry all happen, in every order.
* `classroom_register` has one student because marks of different students share
  nothing but the class's row; the second pass is the one that must not be issued. The
  calendar stands still there: no guard of those endpoints but the date of a move
  reads it.
* `classroom_passes` runs over two days (`LastDay`), so that a pass valid for one day
  more (`Validity`) can be booked today, moved to tomorrow, and expire. `Patched`
  leaves out "held", which those endpoints treat like "scheduled". The register stays
  open: closing it only refuses `mark_makeup_visitor`.
* `web_session` bounds the pairs ever issued (`MaxPairs`) and the changes of password
  (`MaxVersion`). Two pairs are one rotation, which is what two tabs can do twice.
* `class_mode`: two taps may be of one student or of two, before and after a batch was
  sent; two changes by others leave room for a correction and a withdrawal.
* `web_client`: `MaxCalls`, `MaxSends`, `MaxImports` and the like are 2 because what goes
  wrong needs two requests whose answers cross, or a try and its repetition;
  `MaxFaults` is 1 so that one answer is lost; `MaxTries` is 3, a submission beside
  another and one after both failed; `MaxSubmits` is 3, with one code of a second factor
  more, so that one person may be offered academies, another come, and a third try follow;
  `MaxOdd` is 1, one account linked when the page opens and one account or academy closed at a time;
  `MaxOpens` is 2, a dialog closed and opened again. Students, days and files are the
  fewest of each kind that differ for the code (busy or free, whole file or one with blank and wrong lines). An assistant
  holds one permission at most (`MCGrants`), which is where menus and guards are
  easiest to tell apart; `OffersAreOpen` is about any sets of them.
* Passes and requests are interchangeable in both runs of the classroom (symmetry), and no liveness
  is checked there.
* `MaxTaken` bounds how often a provider takes one message; 2 is the first value at
  which `NeverTwice` can fail.
* `Limit` bounds the attempts of a batch: 2 lets a batch reach its second message and
  also end by its limit; 1 is enough where there is one message.

Deadlock is not checked: a model at rest (every matricula used up, every message
final, every bound reached) may stop, and waiting requests are the subject of
`RequestsFinish` and `RefusedGetsItsTurn`.

Each property has a mutant (`PROJECT.json`): a plausible slip in one definition,
such as a SELECT without FOR UPDATE, an off-by-one in the quota or an expiry that
skips locked rows, with which TLC finds the property violated.

### Fairness

`Renewals`, `Classroom` and the machines of `WebClient` are checked for safety only and
assume no fairness.

`Seats!FairSpec`: Postgres keeps a queue of waiters per row lock and grants it in
order, so a request whose lock keeps becoming free gets it (strong fairness of
`TakeLock` and `Finish`), and the deadlock detector acts on a deadlock that lasts
(weak fairness of `AbortDeadlock`). No client is obliged to send a request.

`Outbox!FairSpec`: time passes; each turn of the loop begins with a batch, and the
loop catches exceptions (`background.py:67-89`), so every process begins batches
for ever (strong fairness of `dispatch_pending`) and its first statement is not
interrupted for ever (strong fairness of `ExpireStale`). A job that is not
interrupted goes on (weak fairness of `GoOn`). Nothing limits how often the rest of a
batch, or a sweep, dies: `QueueDrains` holds although every attempt may be lost,
because expiry is the first thing a batch does.

`WebSession!FairSpec`: the browser hands its lock out in the order it was asked for
(strong fairness of what a page does first inside the lock), requests that arrive are
served, and answers arrive or are lost (weak fairness). Nobody is obliged to ask, sign
in or stay on the page.

`ClassMode!FairSpec`: the page is opened again, timers fire, and an attempt that is
repeated for ever is answered some time (strong fairness of `ServeBatch`, `Confirmed`
and `Rejected`). Without the last, a phone that is never online keeps its taps for ever.

## 5. Where the code and what is said of it disagree

Of the properties said here to be refuted, `stale_patch_overfills` keeps one as a run. The
others are stated in their modules. `OnboardingIsWhole`, `RefusalMeansInvalid` and
`AsksWhichAcademy` are in `WebClient` too: given to TLC as the INVARIANT of the instance of
`web_client`, each is refuted within a minute.

### With a run

`stale_patch_overfills`: `update_enrollment` decides on an unlocked read whether a PATCH
takes a seat (`routers/enrollments.py:339`). With the matricula read as enrolled,
another PATCH pauses it, its seat is sold, and the first PATCH writes "active" without
asking: two students in one seat, against `routers/enrollments.py:150`.

### On the server, known from the models

* The reactivation branch (`routers/enrollments.py:348`) re-checks capacity and
  timetable but not the course's status: a paused student comes back to a course
  that has been sent to draft. `NoSeatOnTheShelf` in `Seats` states the opposite, and
  TLC refutes it with one request.
* `delete_enrollment` counts the record and deletes later
  (`routers/enrollments.py:411`): a grade committed in between is erased. TLC finds it
  with two requests; `seats_sequential` checks `RecordsKept` with one, and
  `RecordsKeptApart` proves that this is the only way. `delete_course` counts likewise.
* `change_course_status` counts the seats without a lock (`services/courses.py:108`), so
  a course may go to the shelf with somebody who sat down meanwhile, and `update_course`
  lowers a capacity below seats taken between its count and its commit.
  `ShelvedEmptyApart` and `CapacityKeptApart` prove that there is no other way, beside
  the stale PATCH.
* `approve_request` reads the course before `open_enrollment` locks it
  (`routers/renewals.py:358`), and the locked SELECT does not refresh it: the "one door
  into a course" enrols in a course that became a draft while the approval was
  waiting. TLC finds it with two requests and `change_course_status` in play.
* `bulk_enroll` and `create_enrollment` lock academy and course in opposite orders
  (`routers/enrollments.py:463`, `:496`), so Postgres may roll back a whole batch;
  `seats_fair` contains such deadlocks and shows that everyone still ends.
* A rejection that was judged before an approval is committed can overwrite it
  (`routers/renewals.py:402`): the student holds the matricula and reads a refusal.
* A pass handled by two requests at once may be left booked after it was used
  (`routers/makeups.py:401`, `:488` against `routers/sessions.py:709`), and may then
  overfill a class, with the status of one request and the class of the other:
  `NotOverbooked` and `KeepsPassPromise` hold for all the others, and say so.
* `mark_held` may undo a cancellation committed after it read the class
  (`services/sessions.py:166`), and a bulk list can issue two passes for one absence
  (`routers/attendance.py:337`).
* `PATCH /enrollments/{id}` may set the fee, or the payment status itself, and derives
  nothing, though `services/finance.py:3-5` calls itself "the only place allowed to
  compute it". Two overlapping movements each derive from what they see and write only
  what differs from what they loaded, so the status may stay wrong until the next
  movement or sweep that nobody overtakes: `doubt` in `Ledger` is exactly that time.

### In the client

* The dialog that moves a student to another course
  (`features/admin/EnrollmentsPanel.tsx:533-541`) sends `course_id` to
  `PATCH /enrollments/{id}`, whose schema has no such field
  (`schemas/enrollment.py:23-28`). The answer is a success, the toast says the student
  was moved, and nothing has changed, against the dialog's own description
  (`:548`, "Se reasigna la inscripcion ... a otro curso"). No property covers it: nothing
  interleaves, the two sides merely call the fields differently.
* The import of students opened from the first steps of an academy is closed by its
  own success (`features/admin/FirstSteps.tsx:232-236`), so the generated passwords are
  never shown, against `StudentBulkImportModal.tsx:296-297`; `PasswordsInHand` therefore
  speaks of the list of students only. An answer that is lost takes the passwords with
  it from either page. Two files chosen in quick succession are read side by side
  and the one read last is shown under the name of the other; "Fila n" does not count
  blank lines; and a quoted delimiter is split, though the comment says "respecting
  quotes".
* A payment at the cash desk leaves the start page's arrears as they were until that
  page is entered again after thirty seconds: `useCreatePayment` does not invalidate `["dashboard"]`, against
  `lib/queries/dashboard.ts:9-11`. `PaymentSeen` in `QueryCache` states it; `Overlooked`
  lists it with seven more changes that their own screen does not show.
* `QuickPayModal` opened with a matricula puts that one back whenever another is
  clicked (`:74-83`), and "Cambiar alumno" brings the first student back. The amount
  filled in from one matricula's balance stays when another is chosen. The receipt's
  balances are zero if the ledger has not been read when the payment is answered
  (`:155-160`). The payment itself goes where the screen says: `PaidAsChosen`.
* The menus agree with each other, except for what `Misleading` names: the bell links
  to sections the account may not open, the palette offers a superadmin sections of an
  academy, and the tray sends an assistant to "courses"
  (`services/dashboard.py:328-345`) though an item "is never a dead end" (`:69`). What
  screens show an assistant and the server then refuses is listed in `Overoffered`.
* The academy remembered for one person is sent with the address of another
  (`pages/Login.tsx:106-108`): a right password is refused, worded as a wrong one, and counts as a
  failed attempt, though `auth/authErrors.ts:20` says "un 401 es una credencial que no vale".
  "Otro correo puede ser de otra academia" (`:429`) asks again only if academies had been
  offered. `RefusalMeansInvalid` in `SignIn` states what the comment says and TLC refutes it.
  An account that is deactivated, or linked to another identity, gets the same 401, on
  purpose. `RefusedForTheAcademy` names these and every other case in which a good
  credential is turned away.
* `supabase_login` looks for the linked identity before it looks at the address, or at the
  academy that was sent (`routers/auth.py:693`): whoever has accounts in two academies and one of
  them linked is let into that one and never asked, against `pages/AuthCallback.tsx:18`, "Si
  el correo está en varias academias, pregunta en cuál entrar", and `DEPLOYMENT.md:428`.
  `AsksWhichAcademy` states it and TLC refutes it.
* The wizard that registers a teacher stores the languages in a request of their own, after
  the account (`RegisterTeacherWizard.tsx:181-186`). If that one is refused or lost the next try goes past
  both (`:138-139`) and announces "registrado y asignado" (`:249`): the teacher has no
  languages, which the server reads as "may teach any" (`services/scheduling.py:54-56`). Against
  `UsersPanel.tsx:351`, "onboarding — account, qualifications, course and timetable".
  `OnboardingIsWhole` in `Wizards` states it and TLC refutes it; `SaysDoneWhenDone` excepts
  the languages of a try that stopped at them, and nothing else.
* A wizard that fails at a class leaves its course behind and makes another at the next try
  (`OneCourse`), and hours chosen with a warning on screen are forced without theirs having been read
  (`ForcedWhatWasWarned`). Neither holds.
* After the second factor the user lands on the start page: `MFAVerify.tsx:30` reads
  `from.pathname`, and `Login.tsx:158` passes a string.
* `RegisterAcademy.tsx:153-157` proposes an address from the first letter typed of the
  name only, for then the field is no longer empty.
* The wizard that enrols in bulk offers to override a clash
  (`EnrollWizard.tsx:158-163`), but the report of the batch covers it and closing the
  report closes the wizard (`:171-188`): `NeverForced` holds because the button is out of
  reach.
* 31 forms are closed, or cleared, by the answer to a request of an earlier opening, for another
  record, because the code awaits the answer or the panel that stays owns the request
  (`features/admin/UsersPanel.tsx:377`, for one): those of `ActOnAnother` in `FormSession`, by
  name. In the panels of the administration: `EditUser`, `DeleteUser`, `DeactivateStudent`, `TenantStatus`,
  `RejectPlan`, `QuickCourse`, `DeleteCourse`, `DeleteEnrollment`, `StudentPayment`,
  `CourseMove`, `RejectProposal`, `RejectRenewal`, `AddLanguage`, `AddLevel`,
  `DeleteLanguage`, `DeleteLevel`, `AddRoom`, `DeleteRoom`, `AddHoliday`, `DeleteHoliday`,
  `Rate`; elsewhere: `ChangePassword`, `AddOwnLanguage`, `ScheduleEdit`, `DeleteSchedule`,
  `NewAssignment`, `Delivery`, `RescheduleClass`, `CancelClass`, `CloseRegister`, `AwardXP`.
  `OwnAnswer` is checked and proved over the whole table and excepts only these: a form that
  began to await its answer, or moved its request to its panel, would break it.
* The waiting room asks for its link when it opens and when the network comes back,
  never in between: who waits from before the window has to reload.
* `TeacherSpeedGrader.tsx:94-104`: Ctrl+Enter saves though the buttons are off while
  a grade is being saved. The score still goes to whom it was typed for:
  `EnteredForThem`.
* "Todos presentes" before the register has been read sends "present" for everybody
  (`TeacherDashboard.tsx:987-988`), marks of others included; `RosterSheet` contains it.
* The list of students calls nobody delinquent who owes on paused matriculas only,
  while the server does: `DebtsAreSeen`.

## 6. The proofs

All theorems hold for any numbers of students, courses, requests, messages, processes,
tabs, token pairs, calls and faults. They rest on the assumptions on the constants that
the modules name (`SeatsAssumption`, `RenewalsAssumption`, `OutboxAssumption`,
`ClassroomAssumption`, `SessionAssumption`, `RegisterAssumption`, `ClientAssumption`)
and on the hypotheses named below. Every safety property and every action property of
every passing run is stated by a theorem.

### Seats, courses and plans

| theorem | module | argument |
| --- | --- | --- |
| `TypeCorrect` | `SeatsProofs` | `TypeOK` is inductive, one step per action |
| `BornInOpenCourses` | `SeatsProofs` | `BirthInv`: between its check and its commit an enrolment holds the course's lock (`SeatLocked`), and every write of a course's status needs that lock; PATCH and DELETE only touch rows that exist (`WritesExisting`) |
| `RecordsKeptApart`, `RecordsKeptAlone` | `SeatsProofs` | `RecordsInv`: what a deletion is about to take has no grade (`DeletesNoRecord`), and what was ever graded is still there |
| `ShelvedEmptyApart`, `ShelvedEmptyAlone` | `SeatsProofs` | `ShelvesEmpty`: whoever is about to shelve a course has found no seat held, and none is held yet |
| `CapacityKeptApart`, `CapacityKeptAlone` | `LockProofs` | `CapacityInv`: what a request is about to seat is counted with what is seated (`SeatReserved`) under the lock that every other seat-taker needs; a PATCH that took no lock writes a row that has its seat (`PatchTied`), and a new capacity holds the seats there are (`EditFits`) |
| `CapacityNeverExceeded` | `LockProofs` | from `CapacityKeptApart`: where every matricula is born active there is no row that a PATCH could be waved through to seat again (`PlainBy`) |
| `QuotaNeverExceeded` | `LockProofs` | `QuotaInv`: the students a request has been promised a place for (`Claimed`) fit the plan together with those who sit (`PromisedBy`), and whoever was promised one holds the academy's row |
| `NobodyInTwoRooms` | `LockProofs` | `ClearInv`: from the check of the timetable to the commit the rows to be written clash with nothing that is seated (`ClearBy`); whoever could seat something else needs the academy's row too |

The code judges three things on a count, or a status, that it reads without a lock. The
theorems whose names end in "Apart" say exactly how far its word is good: for all endpoints at
once, and except for the races that their second hypothesis excludes.

* `GradesApart`: no grade is written on what is about to be deleted, between the count
  and the commit.
* `SeatsApart`: nobody comes to sit in a course that is about to be shelved.
* `CapacityApart`: nobody takes the seat from under a PATCH that was let through because
  its matricula held one, and nobody comes to sit in a course whose capacity is about to
  change.

Each race can happen (section 5; TLC finds all four with two requests, and
`stale_patch_overfills` keeps one), so the hypotheses cannot be dropped; and each is a
condition on one pair of requests, so what is proved is that there are no others. Those
that end in "Alone" discharge them where requests come one at a time, which is what
`seats_sequential` checks.

`CapacityNeverExceeded` has two hypotheses instead, on what the academy does: no request
edits capacities, and no form asks for "enrolled" as the opening state, so that a
matricula seen as occupying its seat can only leave it for good.

`QuotaNeverExceeded` has three (`QuotaSetting`): the second of those, no superadmin's
requests (`Unscoped`), and no change of the plan, which counts the students without the
lock (`services/tenant_plans.py:53`). `NobodyInTwoRooms` adds `ClashSetting`: no form
insists on a clash, and a course does not clash with itself. That the academy's row,
which the code takes for the quota, is what keeps a student out of two rooms is the
proof's discovery: the course's row would not be enough, and a superadmin takes none.

`BornInOpenCourses` needs no such hypothesis: neither the stale PATCH nor any
catalogue endpoint can insert a row.

### Renewals, outbox, classroom

| theorem | module | argument |
| --- | --- | --- |
| `RenewalsTypeCorrect` | `RenewalsProofs` | with `ReviewTied`: a decision is about a request that was made |
| `OnePendingRequest` | `RenewalsProofs` | only `CommitRequest` makes a pending row, under the index; the cascades take rows away |
| `ApprovalsAreSeated` | `RenewalsProofs` | `ApprovalTied`: an approval at the door carries the student and the course of its request, and what it inserts is theirs; a row once born is never unborn |
| `RenewalsUseTheDoor` | `RenewalsProofs` | step simulation by the identity: with `CourseSeen`, the course an approval has read is the course as it is, so its steps are those of `create_enrollment` |
| `TypeCorrect` | `OutboxProofs` | needs `TriesLeft`: a message in the queue has an attempt left |
| `NeverSentTwice` | `OutboxProofs` | `TakenOnce`: a message taken once without an excuse is "sent" or its sender, which holds its row, is about to write so |
| `StaleIsNotSent` | `OutboxProofs` | `StaleLeftQueue`: a batch past its expiry has nothing it found stale in the queue, and nothing comes back to the queue |
| `OneSweepAWeek` | `OutboxProofs` | `OneSweeper`: whoever sweeps has inserted a row that was not there |
| `OutboxKeepsPromise` | `OutboxProofs` | step simulation, with `inFlight` the set of locked rows; `HeldRows` and `AttemptsHold` tie locks to attempts |
| `ClassroomTypeCorrect` | `ClassroomProofs` | with `TxTied`: what a request carries fits the row it will write |
| `ExpiresAfterClass` | `ClassroomProofs` | `PassInv`: a number is drawn by one request (`IssuesFresh`), handlers read passes that exist (`ReadsIssued`), and no row or request aims at a class later than the pass's last day, while whoever expires a pass saw that day go by (`Dated`, `Timely`) |
| `OnePassPerAbsence` | `ClassroomProofs` | `CreditInv`: a single mark that draws a pass holds the row of the mark, and no such pass exists yet (`Holds`); locks are not taken from their holders (`LocksKept`) |
| `RegisterTellsTheClass` | `ClassroomProofs` | `RegisterInv`: a class that a request saw held or called off still is (`Told`, `OverStays`), so the column it leaves alone is right |
| `ClassroomKeepsPassPromise` | `ClassroomProofs` | step simulation, with a pass contended from when a second request takes it: whoever handles a pass alone finds it at its commit as it read it (`SoleInv`, `Knows`), so the blind write of a column is the step that was decided |
| `NeverOverbooked` | `ClassroomProofs` | `RoomInv`: a booking that has found room holds the row of the class to its commit (`HoldsTarget`), so at most one is reserved, and it was counted with what is booked (`RoomFor`) |

`RenewalsUseTheDoor` has one hypothesis: no endpoint in play changes a course
(`CatalogueClosed`). It is again exactly the gap of the code, the stale course of
section 5. Under it everything proved or checked of the ordinary endpoints holds with
renewals too.

`RegisterTellsTheClass` assumes that PATCH of a session is not used
(`"update_session" \notin Endpoints`): it may set any status, "scheduled" included.

`ClassroomKeepsPassPromise` and `NeverOverbooked` have none, but speak of the passes
outside `contested` only, as the properties do.

### The browser

| theorem | module | argument |
| --- | --- | --- |
| `SessionTypeCorrect` | `WebSessionProofs` | a conjunct of `IInv` |
| `TabsAreNoThieves` | `WebSessionProofs` | `IInv`: one page at most is inside the lock (`OneInside`), what it presents is the stored token until the answer is stored (`Locked`, `StoredIsFresh`), the pair of an answer is known to that page only (`Private`), and what a dead page has sent is remembered as lost (`StraysAreLost`) |
| `StoredTokenIsFresh` | `WebSessionProofs` | from the same invariant |
| `ClassModeTypeCorrect` | `ClassModeProofs` | a conjunct of `PhoneInv` |
| `NoTapIsLost` | `ClassModeProofs` | `PhoneInv`: memory and phone hold the same queue (`SameQueue`), a batch on its way is still in it (`StillQueued`), and a tap that stands is in the phone or has left it because the server has it (`TapsHeld`) |
| `NoTapIsStuck` | `ClassModeProofs` | the same, with `RetryWaits`: while the network fails a retry is set |
| `OwnChangesAreShown`, `NamedAnswersAreFresh` | `ClientProofs` | `CacheInv`: a cached answer that is neither invalid nor missed knows all that the page was told of (`FreshOrInvalid`), and so does one that is being read (`ReadsInTime`), if the change names a key the question begins with. That the other pairs on one screen are those of `Overlooked` is read off the tables of hooks and screens (`Unnamed` lists all the pairs) |
| `SheetsShowTheServer` | `ClientProofs` | `CellInv`, `SheetInv`: the reading that follows the last answer reads what the server has (`ListOfTheServer`, `ReadsTheMarks`), and what is shown is what was read (`CellOfTheList`, `ShownIsRead`) |
| `TypedStays` | `ClientProofs` | while somebody is in the cell, only typing writes it |
| `AnswersTheirOwnOpening` | `ClientProofs` | `ReachingForms`: read off the table, a form that awaits its answer or whose panel owns the request, and that its answer closes or clears, is one of `ActOnAnother`; any other is left as it is by an answer (`FormStays`), or hears those of this opening only (`FormAnswersOwn`) |
| `OneOpeningSavesOnce` | `ClientProofs` | `SessionInv`: one request under way at a time (`OneAtATime`), of the draft that is open (`DraftOfItsOpening`), and a draft that was carried out is answered, left behind or gone (`CarriedOutIsOver`); that a form that begins blank and goes away when saved is built so is read off the table of forms |
| `DialogsKeepTheirWord` | `ClientProofs` | `WizardInv`, `BatchInv`, `ImportInv`: each of the two tries ends with its classes (`ClassesLast`), and each of its hours has its class or is still to be asked for (`NoneForgotten`), whichever try made it; only the dialog of the classes has two (`Apart`); languages that were to be stored are, or a try stopped at them, or they are asked for next (`LanguagesFollow`); only a check warns, and the account fails only if something was lost (`StagesTell`); a form of the list never insists; the rows shown are those of the file that was read |
| `GradesAndPaymentsForThem` | `ClientProofs` | `GraderInv`: the form has been filled for whoever is under it; `DeskInv`: the matricula shown was clicked, given, or the only one (`ChosenInDialog`) |
| `LinkAndCameraInTheirTime` | `ClientProofs` | `LobbyInv`: what a student's page was told was true when it asked and hours only go on; `DeviceInv`: what is on is what the page holds, of its last run |
| `OnlyAnothersAcademyRefuses` | `ClientProofs` | `DoorInv`: an academy that is sent finds somebody, unless it is one remembered or one offered for another address (`CallInv`, from what the page may send, `PageInv`); so where nobody is found, or the password fits none of those found, the academy is to blame, and the other refusals note why (`PasswordKeepsCall`, `ProviderKeepsCall`) |
| `OffersAreOpen` | `ClientProofs` | `AccessInv`: until a revision the page goes by the account as it is (`UpToDate`), and then the tables of `lib/nav.ts` and of `core/deps.py` agree, role by role and screen by screen, but for `Misleading` and `Overoffered` |
| `InvoicesAndStatusAddUp` | `ClientProofs` | `LedgerInv`: under the row of the matricula what is about to be invoiced is paid and not invoiced (`PendingIsPaid`), and what nobody overtook is as it was read and derived (`AloneIsFresh`) |

The theorems about `WebSession` assume `WebLocks`, a browser that has the Web Locks API.
Those of `ClientProofs` are about `WebClient!Spec`: the lemma `PartSteps` says that a step is
one of its part's, and the theorem takes the invariants of the parts it needs. What their
properties except (an answer that was lost, a mark that timed out and arrived late, the
pairs of `Overlooked`, the forms of `ActOnAnother`) is excepted by the code, and named in
section 5 or beside the property.

### Only model-checked

The liveness properties `RequestsFinish`, `QueueDrains`, `RefusedGetsItsTurn` and
`TapsSettle`: liveness under fairness and ENABLED are beyond the prover. The comparisons
of the figures over bounded inputs, because induction over data is beyond it too, and
`FormsUseHooks` and `EveryPermission`, which compare tables. The modules declare no
RECURSIVE operator.

## 7. Not modelled

* Ludi courses, the audit trail, start-up and commands: static content, rows appended in
  the transaction of the change, wiring.
* Of the server: the CRUD of single rows (languages, levels, templates, rooms,
  locations, holidays, meetings, people), payroll, the numbers and PDF of invoices, the
  queries of reports and dashboards, recovery codes and passkeys, the list of
  devices, and the conflict queries of teachers and rooms. Nothing interleaves there
  beyond what one transaction shows.
* The filter by academy and row level security are taken as given: they are
  conditions on every query, not steps.
* Of the client: layout, charts, printing, the landing page, the tour, the drag and drop of
  the planner, and the games of Ludi.
* Provider calls (mail, push, meetings) are an outcome chosen freely.
* The connection pool and its timeouts: a request either has a connection or has not
  begun.
