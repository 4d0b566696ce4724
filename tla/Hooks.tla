------------------------------- MODULE Hooks --------------------------------
(***************************************************************************)
(* What the hooks of lib/queries ask for and change: one definition per    *)
(* file.  A question is cached under a key and shows some of the academy's *)
(* data; a change writes some and, when its answer arrives, invalidates    *)
(* the keys that begin with the ones it names.  "it" stands for the record *)
(* the page is about, which is the one the change is about too.            *)
(***************************************************************************)
EXTENDS Sequences

Question(hook, key, shows) == [hook |-> hook, key |-> key, shows |-> shows]

(* onSuccess: only when the server says yes. *)
Change(hook, writes, refreshes) ==
    [hook |-> hook, writes |-> writes, refreshes |-> refreshes, settled |-> FALSE]

(* onSettled: also when it fails or nothing comes back. *)
Attempt(hook, writes, refreshes) ==
    [hook |-> hook, writes |-> writes, refreshes |-> refreshes, settled |-> TRUE]

(* useList with its hooks to create, change and delete, all of which       *)
(* refresh the list and nothing else.                                      *)
Own(hooks, key) == {Change(h, {key}, {<<key>>}) : h \in hooks}

-----------------------------------------------------------------------------
Nationalities == Question("useNationalities", <<"nationalities">>, {"nationalities"})
NationalityChanges ==
    Own({"useCreateNationality", "useUpdateNationality", "useDeleteNationality"},
        "nationalities")

Languages == Question("useLanguages", <<"languages">>, {"languages"})
LanguageChanges ==
    Own({"useCreateLanguage", "useUpdateLanguage", "useDeleteLanguage"}, "languages")

Levels == Question("useLevels", <<"levels">>, {"levels"})
LevelChanges == Own({"useCreateLevel", "useUpdateLevel", "useDeleteLevel"}, "levels")

CourseQuestions ==
    {Question("useCourses", <<"courses">>, {"courses", "seats"}),
     Question("useCourseTeachers", <<"course-teachers", "it">>, {"course-teachers"}),
     Question("useCourseStudents", <<"course-students", "it">>, {"seats"})}

CourseChanges ==
    Own({"useCreateCourse", "useUpdateCourse", "useDeleteCourse"}, "courses")

CourseStaffChanges ==
    {Change(h, {"course-teachers"}, {<<"course-teachers", "it">>}) :
        h \in {"useAssignCourseTeacher", "useUnassignCourseTeacher"}}

CourseStatusChange == Change("useChangeCourseStatus", {"courses"}, {<<"courses">>, <<"dashboard">>})

DeleteImpacts ==
    {Question("useLanguageDeleteImpact", <<"language-delete-impact", "it">>, {"levels", "courses"}),
     Question("useLevelDeleteImpact", <<"level-delete-impact", "it">>, {"courses"}),
     Question("useCourseDeleteImpact", <<"course-delete-impact", "it">>, {"seats"})}

-----------------------------------------------------------------------------
EnrollmentQuestions ==
    {Question("useEnrollments", <<"enrollments", "all">>, {"seats", "balance"}),
     Question("useEnrollments", <<"enrollments", "it">>, {"seats", "balance"})}

EnrollmentChanges ==
    {Change(h, {"seats"}, {<<"enrollments">>}) :
        h \in {"useCreateEnrollment", "useUpdateEnrollment", "useDeleteEnrollment"}}
    \cup {Change("useBulkEnroll", {"seats"},
                 {<<"enrollments">>, <<"courses">>, <<"dashboard">>})}

PaymentQuestions ==
    {Question("useEnrollmentLedger", <<"ledger", "it">>, {"balance"}),
     Question("useEnrollmentInvoices", <<"invoices", "it">>, {"invoices"})}

PaymentChanges ==
    {Change("useCreatePayment", {"balance"}, {<<"ledger", "it">>, <<"enrollments">>}),
     Change("useIssueInvoice", {"invoices"}, {<<"invoices", "it">>})}

RenewalQuestions ==
    {Question("useRenewalOptions", <<"renewals", "options">>, {"renewals"}),
     Question("usePendingRenewals", <<"renewals", "pending">>, {"renewals"})}

RenewalChanges ==
    {Change(h, {"renewals"}, {<<"renewals">>}) : h \in {"useRequestRenewal", "useWithdrawRenewal"}}
    \cup {Change("useReviewRenewal", {"renewals", "seats"},
                 {<<"renewals">>, <<"enrollments">>, <<"courses">>, <<"dashboard">>})}

-----------------------------------------------------------------------------
AttendanceQuestions ==
    {Question("useAttendance", <<"attendance", "it">>, {"marks"}),
     Question("useVisibleAttendance", <<"attendance", "visible">>, {"marks"})}

AttendanceChanges ==
    {Attempt(h, {"marks", "register"},
             {<<"attendance", "visible">>, <<"attendance">>, <<"report">>, <<"dashboard">>,
              <<"sessions">>, <<"agenda">>, <<"class-board">>}) :
        h \in {"useCreateAttendance", "useBulkAttendance"}}

GradeQuestions ==
    {Question("useGrades", <<"grades", "it">>, {"scores"}),
     Question("useGrades", <<"grades", "all">>, {"scores"}),
     Question("useFinalGrade", <<"final-grade", "it">>, {"scores", "weights"}),
     Question("useCourseEvaluations", <<"course-evaluations", "it">>, {"weights"})}

(* invalidateDerivedFromGrades *)
DerivedFromGrades == {<<"final-grade">>, <<"report">>, <<"dashboard">>}

GradeChanges ==
    {Attempt("useCreateGrade", {"scores"},
             {<<"grades", "it">>, <<"grades", "all">>} \cup DerivedFromGrades),
     Attempt("useUpdateGrade", {"scores"}, {<<"grades">>} \cup DerivedFromGrades)}

WeightChanges ==
    {Change(h, {"weights"}, {<<"course-evaluations", "it">>}) :
        h \in {"useAddEvaluation", "useDeleteEvaluation"}}

SessionQuestions ==
    {Question("useSessions", <<"sessions", "it">>, {"classes", "register"}),
     Question("useMySessions", <<"sessions", "mine">>, {"classes"}),
     Question("useSession", <<"session", "it">>, {"topic"}),
     Question("useAgenda", <<"agenda", "from", "to">>, {"classes", "register", "visitors"}),
     Question("useClassBoard", <<"class-board", "it">>, {"classes", "register", "marks", "visitors"}),
     Question("useMakeupVisitors", <<"session-makeup-visitors", "it">>, {"visitors"})}

(* A slip: the key that no query reads, as it once was. *)
SessionViewsAll ==
    {<<"sessions", "all">>, <<"agenda">>, <<"class-board">>, <<"report">>, <<"dashboard">>,
     <<"notifications">>}

(* invalidateSessionViews *)
SessionViews ==
    {<<"sessions">>, <<"agenda">>, <<"class-board">>, <<"report">>, <<"dashboard">>,
     <<"notifications">>}

SessionViewChanges ==
    {Change(h, {"classes", "notices"}, SessionViews) :
        h \in {"useCancelSession", "useRescheduleSession"}}
    \cup {Change(h, {"register"}, SessionViews) :
            h \in {"useCloseRegister", "useReopenRegister"}}

SessionChanges ==
    {Change(h, {"classes"}, {<<"sessions", "it">>}) :
        h \in {"useGenerateSessions", "useEnsureSession"}}
    \cup {Change("useUpdateSession", {"topic"}, {<<"session", "it">>, <<"sessions", "mine">>})}

VisitorChange ==
    Change("useMarkMakeupVisitor", {"visitors", "passes"},
           {<<"session-makeup-visitors", "it">>, <<"class-board", "it">>, <<"agenda">>,
            <<"makeups">>})

-----------------------------------------------------------------------------
MakeupQuestions ==
    {Question("useMakeUpCredits", <<"makeups", "filters">>, {"passes"}),
     Question("useCandidateSessions", <<"makeups", "it", "candidates">>, {"passes", "classes"})}

MakeupChanges ==
    {Change(h, {"passes", "visitors"}, {<<"makeups">>, <<"sessions">>, <<"meetings">>}) :
        h \in {"useBookMakeUp", "useCancelMakeUpBooking"}}
    \cup {Change("useCreateMakeUpCredit", {"passes"}, {<<"makeups">>})}

ScheduleQuestions ==
    {Question("useSchedules", <<"schedules", "all">>, {"schedules", "location"}),
     Question("useSchedules", <<"schedules", "mine">>, {"schedules", "location"}),
     Question("usePublicTeachers", <<"public-teachers">>, {"users"})}

ScheduleChanges ==
    Own({"useCreateSchedule", "useUpdateSchedule", "useDeleteSchedule"}, "schedules")

LocationQuestions ==
    {Question("useLocationProposals", <<"location-proposals", "it">>, {"location"})}

LocationChanges ==
    {Change(h, {"location"}, {<<"location-proposals">>, <<"schedules">>}) :
        h \in {"useProposeLocation", "useReviewProposal"}}

RoomQuestions == {Question("useRooms", <<"rooms">>, {"rooms"})}
RoomChanges == Own({"useCreateRoom", "useUpdateRoom", "useDeleteRoom"}, "rooms")

HolidayQuestions == {Question("useHolidays", <<"holidays">>, {"holidays"})}
HolidayChanges == Own({"useCreateHoliday", "useDeleteHoliday"}, "holidays")

MeetingQuestions ==
    {Question("useMeetings", <<"meetings">>, {"meetings"}),
     Question("useMeeting", <<"meeting", "it">>, {"meetings"}),
     Question("useLobbyJoinInfo", <<"lobby-info", "it">>, {"meetings"})}

-----------------------------------------------------------------------------
UserQuestions ==
    {Question("useUsers", <<"users", "all">>, {"users"}),
     Question("useUsers", <<"users", "role">>, {"users"}),
     Question("useStudentKardex", <<"student-kardex", "it">>, {"scores", "marks"})}

UserChanges ==
    Own({"useCreateUser", "useUpdateUser", "useDeleteUser", "useUpdateMe"}, "users")

TeacherQuestions ==
    {Question("useTeacherLanguages", <<"teacher-languages", "it">>, {"teacher-languages"}),
     Question("useTeacherAvailability", <<"teacher-availability", "it">>, {"availability"}),
     Question("useTeacherLoad", <<"teacher-load", "it">>, {"availability", "teaching"}),
     Question("useTeacherAssignments", <<"teacher-assignments", "it">>, {"teaching"})}

TeacherChanges ==
    {Change("useSetTeacherLanguages", {"teacher-languages"}, {<<"teacher-languages", "it">>})}
    \cup {Change(h, {"availability"}, {<<"teacher-availability", "it">>, <<"teacher-load", "it">>}) :
            h \in {"useAddAvailability", "useDeleteAvailability", "usePatchAvailability"}}
    \cup {Change("useReassignTeacher", {"teaching", "schedules", "course-teachers"},
                 {<<"teacher-assignments">>, <<"teacher-load">>, <<"schedules">>,
                  <<"course-teachers">>, <<"courses">>, <<"dashboard">>})}

PayrollQuestions ==
    {Question("useTeacherPayroll", <<"teachers", "it", "payroll", "dates">>, {"rates"}),
     Question("useAcademyPayrollSummary", <<"teachers", "payroll", "summary", "dates">>, {"rates"})}

PayrollChange ==
    Change("useUpdateTeacherRate", {"rates", "users"},
           {<<"teachers", "it", "payroll">>, <<"teachers", "payroll", "summary">>,
            <<"teachers">>, <<"users">>})

NotificationQuestions ==
    {Question("useNotifications", <<"notifications">>, {"notices"}),
     Question("useUnreadCount", <<"notifications", "unread-count">>, {"notices"})}

NotificationChanges ==
    {Change(h, {"notices"}, {<<"notifications">>}) :
        h \in {"useMarkNotificationRead", "useMarkAllRead"}}
    \cup {Change("useRaiseAtRiskAlerts", {"notices", "trail"}, {<<"notifications">>, <<"audit">>})}

AuditQuestions == {Question("useAudit", <<"audit", "entity", "it", "page">>, {"trail"})}

-----------------------------------------------------------------------------
TenantQuestions ==
    {Question("useTenants", <<"tenants">>, {"tenants", "ludi", "plan"}),
     Question("useTenantAdmins", <<"tenants", "it", "admins">>, {"admins"})}

TenantChanges ==
    {Change(h, {"tenants"}, {<<"tenants">>}) : h \in {"useCreateTenant", "useUpdateTenant"}}
    \cup {Change("useCreateTenantAdmin", {"admins"}, {<<"tenants">>})}
    \cup {Change(h, {"plan"}, {<<"tenants">>}) : h \in {"useActivatePlan", "useRejectPlanRequest"}}

PlanQuestions == {Question("useAcademyPlan", <<"academy", "plan">>, {"plan", "ludi"})}

(* The answer is the new plan, and is put in the cache as it is. *)
PlanChanges ==
    {Change(h, {"plan"}, {<<"academy", "plan">>}) : h \in {"useRequestPlan", "useCancelPlanRequest"}}

LudiQuestions ==
    {Question("useCourseRanking", <<"ludi-ranking", "it">>, {"points"}),
     Question("useLudiStatus", <<"ludi-status">>, {"ludi"})}

LudiChanges ==
    {Change(h, {"ludi"}, {<<"academy-plan">>, <<"tenants">>}) :
        h \in {"useRequestLudiAddon", "useDirectToggleLudiAddon", "useToggleLudiAddon"}}
    \cup {Change("useAwardXP", {"points"}, {<<"ludi-ranking", "it">>})}

AssignmentQuestions ==
    {Question("useAssignments", <<"assignments", "it">>, {"tasks", "handed-in"}),
     Question("useAssignmentSubmissions", <<"assignment-submissions", "it">>, {"handed-in"})}

(* The mutations of the assignment screens live in the screens. *)
AssignmentChanges ==
    {Change("TeacherAssignmentModal", {"tasks"}, {<<"assignments">>, <<"dashboard">>}),
     Change("StudentAssignmentModal", {"handed-in"},
            {<<"assignments">>, <<"assignment-submissions">>, <<"dashboard">>}),
     Change("TeacherSpeedGrader", {"handed-in", "scores"},
            {<<"assignments">>, <<"assignment-submissions">>, <<"grades">>, <<"final-grade">>,
             <<"report">>, <<"dashboard">>})}

(* The figures of the start page, of the director and of the reports.     *)
SummaryQuestions ==
    {Question("useDashboard", <<"dashboard">>,
              {"courses", "seats", "users", "location", "schedules", "renewals", "register",
               "balance", "tasks", "handed-in", "languages", "levels"}),
     Question("useExecutiveKpis", <<"executive-kpis">>, {"courses", "seats", "users"}),
     Question("useReport", <<"report", "period", "anchor">>,
              {"courses", "classes", "register", "marks", "seats", "scores", "users",
               "tasks", "handed-in"})}

-----------------------------------------------------------------------------
Questions ==
    {Nationalities, Languages, Levels} \cup CourseQuestions \cup DeleteImpacts
    \cup EnrollmentQuestions \cup PaymentQuestions \cup RenewalQuestions
    \cup AttendanceQuestions \cup GradeQuestions \cup SessionQuestions
    \cup MakeupQuestions \cup ScheduleQuestions \cup LocationQuestions \cup RoomQuestions
    \cup HolidayQuestions \cup MeetingQuestions \cup UserQuestions \cup TeacherQuestions
    \cup PayrollQuestions \cup NotificationQuestions \cup AuditQuestions
    \cup TenantQuestions \cup PlanQuestions \cup LudiQuestions \cup AssignmentQuestions
    \cup SummaryQuestions

Changes ==
    NationalityChanges \cup LanguageChanges \cup LevelChanges \cup CourseChanges
    \cup CourseStaffChanges \cup {CourseStatusChange} \cup EnrollmentChanges
    \cup PaymentChanges \cup RenewalChanges \cup AttendanceChanges \cup GradeChanges
    \cup WeightChanges \cup SessionViewChanges \cup SessionChanges \cup {VisitorChange}
    \cup MakeupChanges \cup ScheduleChanges \cup LocationChanges \cup RoomChanges
    \cup HolidayChanges \cup UserChanges \cup TeacherChanges \cup {PayrollChange}
    \cup NotificationChanges \cup TenantChanges \cup PlanChanges \cup LudiChanges
    \cup AssignmentChanges
=============================================================================
