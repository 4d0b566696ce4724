------------------------------ MODULE Screens -------------------------------
(***************************************************************************)
(* The screens of the web client, by what they ask the server for and what *)
(* their buttons change: one definition per component that is shown by     *)
(* itself.  QueryCache says what they show after a change, Access who gets *)
(* to see and press what.                                                  *)
(***************************************************************************)
EXTENDS Hooks

(* The screens: the questions and changes of the components shown at once. *)

Screen(asks, does) ==
    [asks |-> {q \in Questions : q.hook \in asks}, does |-> {c \in Changes : c.hook \in does}]

(* The frame around every page: the counts of the bar at its foot, the     *)
(* bell, and the palette, which is always there though seldom open.        *)
Frame == Screen({"useDashboard"}, {})
PaletteOfStaff == Screen({"useUsers", "useCourses", "useEnrollments", "useAssignments"}, {})
PaletteOfTeachers ==
    Screen({"useCourses", "useEnrollments", "useAssignments", "useSchedules"}, {})
PaletteOfStudents == Screen({"useCourses", "useEnrollments", "useAssignments"}, {})
QuickPay == Screen({"useUsers", "useEnrollments", "useCourses", "useEnrollmentLedger",
                    "useDashboard"}, {"useCreatePayment"})
Bell == Screen({"useNotifications", "useUnreadCount"},
               {"useMarkNotificationRead", "useMarkAllRead"})

Start == Screen({"useDashboard"}, {})
Figures == Screen({"useExecutiveKpis"}, {})
WeekPreview == Screen({"useSchedules", "useCourses", "useRooms"}, {})
FinancialSummary == Screen({"useEnrollments", "useAcademyPayrollSummary"}, {})
PlanOfAcademy == Screen({"useAcademyPlan", "useDashboard"},
    {"useRequestPlan", "useCancelPlanRequest", "useDirectToggleLudiAddon", "useRequestLudiAddon"})

CoursesScreen == Screen(
    {"useCourses", "useLanguages", "useLevels", "useSchedules", "useUsers", "useRooms"},
    {"useCreateCourse", "useUpdateCourse", "useDeleteCourse"})
CoursePreview == Screen({"useLevels", "useSchedules", "useUsers", "useAssignments", "useRooms"}, {})
ScheduleDialog == Screen({"useCourses", "useUsers", "useRooms"}, {"useCreateSchedule"})
CourseStatus == Screen({"useCourses", "useDashboard"}, {"useChangeCourseStatus"})
CourseWizard == Screen({"useLevels", "useLanguages", "useUsers", "useRooms", "useSchedules",
                        "useCourses"},
                       {"useCreateCourse", "useCreateSchedule"})
AssignTeacher == Screen({"useCourses", "useUsers", "useSchedules", "useLanguages", "useLevels",
                         "useCourseTeachers", "useTeacherLanguages"},
                        {"useAssignCourseTeacher"})

EnrollmentsScreen == Screen({"useEnrollments", "useCourses", "useUsers"},
                            {"useDeleteEnrollment", "useUpdateEnrollment"})
FinancesDialog == Screen(
    {"useUsers", "useCourses", "useEnrollmentLedger", "useEnrollmentInvoices", "useEnrollments"},
    {"useCreatePayment", "useIssueInvoice"})
Statement == Screen({"useEnrollments", "useCourses", "useEnrollmentLedger"},
                    {"useCreatePayment"})
EnrollDesk == Screen({"useCourses", "useUsers", "usePublicTeachers", "useEnrollments",
                      "useSchedules", "useNationalities", "useDashboard"},
                     {"useBulkEnroll", "useCreateUser"})
RenewalsCard == Screen({"usePendingRenewals", "useDashboard"}, {"useReviewRenewal"})
NextLevel == Screen({"useRenewalOptions"}, {"useRequestRenewal", "useWithdrawRenewal"})

StudentsScreen == Screen({"useUsers", "useEnrollments", "useNationalities"}, {"useUpdateUser"})
StudentDrawer == Screen({"useEnrollments", "useCourses", "useMakeUpCredits",
                         "useEnrollmentLedger"}, {"useCreatePayment"})
TeachersScreen == Screen({"useUsers", "useTeacherAssignments", "useTeacherLanguages",
                          "useLanguages", "useCourses"},
                         {"useUpdateUser", "useReassignTeacher"})
TeacherWizard == Screen({"useUsers", "useCourses", "useLanguages", "useRooms"},
                        {"useCreateUser", "useSetTeacherLanguages", "useCreateSchedule"})
UsersScreen == Screen({"useUsers", "useNationalities", "useLanguages", "useTeacherLanguages"},
                      {"useCreateUser", "useUpdateUser", "useDeleteUser",
                       "useSetTeacherLanguages"})
PayrollScreen == Screen({"useAcademyPayrollSummary", "useTeacherPayroll"},
                        {"useUpdateTeacherRate"})

CatalogScreen == Screen({"useLanguages", "useLevels"},
    {"useCreateLanguage", "useDeleteLanguage", "useCreateLevel", "useDeleteLevel"})
RoomsScreen == Screen({"useRooms"}, {"useCreateRoom", "useUpdateRoom", "useDeleteRoom"})
HolidaysScreen == Screen({"useHolidays"}, {"useCreateHoliday", "useDeleteHoliday"})
Planner == Screen({"useSchedules", "useCourses", "useUsers", "useRooms", "useEnrollments"},
                  {"useCreateSchedule", "useUpdateSchedule", "useDeleteSchedule"})
Proposals == Screen({"useLocationProposals", "useRooms", "useUsers"}, {"useReviewProposal"})
TenantsScreen == Screen({"useTenants", "useTenantAdmins"},
    {"useCreateTenant", "useUpdateTenant", "useCreateTenantAdmin", "useActivatePlan",
     "useRejectPlanRequest", "useToggleLudiAddon"})

ClassRegister == Screen({"useClassBoard"},
    {"useMarkMakeupVisitor", "useCloseRegister", "useReopenRegister"})
TeacherClasses == Screen(
    {"useSchedules", "useCourses", "useEnrollments", "useCourseStudents", "useSessions",
     "useRooms", "useLocationProposals", "useVisibleAttendance", "useGrades",
     "useMakeupVisitors"},
    {"useEnsureSession", "useGenerateSessions", "useProposeLocation", "useCancelSession",
     "useRescheduleSession", "useCreateAttendance", "useBulkAttendance", "useMarkMakeupVisitor",
     "useCloseRegister", "useReopenRegister", "useCreateGrade"})
Payslip == Screen({"useTeacherPayroll"}, {})
Today == Screen({"useAgenda", "useSchedules", "useCourses"}, {"useEnsureSession"})
GradeSheet == Screen({"useGrades"}, {"useCreateGrade", "useUpdateGrade"})
HomeworkToSet == Screen({"useAssignments", "useCourses"},
                        {"TeacherAssignmentModal", "TeacherSpeedGrader"})
HomeworkToDo == Screen({"useAssignments", "useCourses", "useAssignmentSubmissions"},
                       {"StudentAssignmentModal"})

StudentHome == Screen(
    {"useEnrollments", "useCourses", "useLevels", "useSchedules", "useMySessions",
     "usePublicTeachers", "useRooms", "useVisibleAttendance", "useHolidays", "useGrades",
     "useMakeUpCredits"},
    {"StudentAssignmentModal"})
Marks == Screen({"useGrades", "useEnrollments", "useCourses"}, {})
Payments == Screen({"useEnrollments", "useCourses", "useEnrollmentLedger",
                    "useEnrollmentInvoices"}, {})
Report == Screen({"useReport"}, {})
Trail == Screen({"useAudit"}, {})
MakeupDialog == Screen({"useMakeUpCredits", "useCandidateSessions", "useMySessions"},
                       {"useBookMakeUp", "useCancelMakeUpBooking"})
LobbyScreen == Screen({"useSession", "useLobbyJoinInfo", "useSchedules"}, {"useUpdateSession"})
Profile == Screen({"useNationalities", "useTeacherLoad", "useTeacherLanguages", "useLanguages",
                   "useTeacherAvailability"},
                  {"useUpdateMe", "useSetTeacherLanguages", "useAddAvailability",
                   "useDeleteAvailability"})
Ludi == Screen({"useLudiStatus", "useCourses", "useCourseRanking", "useCourseStudents"},
               {"useAwardXP"})

Screens ==
    {Frame, PaletteOfStaff, PaletteOfTeachers, PaletteOfStudents, QuickPay, Bell, Start, Figures,
     WeekPreview, FinancialSummary, PlanOfAcademy, CoursesScreen, CoursePreview, ScheduleDialog,
     CourseStatus, CourseWizard, AssignTeacher, EnrollmentsScreen, FinancesDialog, Statement,
     EnrollDesk, RenewalsCard, NextLevel, StudentsScreen, StudentDrawer, TeachersScreen,
     TeacherWizard, UsersScreen, PayrollScreen, CatalogScreen, RoomsScreen, HolidaysScreen,
     Planner, Proposals, TenantsScreen, ClassRegister, TeacherClasses, Payslip, Today, GradeSheet,
     HomeworkToSet, HomeworkToDo, StudentHome, Marks, Payments, Report, Trail, MakeupDialog,
     LobbyScreen, Profile, Ludi}
=============================================================================
