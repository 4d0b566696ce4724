-------------------------------- MODULE Forms ---------------------------------
(***************************************************************************)
(* The forms, dialogs and switches of the web client: one definition per   *)
(* component that changes something.  A form has the fields it shows, the  *)
(* ones it does not go without, and the hooks of lib/queries it calls, in  *)
(* order; FormSession says what the rest means.                            *)
(***************************************************************************)
EXTENDS Sequences

(* A form in a dialog of its own: blank when it opens, its button disabled *)
(* while its request is under way, closed when the answer is yes.          *)
Form(fields, needs, does) ==
    [fields |-> fields, needs |-> needs, does |-> does,
     begins |-> "blank",   \* or "record": a copy of the record when it opened
     owner |-> "dialog",   \* or "panel": whose hooks send it
     awaits |-> FALSE,     \* the answer is awaited, not left to a callback
     holds |-> "dialog",   \* or "panel": who keeps what is typed
     blocks |-> TRUE,      \* no second request while one is under way
     saved |-> "closes",   \* or "clears", or "stays"
     failed |-> "stays"]   \* or "closes"

Edit(fields, needs, does) == [Form(fields, needs, does) EXCEPT !.begins = "record"]

(* The hooks belong to the panel that opened the dialog. *)
OfPanel(form) == [form EXCEPT !.owner = "panel"]

(* So does what is typed. *)
HeldByPanel(form) == [form EXCEPT !.owner = "panel", !.holds = "panel"]

(* With mutateAsync, or a call of its own and a flag while it lasts. *)
Awaited(form) == [form EXCEPT !.awaits = TRUE]

Unblocked(form) == [form EXCEPT !.blocks = FALSE]

(* ConfirmDialog of a panel. *)
Confirm(does) == OfPanel(Form({}, {}, does))

(* A button, switch or drop-down of a page, sent as it is touched. *)
Switch(fields, does) == [OfPanel(Edit(fields, {}, does)) EXCEPT !.saved = "stays"]

-----------------------------------------------------------------------------
(* People. *)

UserFields == {"cui_passport", "role", "full_name", "email", "password", "phone",
               "nationality_id", "address", "permissions"}

CreateUser == Form(UserFields, {"cui_passport", "full_name", "email"}, <<"useCreateUser">>)

(* Saved with await: the answer closes whatever dialog is open by then. *)
EditUser ==
    Awaited(Edit(UserFields \cup {"timezone", "max_weekly_hours", "notify_whatsapp", "languages"},
                 {"cui_passport", "full_name", "email"},
                 <<"useUpdateUser", "useSetTeacherLanguages">>))

DeleteUser == [Confirm(<<"useDeleteUser">>) EXCEPT !.failed = "closes"]

DeactivateStudent == Confirm(<<"useUpdateUser">>)
ReactivateStudent == Unblocked(Switch({"is_active"}, <<"useUpdateUser">>))

DeactivateTeacher == Form({}, {}, <<"useUpdateUser">>)
ReactivateTeacher == Unblocked(Switch({"is_active"}, <<"useUpdateUser">>))

(* No course ticked means all of them. *)
Reassign == Form({"to_teacher_id", "course_ids"}, {"to_teacher_id"}, <<"useReassignTeacher">>)

-----------------------------------------------------------------------------
(* Academies and their plans, for the platform. *)

(* Goes on to the form of its first administrator. *)
NewTenant == Form({"name", "slug", "max_active_students", "timezone", "currency"},
                  {"name", "slug", "max_active_students"}, <<"useCreateTenant">>)

TenantDetails ==
    [Edit({"name", "max_active_students", "timezone", "currency", "phone", "tax_id", "address"},
          {"name", "max_active_students"}, <<"useUpdateTenant">>)
     EXCEPT !.saved = "stays"]

TenantAdmin ==
    Form({"full_name", "email", "cui_passport", "password"},
         {"full_name", "email", "cui_passport", "password"}, <<"useCreateTenantAdmin">>)

TenantStatus == [Switch({"is_active"}, <<"useUpdateTenant">>) EXCEPT !.saved = "closes"]

ActivatePlan == Switch({"plan"}, <<"useActivatePlan">>)
RejectPlan == HeldByPanel(Form({"reason"}, {}, <<"useRejectPlanRequest">>))
ToggleLudi == Switch({"has_ludi_addon"}, <<"useToggleLudiAddon">>)

-----------------------------------------------------------------------------
(* Courses and matriculas. *)

QuickCourse ==
    [HeldByPanel(Form({"level_id", "name", "max_students"}, {"level_id", "name"},
                      <<"useCreateCourse">>))
     EXCEPT !.saved = "clears"]

(* A slip: its answer awaited, as that of EditUser is. *)
EditCourseAwaited ==
    Awaited(Edit({"level_id", "name", "max_students", "periodicity", "start_date", "end_date"},
                 {"level_id", "name"}, <<"useUpdateCourse">>))

EditCourse == Edit({"level_id", "name", "max_students", "periodicity", "start_date", "end_date"},
                   {"level_id", "name"}, <<"useUpdateCourse">>)

DeleteCourse == Confirm(<<"useDeleteCourse">>)

DeleteEnrollment == [Confirm(<<"useDeleteEnrollment">>) EXCEPT !.failed = "closes"]

StatusSelect == Switch({"status"}, <<"useUpdateEnrollment">>)
AttendanceToggle == Switch({"attendance_blocked"}, <<"useUpdateEnrollment">>)

TransferCourse == Edit({"course_id"}, {"course_id"}, <<"useUpdateEnrollment">>)

(* Stays open for the next payment; the receipt is shown on top. *)
Finances == [Form({"kind", "amount", "method", "due_date", "notes"}, {"amount"},
                  <<"useCreatePayment">>)
             EXCEPT !.saved = "clears"]
IssueInvoice == [Form({}, {}, <<"useIssueInvoice">>) EXCEPT !.saved = "stays"]

(* One course after the other: begins again with what is asked next. *)
StudentPayment ==
    [HeldByPanel(Form({"kind", "amount", "method"}, {"amount"}, <<"useCreatePayment">>))
     EXCEPT !.saved = "clears"]

(* The receipt takes its place. *)
QuickPayment == Form({"student", "matricula", "amount", "method", "receipt_number", "notes"},
                     {"matricula", "amount"}, <<"useCreatePayment">>)

(* Refused, it says what stands in the way instead. *)
CourseMove == [Confirm(<<"useChangeCourseStatus">>) EXCEPT !.failed = "closes"]

AssignCourseTeacher ==
    Form({"course_id", "teacher_id"}, {"course_id", "teacher_id"}, <<"useAssignCourseTeacher">>)

-----------------------------------------------------------------------------
(* What others asked for, approved or sent back with a note. *)

ApproveProposal == Switch({}, <<"useReviewProposal">>)
RejectProposal == [OfPanel(Form({"note"}, {}, <<"useReviewProposal">>)) EXCEPT !.failed = "closes"]

ApproveRenewal == Switch({}, <<"useReviewRenewal">>)
RejectRenewal == [OfPanel(Form({"note"}, {}, <<"useReviewRenewal">>)) EXCEPT !.failed = "closes"]

-----------------------------------------------------------------------------
(* The catalogue and the calendar of the academy. *)

AddLanguage == HeldByPanel(Form({"name", "kind"}, {"name"}, <<"useCreateLanguage">>))
AddLevel == HeldByPanel(Form({"language_id", "code", "name"}, {"language_id", "code"},
                             <<"useCreateLevel">>))
DeleteLanguage == Confirm(<<"useDeleteLanguage">>)
DeleteLevel == Confirm(<<"useDeleteLevel">>)

AddRoom == [HeldByPanel(Form({"name", "capacity", "is_virtual"}, {"name"}, <<"useCreateRoom">>))
            EXCEPT !.saved = "clears"]
SwitchRoom == Unblocked(Switch({"is_virtual"}, <<"useUpdateRoom">>))
DeleteRoom == [Confirm(<<"useDeleteRoom">>) EXCEPT !.failed = "closes"]

AddHoliday == [HeldByPanel(Form({"date", "name"}, {"date", "name"}, <<"useCreateHoliday">>))
               EXCEPT !.saved = "clears"]
DeleteHoliday == Confirm(<<"useDeleteHoliday">>)

-----------------------------------------------------------------------------
(* The academy's own plan, pay and providers. *)

RequestPlan == Form({"plan"}, {"plan"}, <<"useRequestPlan">>)
RequestLudi == Form({}, {}, <<"useRequestLudiAddon">>)
CancelPlan == Switch({}, <<"useCancelPlanRequest">>)

Rate == HeldByPanel(Edit({"hourly_rate", "effective_from"}, {"hourly_rate"},
                         <<"useUpdateTeacherRate">>))

-----------------------------------------------------------------------------
(* One's own profile. *)

ProfileDetails ==
    [OfPanel(Edit({"full_name", "timezone", "phone", "address", "cui_passport", "nationality_id"},
                  {"full_name"}, <<"useUpdateMe">>))
     EXCEPT !.saved = "stays"]
NotificationChannel == Switch({"notify_email", "notify_whatsapp"}, <<"useUpdateMe">>)
ChangePassword ==
    [HeldByPanel(Form({"current_password", "password", "confirm"},
                      {"current_password", "password", "confirm"}, <<"useUpdateMe">>))
     EXCEPT !.saved = "clears"]

AddOwnLanguage == [HeldByPanel(Form({"language_id"}, {"language_id"}, <<"useSetTeacherLanguages">>))
                   EXCEPT !.saved = "clears"]
AddOwnAvailability ==
    [HeldByPanel(Form({"day_of_week", "start_time", "end_time"}, {}, <<"useAddAvailability">>))
     EXCEPT !.saved = "stays"]
DropOwnAvailability == Switch({}, <<"useDeleteAvailability">>)

-----------------------------------------------------------------------------
(* Classes and homework. *)

ScheduleEdit ==
    Awaited(Edit({"course_id", "teacher_id", "day_of_week", "start_time", "end_time", "room_id"},
                 {"course_id", "teacher_id"}, <<"useUpdateSchedule">>))
DeleteSchedule == [Confirm(<<"useDeleteSchedule">>) EXCEPT !.failed = "closes"]

NewAssignment ==
    Awaited(Form({"course_id", "title", "description", "due_date", "resource_url"},
                 {"course_id", "title"}, <<"TeacherAssignmentModal">>))

(* The earlier delivery, if there is one, to write over. *)
Delivery == Awaited(Edit({"content", "submission_url"}, {}, <<"StudentAssignmentModal">>))

(* The page of a class keeps one copy of these for every class shown in it. *)
ProposeLocation ==
    [HeldByPanel(Edit({"modality", "join_url", "room_id"}, {}, <<"useProposeLocation">>))
     EXCEPT !.saved = "stays"]
RescheduleClass == HeldByPanel(Form({"new_date"}, {"new_date"}, <<"useRescheduleSession">>))
CancelClass == [OfPanel(Form({"reason"}, {}, <<"useCancelSession">>)) EXCEPT !.failed = "closes"]
GenerateClasses == Switch({}, <<"useGenerateSessions">>)

CloseRegister == Confirm(<<"useCloseRegister">>)
ReopenRegister == Switch({}, <<"useReopenRegister">>)
MarkVisitor == Switch({"status"}, <<"useMarkMakeupVisitor">>)
DailyGrade == Switch({"score"}, <<"useCreateGrade">>)
EnterClassMode == Switch({}, <<"useEnsureSession">>)

-----------------------------------------------------------------------------
(* Settings of the academy, and games. *)

NotificationSettings ==
    Switch({"whatsapp_enabled", "whatsapp_mode", "whatsapp_phone_number_id", "whatsapp_token",
            "whatsapp_default_country_code", "email_enabled", "push_enabled", "triggers"},
           <<"NotificationSettingsPanel">>)
TestWhatsApp == Awaited(Switch({"phone"}, <<"test-whatsapp">>))

(* The credentials shown are not the saved ones, and an empty one is sent. *)
VideoProvider ==
    Awaited([HeldByPanel(Form({"name", "credentials"}, {}, <<"VideoProvidersPanel">>))
             EXCEPT !.saved = "stays"])
TestProvider == [VideoProvider EXCEPT !.does = <<"test-provider">>]

QuickSetup == Awaited(Switch({"template_type"}, <<"quick-setup-template">>))

GenerateQuiz == [HeldByPanel(Form({"topic", "questions"}, {"topic"}, <<"useGenerateQuiz">>))
                 EXCEPT !.saved = "stays"]
LiveQuiz == Switch({}, <<"useCreateLiveQuizSession">>)
AwardXP == HeldByPanel(Form({"student_id", "amount", "reason"}, {"student_id"}, <<"useAwardXP">>))
Pronunciation == Switch({"reference_text"}, <<"usePronunciationPractice">>)

-----------------------------------------------------------------------------
AllForms ==
    {CreateUser, EditUser, DeleteUser, DeactivateStudent, ReactivateStudent, DeactivateTeacher,
     ReactivateTeacher, Reassign, NewTenant, TenantDetails, TenantAdmin, TenantStatus,
     ActivatePlan, RejectPlan, ToggleLudi, QuickCourse, EditCourse, DeleteCourse,
     DeleteEnrollment, StatusSelect, AttendanceToggle, TransferCourse, Finances, IssueInvoice,
     StudentPayment, QuickPayment, CourseMove, AssignCourseTeacher, ApproveProposal, RejectProposal,
     ApproveRenewal, RejectRenewal, AddLanguage, AddLevel, DeleteLanguage, DeleteLevel, AddRoom,
     SwitchRoom, DeleteRoom, AddHoliday, DeleteHoliday, RequestPlan, RequestLudi, CancelPlan,
     Rate, ProfileDetails, NotificationChannel, ChangePassword, AddOwnLanguage,
     AddOwnAvailability, DropOwnAvailability, ScheduleEdit, DeleteSchedule, NewAssignment,
     Delivery, ProposeLocation, RescheduleClass, CancelClass, GenerateClasses, CloseRegister,
     ReopenRegister, MarkVisitor, DailyGrade, EnterClassMode, NotificationSettings, TestWhatsApp,
     VideoProvider, TestProvider, QuickSetup, GenerateQuiz, LiveQuiz, AwardXP, Pronunciation}
===============================================================================
