----------------------------- MODULE MCWebClient ------------------------------
(* The web client small, beside the figures it shows.                        *)
EXTENDS WebClient, Figures, DayFigures, ListFigures

(* Two academies know Ana. *)
MCLogins == {[email |-> "ana", academy |-> "x", mfa |-> FALSE],
               [email |-> "ana", academy |-> "y", mfa |-> TRUE],
               [email |-> "ben", academy |-> "z", mfa |-> TRUE]}

(* A file with nobody, and one with all that may be wrong. *)
MCFiles == {<<"head">>, <<"head", "badmail", "ana", "blank", "ben", "unnamed">>}

(* An assistant holds one permission at most. *)
MCGrants ==
    {{}} \cup {{p} : p \in {"manage_teachers", "manage_students", "manage_catalog",
                           "manage_schedules", "manage_enrollments", "manage_finance",
                           "manage_grades", "view_reports"}}

ASSUME EveryPermission == UNION MCGrants = Rights!Permissions

MCOf == [m1 |-> "ana", m2 |-> "ana", m3 |-> "ben"]

(* What the forms send and no hook of lib/queries does. *)
OfTheScreens ==
    {"NotificationSettingsPanel", "test-whatsapp", "VideoProvidersPanel", "test-provider",
     "quick-setup-template", "useGenerateQuiz", "useCreateLiveQuizSession",
     "usePronunciationPractice"}

(* None is excepted from OwnAnswer that the table does not make so. *)
ASSUME ExceptedByTheTable == Form!ActOnAnother \subseteq {f \in Form!AllForms : Form!Reaches(f)}

ASSUME FormsUseHooks ==
    \A f \in Form!AllForms : \A i \in DOMAIN f.does :
        f.does[i] \in OfTheScreens \cup {c.hook : c \in Cache!Changes}
===============================================================================
