------------------------------ MODULE WebClient -------------------------------
(***************************************************************************)
(* The machines of the web client, and the ledger behind its cash desk,    *)
(* side by side: the browser of each user runs any of them, and they share *)
(* nothing but the server.  A behaviour is one of them, with its state in  *)
(* the first of the slots.                                                 *)
(***************************************************************************)
EXTENDS Naturals, FiniteSets, Sequences

CONSTANTS
    NoData, NoScore, Bad, Nobody,
    Grades,                            \* GradeCell
    Days, Outside,                     \* Wizards
    Grants,                            \* Access
    Last,                              \* SpeedGrader
    Learners, Occupied, Gone, Seats,   \* RosterSheet, EnrollBatch
    Logins, UserThreshold, IpThreshold,  \* SignIn
    Newcomers, Twins, Files, Places,   \* StudentImport
    Requests, Of,                      \* Ledger, QuickPay
    MaxCalls, MaxFaults, MaxOthers, MaxTyped, MaxVisits, MaxChanges, MaxRuns, MaxTries,
    MaxOpens, MaxSends, MaxBatches, MaxSubmits, MaxOdd, MaxImports, MaxRows, MaxPayments

ASSUME ClientAssumption ==
    /\ NoData \notin Nat
    /\ MaxRuns \in Nat
    /\ NoScore \notin Grades
    /\ Files \subseteq Seq(STRING)
    /\ IsFiniteSet(Days)
    /\ IsFiniteSet(DOMAIN Of) /\ Nobody \notin DOMAIN Of

VARIABLES part, s1, s2, s3, s4, s5, s6, s7, s8, s9, s10, s11, s12

Unused == "unused"

Cache == INSTANCE QueryCache WITH
    screen <- s1, question <- s2, change <- s3, written <- s4, calls <- s5, told <- s6,
    cache <- s7, fetch <- s8, mounted <- s9, aged <- s10, missed <- s11, faults <- s12

Cell == INSTANCE GradeCell WITH
    Scores <- Grades,
    row <- s1, all <- s2, fetch <- s3, cell <- s4, focused <- s5, calls <- s6, wanted <- s7,
    behind <- s8, typed <- s9, others <- s10

Lobby == INSTANCE LobbyRoom WITH
    class <- s1, hour <- s2, blocked <- s3, role <- s4, page <- s5, visits <- s6, changes <- s7

Devices == INSTANCE DeviceTest WITH
    open <- s1, run <- s2, pressed <- s3, asking <- s4, orphans <- s5, live <- s6, shown <- s7,
    status <- s8, verified <- s9

Wizard == INSTANCE Wizards WITH
    wizard <- s1, draft <- s2, dialog <- s3, try <- s4, made <- s5, taken <- s6,
    promised <- s7, tries <- s8, faults <- s9, stopped <- s10

Rights == INSTANCE Access WITH
    account <- s1, mine <- s2, items <- s3, at <- s4, via <- s5, answer <- s6, revised <- s7

Form == INSTANCE FormSession WITH
    form <- s1, view <- s2, calls <- s3, copies <- s4, faults <- s5

Grader == INSTANCE SpeedGrader WITH
    server <- s1, roster <- s2, filter <- s3, index <- s4, synced <- s5, input <- s6,
    saving <- s7, calls <- s8, loads <- s9, sent <- s10, others <- s11

Roster == INSTANCE RosterSheet WITH
    Students <- Learners,
    marks <- s1, list <- s2, loaded <- s3, fetch <- s4, missed <- s5, calls <- s6, faults <- s7

Batch == INSTANCE EnrollBatch WITH
    Students <- Learners, Busy <- Occupied,
    tab <- s1, selected <- s2, wizard <- s3, calls <- s4, in <- s5, known <- s6, others <- s7

Door == INSTANCE SignIn WITH
    Accounts <- Logins,
    stored <- s1, page <- s2, call <- s3, tries <- s4, locked <- s5, submits <- s6,
    shut <- s7, links <- s8

Import == INSTANCE StudentImport WITH
    Students <- Newcomers,
    modal <- s1, reading <- s2, calls <- s3, accounts <- s4, in <- s5, faults <- s6

Money == INSTANCE Ledger WITH
    rows <- s1, fee <- s2, status <- s3, invoiced <- s4, work <- s5, doubt <- s6

Desk == INSTANCE QuickPay WITH
    NoOne <- Nobody,
    desk <- s1, known <- s2, paid <- s3

Rest == <<s8, s9, s10, s11, s12>>

Init ==
    \/ part = "cache" /\ Cache!Init
    \/ part = "cell" /\ Cell!Init /\ s11 = Unused /\ s12 = Unused
    \/ part = "lobby" /\ Lobby!Init
       /\ s8 = Unused /\ s9 = Unused /\ s10 = Unused /\ s11 = Unused /\ s12 = Unused
    \/ part = "devices" /\ Devices!Init /\ s10 = Unused /\ s11 = Unused /\ s12 = Unused
    \/ part = "wizard" /\ Wizard!Init /\ s11 = Unused /\ s12 = Unused
    \/ part = "rights" /\ Rights!Init
       /\ s8 = Unused /\ s9 = Unused /\ s10 = Unused /\ s11 = Unused /\ s12 = Unused
    \/ part = "form" /\ Form!Init
       /\ s6 = Unused /\ s7 = Unused /\ s8 = Unused /\ s9 = Unused /\ s10 = Unused
       /\ s11 = Unused /\ s12 = Unused
    \/ part = "grader" /\ Grader!Init /\ s12 = Unused
    \/ part = "roster" /\ Roster!Init
       /\ s8 = Unused /\ s9 = Unused /\ s10 = Unused /\ s11 = Unused /\ s12 = Unused
    \/ part = "batch" /\ Batch!Init
       /\ s8 = Unused /\ s9 = Unused /\ s10 = Unused /\ s11 = Unused /\ s12 = Unused
    \/ part = "door" /\ Door!Init
       /\ s9 = Unused /\ s10 = Unused /\ s11 = Unused /\ s12 = Unused
    \/ part = "import" /\ Import!Init /\ s7 = Unused
       /\ s8 = Unused /\ s9 = Unused /\ s10 = Unused /\ s11 = Unused /\ s12 = Unused
    \/ part = "money" /\ Money!Init /\ s7 = Unused
       /\ s8 = Unused /\ s9 = Unused /\ s10 = Unused /\ s11 = Unused /\ s12 = Unused
    \/ part = "desk" /\ Desk!Init
       /\ s4 = Unused /\ s5 = Unused /\ s6 = Unused /\ s7 = Unused /\ s8 = Unused
       /\ s9 = Unused /\ s10 = Unused /\ s11 = Unused /\ s12 = Unused

CacheStep == part = "cache" /\ Cache!Next /\ UNCHANGED part
CellStep == part = "cell" /\ Cell!Next /\ UNCHANGED <<part, s11, s12>>
LobbyStep == part = "lobby" /\ Lobby!Next /\ UNCHANGED <<part, s8, s9, s10, s11, s12>>
DevicesStep == part = "devices" /\ Devices!Next /\ UNCHANGED <<part, s10, s11, s12>>
WizardStep == part = "wizard" /\ Wizard!Next /\ UNCHANGED <<part, s11, s12>>
RightsStep == part = "rights" /\ Rights!Next /\ UNCHANGED <<part, s8, s9, s10, s11, s12>>
FormStep == part = "form" /\ Form!Next /\ UNCHANGED <<part, s6, s7, s8, s9, s10, s11, s12>>
GraderStep == part = "grader" /\ Grader!Next /\ UNCHANGED <<part, s12>>
RosterStep == part = "roster" /\ Roster!Next /\ UNCHANGED <<part, Rest>>
BatchStep == part = "batch" /\ Batch!Next /\ UNCHANGED <<part, Rest>>
DoorStep == part = "door" /\ Door!Next /\ UNCHANGED <<part, s9, s10, s11, s12>>
ImportStep == part = "import" /\ Import!Next /\ UNCHANGED <<part, s7, Rest>>
MoneyStep == part = "money" /\ Money!Next /\ UNCHANGED <<part, s7, Rest>>
DeskStep == part = "desk" /\ Desk!Next /\ UNCHANGED <<part, s4, s5, s6, s7, Rest>>

Next == CacheStep \/ CellStep \/ LobbyStep \/ DevicesStep \/ WizardStep \/ RightsStep
        \/ FormStep \/ GraderStep \/ RosterStep \/ BatchStep \/ DoorStep
        \/ ImportStep \/ MoneyStep \/ DeskStep

Spec == Init /\ [][Next]_<<part, s1, s2, s3, s4, s5, s6, s7, s8, s9, s10, s11, s12>>

(* The list read last holds every change answered before: QueryCache. *)
ShowsOwnChanges == part = "cache" => Cache!ShowsOwnChanges

(* At rest, the cell of the grade table shows the grade there is, and the  *)
(* register the marks there are: GradeCell, RosterSheet.                   *)
ShowsTheServer ==
    /\ part = "cell" => Cell!CellShowsServer
    /\ part = "roster" => Roster!ShowsTheMarks

(* No reading takes away what is being typed: GradeCell. *)
TypingIsKept == [][part = "cell" => Cell!TypingKept]_<<part, s4>>

(* The link of the room is shown in its hours to whom it is for, and no    *)
(* camera is on but the one on the screen: LobbyRoom, DeviceTest.          *)
LobbyKeepsItsWord ==
    /\ part = "lobby" => Lobby!LinkInItsHours
    /\ part = "devices" => Devices!OnlyTheShownCamera

(* A wizard says done when it is, but for the languages of a new teacher   *)
(* that an earlier try stopped at; it does not create an account twice;    *)
(* nobody is enrolled over a clash; and an import shows the file it names  *)
(* and then the passwords it made: Wizards, EnrollBatch, StudentImport.    *)
WizardsKeepTheirWord ==
    /\ part = "wizard" => Wizard!SaysDoneWhenDone /\ Wizard!RetriesSkipTheAccount
    /\ part = "batch" => Batch!NeverForced
    /\ part = "import" => Import!PasswordsInHand /\ Import!ShowsTheNamedFile

(* What the menus and the palette offer opens, and is offered: Access. *)
OffersWhatOpens == part = "rights" => Rights!LinksOpen /\ Rights!OffersWhatItMay

(* One opening of a form saves once: FormSession. *)
SavedOnce == part = "form" => Form!SavedOnce

(* A score is entered for whom it is sent, and a payment for the matricula *)
(* somebody chose: SpeedGrader, QuickPay.                                  *)
EnteredForThem ==
    /\ part = "grader" => Grader!EnteredForThem
    /\ part = "desk" => Desk!PaidAsChosen

(* Nothing paid is invoiced twice, and the payment status is what the      *)
(* ledger says: Ledger.                                                    *)
MoneyAddsUp == part = "money" => Money!InvoicedOnce /\ Money!CacheTells

(* But for those named in FormSession, a form is closed or cleared by the  *)
(* answers of its own opening only.                                        *)
OwnAnswer == [][part = "form" => Form!OwnAnswer]_<<part, s2, s3>>

(* Whose credential is good is turned away for what they are in the        *)
(* academy, or for the academy that was sent: SignIn.                      *)
RefusedForTheAcademy == part = "door" => Door!RefusedForTheAcademy

(* Said of the program, and not so: Wizards, SignIn. *)
OnboardingIsWhole == part = "wizard" => Wizard!OnboardingIsWhole
RefusalMeansInvalid == part = "door" => Door!RefusalMeansInvalid
AsksWhichAcademy == part = "door" => Door!AsksWhichAcademy
===============================================================================
