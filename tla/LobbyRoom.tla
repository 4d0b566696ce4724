------------------------------ MODULE LobbyRoom -------------------------------
(***************************************************************************)
(* The waiting room of one class (pages/Lobby.tsx) and the window the      *)
(* server opens for it (routers/meetings.py lobby_access).  The page asks  *)
(* for the class and for the link once, counts down by itself and offers   *)
(* the door; the register of the class, its state and the student's        *)
(* restriction change meanwhile on the server.                             *)
(***************************************************************************)
EXTENDS Integers, Sequences

CONSTANTS MaxVisits,     \* times the page is opened
          MaxChanges     \* changes made by others

(* The hours of a class: students may enter from early to grace. *)
Hours == <<"before", "early", "under way", "grace", "after">>
Statuses == {"scheduled", "held", "cancelled"}
Roles == {"student", "teacher", "admin"}
Modalities == {"virtual", "presencial", "semi_presencial"}

VARIABLES
    class,   \* [modality, link: published, status], as the server has it
    hour,    \* index into Hours
    blocked, \* the student's matricula has attendance_blocked
    role,    \* of who looks
    page,    \* what the page holds: the class, the link's answer, the devices
    visits, changes

vars == <<class, hour, blocked, role, page, visits, changes>>

Now == Hours[hour]

-----------------------------------------------------------------------------
(* The server. *)

NoInfo == [loaded |-> FALSE, can_join |-> FALSE, link |-> FALSE, grace |-> FALSE]
Refused == [NoInfo EXCEPT !.loaded = TRUE]
Admitted(link, grace) == [loaded |-> TRUE, can_join |-> TRUE, link |-> link, grace |-> grace]

(* A slip: the window opens with the page. *)
LobbyAccessEarly(isHost) ==
    IF class.status = "cancelled" THEN Refused
    ELSE IF isHost THEN Admitted(class.link, FALSE)
    ELSE IF Now = "after" THEN Refused
    ELSE Admitted(class.link, Now = "grace")

(* Who may enter the room, and whether they get a link. *)
LobbyAccess(isHost) ==
    IF class.status = "cancelled" THEN Refused
    ELSE IF isHost THEN Admitted(class.link, FALSE)
    ELSE IF Now \in {"before", "after"} THEN Refused
    ELSE Admitted(class.link, Now = "grace")

(* Whoever teaches the class, and the academy's office. *)
IsHost == role \in {"teacher", "admin"}

(* A restricted student is refused outright. *)
SessionLobbyInfo ==
    IF role = "student" /\ blocked THEN NoInfo ELSE LobbyAccess(IsHost)

-----------------------------------------------------------------------------
(* The page. *)

Away == [open |-> FALSE, status |-> "scheduled", info |-> NoInfo, restricted |-> FALSE,
         ready |-> FALSE, started |-> FALSE]

Init ==
    /\ class \in [modality : Modalities, link : BOOLEAN, status : {"scheduled"}]
    /\ hour = 1 /\ blocked \in BOOLEAN /\ role \in Roles
    /\ (role # "student" => ~blocked)
    /\ page = Away /\ visits = 0 /\ changes = 0

(* The class, the matriculas and the link are asked for as the page opens. *)
Enter ==
    /\ ~page.open /\ visits < MaxVisits
    /\ visits' = visits + 1
    /\ page' = [page EXCEPT !.open = TRUE, !.status = class.status, !.info = SessionLobbyInfo,
                            !.restricted = (role = "student" /\ blocked),
                            !.started = (class.status = "held")]
    /\ UNCHANGED <<class, hour, blocked, role, changes>>

(* The devices, once tried or skipped, stay so for the browser's session. *)
Leave ==
    /\ page.open
    /\ page' = [Away EXCEPT !.ready = page.ready]
    /\ UNCHANGED <<class, hour, blocked, role, visits, changes>>

(* The network comes back: what is on screen is asked for again. *)
Reconnect ==
    /\ page.open /\ changes < MaxChanges
    /\ changes' = changes + 1
    /\ page' = [page EXCEPT !.status = class.status,
                            !.info = IF role = "student" /\ blocked THEN page.info
                                     ELSE SessionLobbyInfo,
                            !.restricted = (role = "student" /\ blocked)]
    /\ UNCHANGED <<class, hour, blocked, role, visits>>

(* A class in a room has no door to wait at: the page says where it is. *)
InPerson == class.modality = "presencial"

(* Neither sent away as restricted nor to a room: the door is on screen. *)
Waiting == page.open /\ ~page.restricted /\ ~InPerson

(* Camera and microphone were tried, or skipped: not a reason to be out. *)
TryDevices ==
    /\ Waiting /\ ~page.ready
    /\ page' = [page EXCEPT !.ready = TRUE]
    /\ UNCHANGED <<class, hour, blocked, role, visits, changes>>

(* The countdown reads the clock, not the server. *)
Remaining == Now \in {"before", "early"}

NeedsLink == ~InPerson

(* What the host is shown in place of the button, and the button. *)
HostLink == page.info.link \/ (NeedsLink /\ class.link)
MissingLink == NeedsLink /\ ~HostLink
HostBoard ==
    IF page.status = "cancelled" THEN "cancelled"
    ELSE IF page.info.grace THEN "grace"
    ELSE IF page.started THEN "started"
    ELSE IF Remaining THEN "countdown" ELSE "due"
MayStart == Waiting /\ IsHost /\ HostBoard \in {"countdown", "due"} /\ ~MissingLink

(* Opens the room and marks the class as held; the answer refreshes the    *)
(* class, not the link.                                                    *)
Start ==
    /\ MayStart
    /\ class' = [class EXCEPT !.status = "held"]
    /\ page' = [page EXCEPT !.started = TRUE, !.status = "held"]
    /\ UNCHANGED <<hour, blocked, role, visits, changes>>

(* What the student is told. *)
Board ==
    IF page.info.grace THEN "grace"
    ELSE IF page.info.can_join THEN "open"
    ELSE IF Remaining THEN "countdown" ELSE "over"

MayJoin == Waiting /\ role = "student" /\ page.info.link /\ page.info.can_join /\ page.ready

-----------------------------------------------------------------------------
(* The clock, the office and other teachers. *)

Tick == hour < Len(Hours) /\ hour' = hour + 1 /\ UNCHANGED <<class, blocked, role, page, visits, changes>>

Cancel ==
    /\ changes < MaxChanges /\ class.status = "scheduled"
    /\ class' = [class EXCEPT !.status = "cancelled"] /\ changes' = changes + 1
    /\ UNCHANGED <<hour, blocked, role, page, visits>>

Publish ==
    /\ changes < MaxChanges /\ ~class.link /\ NeedsLink
    /\ class' = [class EXCEPT !.link = TRUE] /\ changes' = changes + 1
    /\ UNCHANGED <<hour, blocked, role, page, visits>>

Restrict ==
    /\ changes < MaxChanges /\ role = "student"
    /\ blocked' = ~blocked /\ changes' = changes + 1
    /\ UNCHANGED <<class, hour, role, page, visits>>

Next ==
    \/ Enter \/ Leave \/ Reconnect \/ TryDevices \/ Start
    \/ Tick \/ Cancel \/ Publish \/ Restrict

Spec == Init /\ [][Next]_vars

-----------------------------------------------------------------------------
LobbyTypeOK ==
    /\ class \in [modality : Modalities, link : BOOLEAN, status : Statuses]
    /\ hour \in DOMAIN Hours /\ blocked \in BOOLEAN /\ role \in Roles
    /\ page.info \in [loaded : BOOLEAN, can_join : BOOLEAN, link : BOOLEAN, grace : BOOLEAN]
    /\ page.status \in Statuses
    /\ visits \in 0..MaxVisits /\ changes \in 0..MaxChanges

(* A student's page never holds the link of a class whose window has not   *)
(* opened, nor speaks of grace before the class is over, whenever the page *)
(* asked, left or came back.                                               *)
LinkInItsHours ==
    page.open /\ role = "student" =>
        /\ page.info.link => Now # "before"
        /\ page.info.grace => Now \in {"grace", "after"}

(* The page says that the class is over, and its grace too, only when they *)
(* are.  It does not hold: the link is asked for once, so who came before  *)
(* the window waits, sees the countdown end and is told so as the class    *)
(* begins.                                                                 *)
OverWhenItIs ==
    Waiting /\ role = "student" /\ Board = "over" /\ class.status # "cancelled" => Now = "after"

\* Why: what a student's page was told was true when it asked, and the hours only go on.
LobbyInv ==
    /\ hour \in DOMAIN Hours
    /\ page = [open |-> page.open, status |-> page.status, info |-> page.info,
               restricted |-> page.restricted, ready |-> page.ready, started |-> page.started]
    /\ role = "student" =>
         /\ page.info.link => hour >= 2
         /\ page.info.grace => hour >= 4
=============================================================================
