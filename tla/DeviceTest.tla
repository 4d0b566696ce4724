------------------------------ MODULE DeviceTest ------------------------------
(***************************************************************************)
(* The test of camera and microphone in the waiting room (MediaTest of     *)
(* pages/Lobby.tsx).  Every press of the button asks the browser anew; the *)
(* permissions are granted or denied in any order, also after the page has *)
(* been left.  A run is known by its number, the newest being the page's.  *)
(***************************************************************************)
EXTENDS Naturals

CONSTANTS MaxRuns      \* presses of the button

NoRun == 0
Runs == 1..MaxRuns

VARIABLES
    open,     \* the test is on the page
    run,      \* runIdRef, of this page
    pressed,  \* runs begun
    asking,   \* runs of this page whose permission is pending
    orphans,  \* and those of pages that were left
    live,     \* runs whose camera is on
    shown,    \* streamRef: the run whose stream the page holds
    status,   \* "idle", "ok" or "error"
    verified  \* remembered for the browser's session

vars == <<open, run, pressed, asking, orphans, live, shown, status, verified>>

Init ==
    /\ open = TRUE /\ run = NoRun /\ pressed = 0
    /\ asking = {} /\ orphans = {} /\ live = {} /\ shown = NoRun
    /\ status = "idle" /\ verified = FALSE

(* stopTest: the stream of the page ends, and no run is its own any more. *)
Stop == live' = live \ {shown} /\ shown' = NoRun

StartTest ==
    /\ open /\ pressed < MaxRuns
    /\ pressed' = pressed + 1 /\ run' = pressed + 1
    /\ Stop /\ asking' = asking \cup {pressed + 1} /\ status' = "idle"
    /\ UNCHANGED <<open, orphans, verified>>

(* A slip: whatever is granted is shown. *)
GrantedAny(r) ==
    /\ live' = live \cup {r} /\ shown' = r /\ status' = "ok" /\ verified' = TRUE

(* The stream of a run that is not the page's is closed at once. *)
Granted(r) ==
    IF r # run THEN UNCHANGED <<live, shown, status, verified>>
    ELSE live' = live \cup {r} /\ shown' = r /\ status' = "ok" /\ verified' = TRUE

Grant(r) ==
    /\ r \in asking /\ asking' = asking \ {r} /\ Granted(r)
    /\ UNCHANGED <<open, run, pressed, orphans>>

(* Whichever run is refused, the test of the page ends: an earlier one's   *)
(* refusal turns off what a later one was granted.                         *)
Deny(r) ==
    /\ r \in asking /\ asking' = asking \ {r}
    /\ Stop /\ run' = NoRun /\ status' = "error"
    /\ UNCHANGED <<open, pressed, orphans, verified>>

(* The browser has no sound to measure: all is given up. *)
AudioFails ==
    /\ open /\ shown # NoRun
    /\ Stop /\ run' = NoRun /\ status' = "error"
    /\ UNCHANGED <<open, pressed, asking, orphans, verified>>

(* A granted or refused run of a page that was left: its stream is closed. *)
Late(r) ==
    /\ r \in orphans /\ orphans' = orphans \ {r}
    /\ UNCHANGED <<open, run, pressed, asking, live, shown, status, verified>>

Leave ==
    /\ open /\ open' = FALSE
    /\ Stop /\ run' = NoRun /\ orphans' = orphans \cup asking /\ asking' = {}
    /\ UNCHANGED <<pressed, status, verified>>

Return ==
    /\ ~open /\ open' = TRUE
    /\ status' = IF verified THEN "ok" ELSE "idle"
    /\ UNCHANGED <<run, pressed, asking, orphans, live, shown, verified>>

Next ==
    \/ StartTest \/ AudioFails \/ Leave \/ Return
    \/ \E r \in Runs : Grant(r) \/ Deny(r) \/ Late(r)

Spec == Init /\ [][Next]_vars

DeviceTypeOK ==
    /\ open \in BOOLEAN /\ verified \in BOOLEAN /\ status \in {"idle", "ok", "error"}
    /\ run \in Runs \cup {NoRun} /\ shown \in Runs \cup {NoRun} /\ pressed \in 0..MaxRuns
    /\ asking \subseteq Runs /\ orphans \subseteq Runs /\ live \subseteq Runs

(* No camera is on but the one the page shows: none of an abandoned test,  *)
(* none once the page has been left.                                       *)
OnlyTheShownCamera == live \subseteq (IF open /\ shown # NoRun THEN {shown} ELSE {})

\* Why: what is on is what the page holds, and that is of its last run; a page that was
\* left runs nothing.
DeviceInv ==
    /\ live \subseteq {shown} \ {NoRun}
    /\ shown \in {NoRun, run}
    /\ ~open => run = NoRun /\ asking = {}
=============================================================================
