----------------------------- MODULE QueryCache -----------------------------
(***************************************************************************)
(* What a screen shows after its own changes.  The pages never copy the    *)
(* server's data: they read it through the query cache, which keeps an     *)
(* answer for thirty seconds, and each change names the cached answers it  *)
(* makes stale (lib/queries, lib/queryClient.ts).  A behaviour follows one *)
(* question and one change of one screen; the data the change writes is    *)
(* the number of writes so far.                                            *)
(***************************************************************************)
EXTENDS Naturals, FiniteSets, SequencesExt, Screens

CONSTANTS
    MaxCalls,  \* bound: calls of the change
    MaxFaults, \* bound: requests that fail, and times the page is left
    NoData

VARIABLES
    screen,   \* the screen
    question, \* the question followed
    change,   \* the change followed
    written,  \* writes the server has committed
    calls,    \* calls under way: sent, or committed and not yet answered
    told,     \* the last write the page has been told of
    cache,    \* the cached answer: its data and whether it was invalidated
    fetch,    \* the request for the answer under way
    mounted,  \* whether the screen is shown
    aged,     \* whether thirty seconds have passed since the answer arrived
    missed,   \* the last request failed, or an invalidation met one that it
              \* could not restart
    faults

choice == <<screen, question, change>>
server == <<written, calls, told>>
client == <<cache, fetch, mounted, aged, missed>>
vars == <<choice, server, client, faults>>

-----------------------------------------------------------------------------
Touches(c, q) == c.writes \cap q.shows # {}

(* What the code forgets: a change whose own screen goes on showing what   *)
(* was there before.  A payment leaves the start page's arrears, switching *)
(* Ludi on names a key that no query reads, and so on.                     *)
Overlooked ==
    {<<"useCreatePayment", "useDashboard">>,
     <<"useDirectToggleLudiAddon", "useAcademyPlan">>,
     <<"useRequestLudiAddon", "useAcademyPlan">>,
     <<"useUpdateEnrollment", "useCourses">>,
     <<"useDeleteEnrollment", "useCourses">>,
     <<"useCreateUser", "usePublicTeachers">>,
     <<"useCreateUser", "useDashboard">>,
     <<"useEnsureSession", "useAgenda">>}

Init ==
    /\ screen \in Screens /\ question \in screen.asks /\ change \in screen.does
    /\ Touches(change, question)
    /\ written = 0 /\ calls = [c \in 1..MaxCalls |-> "none"] /\ told = 0
    /\ cache = [data |-> NoData, invalid |-> FALSE]
    /\ fetch = [stage |-> "asked", seen |-> 0]
    /\ mounted = TRUE /\ aged = FALSE /\ missed = FALSE /\ faults = 0

-----------------------------------------------------------------------------
(* The cache. *)

Ask == [stage |-> "asked", seen |-> 0]
NoFetch == [stage |-> "none", seen |-> 0]

(* A slip: only the very key is refreshed, not the ones that begin with it. *)
SameKey(c, q) == q.key \in c.refreshes

(* invalidateQueries matches by prefix. *)
Matches(c, q) == \E key \in c.refreshes : IsPrefix(key, q.key)

(* An answer that matches becomes stale, and is asked for again if it is   *)
(* on screen: a request under way is given up for the new one.  But the    *)
(* first request, and one of a page that was left, goes on, and the answer *)
(* it brings counts as fresh whenever it was read.                         *)
Invalidate ==
    IF ~Matches(change, question) THEN UNCHANGED <<cache, fetch, missed>>
    ELSE /\ cache' = [cache EXCEPT !.invalid = TRUE]
         /\ IF mounted /\ cache.data # NoData
            THEN fetch' = Ask /\ missed' = FALSE
            ELSE missed' = (missed \/ fetch.stage # "none") /\ UNCHANGED fetch

ServeFetch ==
    /\ fetch.stage = "asked"
    /\ fetch' = [stage |-> "read", seen |-> written]
    /\ UNCHANGED <<choice, server, cache, mounted, aged, missed, faults>>

TakeFetch ==
    /\ fetch.stage = "read"
    /\ cache' = [data |-> fetch.seen, invalid |-> FALSE]
    /\ fetch' = NoFetch /\ aged' = FALSE
    /\ UNCHANGED <<choice, server, mounted, missed, faults>>

FailFetch ==
    /\ fetch.stage # "none" /\ faults < MaxFaults
    /\ fetch' = NoFetch /\ missed' = TRUE /\ faults' = faults + 1
    /\ UNCHANGED <<choice, server, cache, mounted, aged>>

(* Half a minute passes: the answer counts as stale the next time the      *)
(* screen is shown.                                                        *)
Age ==
    /\ cache.data # NoData /\ ~aged
    /\ aged' = TRUE
    /\ UNCHANGED <<choice, server, cache, fetch, mounted, missed, faults>>

LeaveScreen ==
    /\ mounted /\ faults < MaxFaults
    /\ mounted' = FALSE /\ faults' = faults + 1
    /\ UNCHANGED <<choice, server, cache, fetch, aged, missed>>

(* Coming back asks again for what is missing or stale; the start page's   *)
(* figures are always asked for.                                           *)
Return ==
    /\ ~mounted
    /\ mounted' = TRUE
    /\ LET again == \/ cache.data = NoData \/ cache.invalid \/ aged
                    \/ question.hook = "useDashboard"
       IN  /\ fetch' = IF again /\ fetch.stage = "none" THEN Ask ELSE fetch
           /\ missed' = IF again /\ fetch.stage = "none" THEN FALSE ELSE missed
    /\ UNCHANGED <<choice, server, cache, aged, faults>>

-----------------------------------------------------------------------------
(* The change. *)

Send(c) ==
    /\ mounted /\ calls[c] = "none" /\ (c > 1 => calls[c - 1] # "none")
    /\ calls' = [calls EXCEPT ![c] = "sent"]
    /\ UNCHANGED <<choice, written, told, client, faults>>

Commit(c) ==
    /\ calls[c] = "sent"
    /\ written' = written + 1
    /\ calls' = [calls EXCEPT ![c] = "committed"]
    /\ UNCHANGED <<choice, told, client, faults>>

(* The answer arrives: what the page has been told of is what the server   *)
(* had written by then.                                                    *)
Succeed(c) ==
    /\ calls[c] = "committed"
    /\ calls' = [calls EXCEPT ![c] = "over"]
    /\ told' = written
    /\ Invalidate
    /\ UNCHANGED <<choice, written, mounted, aged, faults>>

(* It is refused, or lost on the way there or back. *)
Fail(c) ==
    /\ calls[c] \in {"sent", "committed"} /\ faults < MaxFaults
    /\ faults' = faults + 1
    /\ calls' = [calls EXCEPT ![c] = "over"]
    /\ IF change.settled THEN Invalidate ELSE UNCHANGED <<cache, fetch, missed>>
    /\ UNCHANGED <<choice, written, told, mounted, aged>>

Next ==
    \/ ServeFetch \/ TakeFetch \/ FailFetch \/ Age \/ LeaveScreen \/ Return
    \/ \E c \in 1..MaxCalls : Send(c) \/ Commit(c) \/ Succeed(c) \/ Fail(c)

Spec == Init /\ [][Next]_vars

-----------------------------------------------------------------------------
TypeOK ==
    /\ written \in Nat /\ told \in Nat /\ faults \in Nat
    /\ calls \in [1..MaxCalls -> {"none", "sent", "committed", "over"}]
    /\ cache \in [data : Nat \cup {NoData}, invalid : BOOLEAN]
    /\ fetch \in [stage : {"none", "asked", "read"}, seen : Nat]
    /\ mounted \in BOOLEAN /\ aged \in BOOLEAN /\ missed \in BOOLEAN

(* At rest, with the requests that were made answered.                     *)
Settled == mounted /\ cache.data # NoData /\ fetch.stage = "none" /\ ~missed

(* A screen that has settled shows every change it was told had been made, *)
(* also when two of them overlap with a refetch, when the page was left    *)
(* and shown again, and when an earlier one failed; except those the code  *)
(* forgets (lib/queries/sessions.ts:84-97, grades.ts:14-22).               *)
ShowsOwnChanges ==
    Settled /\ <<change.hook, question.hook>> \notin Overlooked => cache.data >= told

(* "An admin who just registered a payment should not still be told the    *)
(* matricula is in arrears" (lib/queries/dashboard.ts:9-11).               *)
PaymentSeen ==
    Settled /\ change.hook = "useCreatePayment" => cache.data >= told

-----------------------------------------------------------------------------
(* Why ShowsOwnChanges holds: of a change that names the question, every   *)
(* call the page is told of leaves an answer that is fresh, one that is    *)
(* known to be stale, or a request that will read after it.                *)

(* One of the screens, something it shows and a change of it they touch.    *)
Chosen ==
    /\ screen \in Screens /\ question \in screen.asks /\ change \in screen.does
    /\ Touches(change, question)

(* On screen, what is invalid or not there yet is being asked for.         *)
AskedWhenNeeded ==
    mounted /\ fetch.stage = "none" /\ ~missed => cache.data # NoData /\ ~cache.invalid

ReadsInTime == fetch.stage = "read" /\ ~missed => fetch.seen >= told

FreshOrInvalid ==
    fetch.stage = "none" /\ ~missed /\ ~cache.invalid /\ cache.data # NoData => cache.data >= told

CacheInv ==
    /\ TypeOK
    /\ told <= written
    /\ AskedWhenNeeded
    /\ Matches(change, question) => ReadsInTime /\ FreshOrInvalid
=============================================================================
