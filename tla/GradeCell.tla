----------------------------- MODULE GradeCell ------------------------------
(***************************************************************************)
(* One cell of the grade sheet (features/grades/GradeTable.tsx): a score   *)
(* typed by a teacher saves itself when the cell is left, is shown before  *)
(* the server has it, and is taken back if the server refuses              *)
(* (lib/queries/grades.ts).  The cached list of grades is the entries of   *)
(* this student and evaluation; an entry that the server has not confirmed *)
(* carries an invented number.  A colleague corrects scores meanwhile.     *)
(***************************************************************************)
EXTENDS Naturals, Sequences

CONSTANTS
    Scores,    \* valid scores
    NoScore,   \* no grade, or an empty cell
    Bad,       \* what is not a score: letters, or a number outside 0 to 10
    MaxCalls,  \* bound: requests of this cell
    MaxTyped,  \* bound: times the cell is typed in
    MaxOthers  \* bound: corrections by others, requests lost or refused
               \* and refetches that fail

VARIABLES
    row,     \* the grade of this student and evaluation in the database
    all,     \* the entries of the cell in the cached list
    fetch,   \* the request for the list under way, and what it read
    cell,    \* what the input holds
    focused,
    calls,   \* the requests of the cell in the order they were made
    wanted,  \* history: the score the teacher last left in the cell
    behind,  \* history: the list may not be the server's (a correction that
             \* was not fetched, a refetch that failed)
    typed, others

vars == <<row, all, fetch, cell, focused, calls, wanted, behind, typed, others>>

MaybeScore == Scores \cup {NoScore}
Entry == [real : BOOLEAN, score : Scores]
Entries == UNION {[1..n -> Entry] : n \in 0..(MaxCalls + 1)}
Call == [kind : {"create", "update"}, real : BOOLEAN, score : Scores, prev : Entries,
         stage : {"sent", "served", "refused", "over"}]

\* The variables hold values of their types.
TypeOK ==
    /\ row \in MaybeScore
    /\ all \in Entries
    /\ fetch \in [stage : {"none", "asked", "read"}, seen : MaybeScore]
    /\ cell \in MaybeScore \cup {Bad} /\ focused \in BOOLEAN
    /\ Len(calls) <= MaxCalls /\ \A i \in DOMAIN calls : calls[i] \in Call
    /\ wanted \in MaybeScore /\ behind \in BOOLEAN
    /\ typed \in 0..MaxTyped /\ others \in 0..MaxOthers

ListOf(score) == IF score = NoScore THEN <<>> ELSE <<[real |-> TRUE, score |-> score]>>

NoFetch == [stage |-> "none", seen |-> NoScore]
Asking == [stage |-> "asked", seen |-> NoScore]

Init ==
    /\ row \in MaybeScore /\ all = ListOf(row) /\ cell = row
    /\ fetch = NoFetch /\ focused = FALSE /\ calls = <<>>
    /\ wanted = NoScore /\ behind = FALSE
    /\ typed = 0 /\ others = 0

-----------------------------------------------------------------------------
(* The cell. *)

(* grades.find(...): the grade the cell shows is the first. *)
Graded(list) == list # <<>>
ScoreOf(list) == IF Graded(list) THEN Head(list).score ELSE NoScore

(* A slip: the cell follows the list also while somebody is in it. *)
ResyncAlways(list) == IF ScoreOf(list) # ScoreOf(all) THEN ScoreOf(list) ELSE cell

(* The effect on grade?.score: what the list says replaces what the cell   *)
(* holds, but not while the cell has the focus.                            *)
Resync(list) ==
    IF ~focused /\ ScoreOf(list) # ScoreOf(all) THEN ScoreOf(list) ELSE cell

Focus ==
    /\ ~focused
    /\ focused' = TRUE
    /\ UNCHANGED <<row, all, fetch, cell, calls, wanted, behind, typed, others>>

Type(v) ==
    /\ focused /\ typed < MaxTyped /\ v # cell
    /\ cell' = v /\ typed' = typed + 1
    /\ UNCHANGED <<row, all, fetch, focused, calls, wanted, behind, others>>

(* onMutate: a refetch under way is given up, and the list shows the score *)
(* already: a new entry with an invented number, or the entry corrected.   *)
Request(list) ==
    IF Graded(all)
    THEN [kind |-> "update", real |-> Head(all).real, score |-> cell, prev |-> list,
          stage |-> "sent"]
    ELSE [kind |-> "create", real |-> TRUE, score |-> cell, prev |-> list, stage |-> "sent"]

Optimistic(list) ==
    IF Graded(all) THEN <<[Head(list) EXCEPT !.score = cell]>> \o Tail(list)
    ELSE Append(list, [real |-> FALSE, score |-> cell])

(* commit(): nothing to do for an empty cell, a score that is not one or   *)
(* the one already there.                                                  *)
Commits == cell \in Scores /\ cell # ScoreOf(all)

(* Leaving the cell commits it; so does Enter, which then moves to the     *)
(* next row and leaves the cell, so that the same commit is made twice     *)
(* with what the cell showed before either of them.                        *)
CommitLeave ==
    /\ Len(calls) < MaxCalls
    /\ calls' = Append(calls, Request(all))
    /\ all' = Optimistic(all)

CommitTwice ==
    /\ Len(calls) + 1 < MaxCalls
    /\ calls' = calls \o <<Request(all), Request(Optimistic(all))>>
    /\ all' = Optimistic(Optimistic(all))

Blur ==
    /\ focused
    /\ focused' = FALSE
    /\ IF Commits
       THEN /\ CommitLeave \/ CommitTwice
            /\ fetch' = NoFetch /\ wanted' = cell
            /\ cell' = cell
       ELSE UNCHANGED <<calls, all, fetch, wanted, cell>>
    /\ UNCHANGED <<row, behind, typed, others>>

-----------------------------------------------------------------------------
(* The answers. *)

(* A slip: only a score that was saved makes the list stale. *)
InvalidateSaved(i) == IF calls[i].stage = "served" THEN Asking ELSE fetch

(* onSettled, however it ended: the list is asked for again. *)
Invalidate(i) == Asking

(* onError: the list as it was before this request. *)
Rollback(i) == IF calls[i].stage = "served" THEN all ELSE calls[i].prev

Over(i) == [calls EXCEPT ![i].stage = "over", ![i].prev = <<>>]

Settle(i) ==
    /\ calls[i].stage \in {"served", "refused"}
    /\ all' = Rollback(i) /\ cell' = Resync(Rollback(i))
    /\ fetch' = Invalidate(i) /\ calls' = Over(i)
    /\ UNCHANGED <<row, focused, wanted, behind, typed, others>>

ServeFetch ==
    /\ fetch.stage = "asked"
    /\ fetch' = [stage |-> "read", seen |-> row]
    /\ UNCHANGED <<row, all, cell, focused, calls, wanted, behind, typed, others>>

TakeFetch ==
    /\ fetch.stage = "read"
    /\ all' = ListOf(fetch.seen) /\ cell' = Resync(ListOf(fetch.seen))
    /\ fetch' = NoFetch
    /\ behind' = (behind /\ fetch.seen # row)
    /\ UNCHANGED <<row, focused, calls, wanted, typed, others>>

FailFetch ==
    /\ fetch.stage # "none" /\ others < MaxOthers
    /\ fetch' = NoFetch /\ behind' = TRUE /\ others' = others + 1
    /\ UNCHANGED <<row, all, cell, focused, calls, wanted, typed>>

-----------------------------------------------------------------------------
(* The server. *)

(* create_grade re-scores the grade that is there; update_grade needs the  *)
(* number of one.                                                          *)
Finds(call) == call.kind = "create" \/ call.real

Serve(i) ==
    /\ calls[i].stage = "sent"
    /\ IF Finds(calls[i])
       THEN row' = calls[i].score /\ calls' = [calls EXCEPT ![i].stage = "served"]
       ELSE UNCHANGED row /\ calls' = [calls EXCEPT ![i].stage = "refused"]
    /\ UNCHANGED <<all, fetch, cell, focused, wanted, behind, typed, others>>

(* The matricula was closed, or nothing comes back. *)
Lose(i) ==
    /\ calls[i].stage \in {"sent", "served"} /\ others < MaxOthers
    /\ others' = others + 1
    /\ calls' = [calls EXCEPT ![i].stage = "refused"]
    /\ wanted' = NoScore
    /\ UNCHANGED <<row, all, fetch, cell, focused, behind, typed>>

Correct(score) ==
    /\ others < MaxOthers /\ score # row
    /\ others' = others + 1
    /\ row' = score /\ wanted' = NoScore /\ behind' = TRUE
    /\ UNCHANGED <<all, fetch, cell, focused, calls, typed>>

-----------------------------------------------------------------------------
Next ==
    \/ Focus \/ Blur \/ ServeFetch \/ TakeFetch \/ FailFetch
    \/ \E v \in MaybeScore \cup {Bad} : Type(v)
    \/ \E i \in DOMAIN calls : Settle(i) \/ Serve(i) \/ Lose(i)
    \/ \E score \in Scores : Correct(score)

Spec == Init /\ [][Next]_vars

-----------------------------------------------------------------------------
(* TypeOK without the bounds of the runs. *)
Queued == [kind : {"create", "update"}, real : BOOLEAN, score : Scores, prev : Seq(Entry),
           stage : {"sent", "served", "refused", "over"}]

ListsAndCalls ==
    /\ row \in MaybeScore /\ all \in Seq(Entry)
    /\ fetch \in [stage : {"none", "asked", "read"}, seen : MaybeScore]
    /\ calls \in Seq(Queued) /\ typed \in Nat

(* A cell nobody is in holds what the list says, or no score at all. *)
CellOfTheList == ~focused /\ cell \in Scores => cell = ScoreOf(all)

Settled == \A i \in DOMAIN calls : calls[i].stage = "over"

(* A request that was answered has asked for the list again, so that what  *)
(* is read after the last of them is what they made.                       *)
ListOfTheServer ==
    Settled /\ ~behind =>
       /\ fetch.stage = "none" => ScoreOf(all) = row
       /\ fetch.stage = "read" => fetch.seen = row

CellInv == ListsAndCalls /\ CellOfTheList /\ ListOfTheServer

Quiet == ~focused /\ fetch.stage = "none" /\ \A i \in DOMAIN calls : calls[i].stage = "over"

(* Once everything has been answered, a cell that holds a score holds the  *)
(* server's, however requests, refusals and refetches overlapped: unless a *)
(* colleague's correction or a failed refetch left the list behind         *)
(* (GradeTable.tsx:309-315, lib/queries/grades.ts:40-110).                 *)
CellShowsServer ==
    Quiet /\ ~behind /\ cell \in Scores => cell = row

(* While somebody is in the cell nothing but typing changes it             *)
(* (GradeTable.tsx:309-311).                                               *)
TypingKept == focused /\ focused' /\ cell' # cell => typed' # typed
TypingIsKept == [][TypingKept]_vars

(* "Editing a cell autosaves (create or patch) on blur"                    *)
(* (GradeTable.tsx:26-29): what was left in the cell is the grade, unless  *)
(* the server refused it, the request was lost or a colleague corrected it.*)
EditingSaves == Quiet /\ wanted # NoScore => row = wanted
=============================================================================
