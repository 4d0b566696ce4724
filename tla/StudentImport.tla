------------------------------ MODULE StudentImport ----------------------------
(***************************************************************************)
(* Bringing in students from a file: what the dialog reads of it, what the *)
(* server makes of the rows, and the generated passwords, which are in one *)
(* answer and nowhere else.  The dialog is opened from the list of         *)
(* students or from the first steps of a new academy, and each does        *)
(* something else when it hears that it has worked.  A file is the         *)
(* sequence of its lines.                                                  *)
(***************************************************************************)
EXTENDS Naturals, Sequences, FiniteSets

CONSTANTS
    Students,       \* who may be in a file
    Twins,          \* those whose document another account already has
    Files,          \* the files at hand: "head", "blank", "unnamed", "badmail", or a student
    Places,         \* the places of the course they may be enrolled in
    MaxOpens, MaxImports, MaxFaults

VARIABLES
    modal,          \* the dialog
    reading,        \* the files being read for it
    calls,          \* the imports sent
    accounts, in,   \* who has an account, who is in the course
    faults

vars == <<modal, reading, calls, accounts, in, faults>>

Away == [shown |-> FALSE, from |-> "students", nth |-> 0, step |-> "upload",
         name |-> << >>, rows |-> {}, wrong |-> {}, crossed |-> FALSE, told |-> {}]

Init ==
    /\ modal = Away /\ reading = {} /\ calls = << >>
    /\ accounts \in SUBSET Students /\ in = {}
    /\ faults = 0

(* Blank lines are gone before the rows are counted. *)
Lines(file) == {k \in DOMAIN file : file[k] # "blank"}
Number(file, k) == Cardinality({j \in Lines(file) : j <= k})

Below(file) == {k \in Lines(file) : Number(file, k) > 1}
Headed(file) == \E k \in Lines(file) \ Below(file) : file[k] = "head"

Nothing == [rows |-> {}, wrong |-> {0}]
Refused(file) == {k \in Below(file) : file[k] \in {"unnamed", "badmail"}}
Rows(file) == {file[k] : k \in Below(file)} \cap Students

(* A slip: the heading is not counted. *)
ParsedFromOne(file) ==
    IF Below(file) = {} \/ ~Headed(file) THEN Nothing
    ELSE [rows |-> Rows(file), wrong |-> {Number(file, k) - 1 : k \in Refused(file)}]

(* A row without a name or a proper address is told by its number. *)
Parsed(file) ==
    IF Below(file) = {} \/ ~Headed(file) THEN Nothing
    ELSE [rows |-> Rows(file), wrong |-> {Number(file, k) : k \in Refused(file)}]

Open(from) ==
    /\ ~modal.shown /\ modal.nth < MaxOpens
    /\ modal' = [Away EXCEPT !.shown = TRUE, !.from = from, !.nth = modal.nth + 1]
    /\ UNCHANGED <<reading, calls, accounts, in, faults>>

Busy == \E i \in DOMAIN calls : calls[i].nth = modal.nth /\ calls[i].stage # "over"

(* Also while an import is on its way. *)
ChooseFile(file) ==
    /\ modal.shown /\ modal.step = "upload"
    /\ modal' = [modal EXCEPT !.name = file, !.rows = {}, !.wrong = {},
                              !.crossed = (reading # {})]
    /\ reading' = reading \cup {file}
    /\ UNCHANGED <<calls, accounts, in, faults>>

(* The files chosen one after another are read side by side; the one read  *)
(* last stands, but one with nothing below its heading leaves the rows.    *)
Load(file) ==
    /\ file \in reading
    /\ reading' = reading \ {file}
    /\ LET read == Parsed(file) IN
       modal' = [modal EXCEPT !.rows = IF 0 \in read.wrong THEN @ ELSE read.rows,
                              !.wrong = read.wrong]
    /\ UNCHANGED <<calls, accounts, in, faults>>

Submit(enrol) ==
    /\ modal.shown /\ modal.step = "upload" /\ modal.rows # {} /\ ~Busy
    /\ Len(calls) < MaxImports
    /\ calls' = Append(calls, [rows |-> modal.rows, named |-> modal.name, from |-> modal.from,
                               nth |-> modal.nth, enrol |-> enrol, stage |-> "sent",
                               made |-> {}, fate |-> "open"])
    /\ UNCHANGED <<modal, reading, accounts, in, faults>>

(* Row by row, each in its savepoint: who has an account is passed over,   *)
(* a document of another's is refused, and a course that is full keeps     *)
(* nobody from an account.                                                 *)
Serve(i) ==
    /\ calls[i].stage = "sent"
    /\ LET made == calls[i].rows \ (accounts \cup Twins)
           may == IF calls[i].enrol THEN (calls[i].rows \cap (accounts \cup made)) \ in ELSE {}
           free == Places - Cardinality(in)
       IN  /\ accounts' = accounts \cup made
           /\ calls' = [calls EXCEPT ![i].stage = "done", ![i].made = made]
           /\ \E new \in SUBSET may :
                 /\ Cardinality(new) = IF Cardinality(may) <= free THEN Cardinality(may) ELSE free
                 /\ in' = in \cup new
    /\ UNCHANGED <<modal, reading, faults>>

(* A slip: the list of students closes the dialog as the first steps do. *)
AnswerAndClose(i) ==
    /\ calls[i].stage = "done"
    /\ calls' = [calls EXCEPT ![i].stage = "over", ![i].fate = "heard"]
    /\ modal' = [Away EXCEPT !.nth = modal.nth]
    /\ reading' = {}
    /\ UNCHANGED <<accounts, in, faults>>

(* The results, with the passwords, take the place of the form.  The first *)
(* steps close the dialog in that very moment, so there they are not seen. *)
Answer(i) ==
    /\ calls[i].stage = "done"
    /\ LET open == modal.shown /\ modal.nth = calls[i].nth IN
       /\ calls' = [calls EXCEPT ![i].stage = "over",
                                 ![i].fate = IF open THEN "heard" ELSE "left"]
       /\ modal' = IF modal.from = "first steps" /\ calls[i].from = "first steps"
                   THEN [Away EXCEPT !.nth = modal.nth]
                   ELSE IF open THEN [modal EXCEPT !.step = "results", !.told = calls[i].made]
                   ELSE modal
       /\ reading' = IF modal'.shown THEN reading ELSE {}
    /\ UNCHANGED <<accounts, in, faults>>

(* Before it got there, or after it was carried out. *)
Lose(i) ==
    /\ calls[i].stage \in {"sent", "done"} /\ faults < MaxFaults
    /\ faults' = faults + 1
    /\ calls' = [calls EXCEPT ![i].stage = "over", ![i].fate = "lost"]
    /\ UNCHANGED <<modal, reading, accounts, in>>

(* Escape closes it even where the button is disabled; the results have    *)
(* then been seen.                                                         *)
Close ==
    /\ modal.shown
    /\ modal' = [Away EXCEPT !.nth = modal.nth] /\ reading' = {}
    /\ calls' = [i \in DOMAIN calls |->
                    IF calls[i].nth = modal.nth /\ calls[i].fate = "heard"
                    THEN [calls[i] EXCEPT !.fate = "seen"] ELSE calls[i]]
    /\ UNCHANGED <<accounts, in, faults>>

Next ==
    \/ Open("students") \/ Open("first steps") \/ Close
    \/ \E f \in Files : ChooseFile(f)
    \/ \E f \in reading : Load(f)
    \/ \E enrol \in BOOLEAN : Submit(enrol)
    \/ \E i \in DOMAIN calls : Serve(i) \/ Answer(i) \/ Lose(i)

Spec == Init /\ [][Next]_vars

-----------------------------------------------------------------------------
Froms == {"students", "first steps"}
Modals == [shown : BOOLEAN, from : Froms, nth : Nat, step : {"upload", "results"},
           name : Files \cup {<< >>}, rows : SUBSET Students, wrong : SUBSET Nat,
           crossed : BOOLEAN, told : SUBSET Students]
Imports == [rows : SUBSET Students, named : Files \cup {<< >>}, from : Froms, nth : Nat,
            enrol : BOOLEAN, stage : {"sent", "done", "over"}, made : SUBSET Students,
            fate : {"open", "heard", "left", "lost", "seen"}]

TypeOK ==
    /\ modal \in Modals /\ reading \subseteq Files /\ calls \in Seq(Imports)

(* An opening has one import under way, and while it has shows the form. *)
OneUnderWay ==
    /\ \A i \in DOMAIN calls :
          /\ calls[i].nth <= modal.nth
          /\ modal.shown /\ calls[i].nth = modal.nth => calls[i].from = modal.from
          /\ calls[i].stage # "over" =>
                /\ calls[i].fate = "open"
                /\ modal.shown /\ calls[i].nth = modal.nth => modal.step = "upload"
    /\ \A i, j \in DOMAIN calls :
          i # j /\ calls[i].stage # "over" /\ calls[j].stage # "over"
          => calls[i].nth # calls[j].nth

(* What is being read is the file that is named, but for those it crossed. *)
ReadsTheNamed ==
    /\ ~modal.shown => reading = {}
    /\ modal.shown /\ ~modal.crossed => reading \subseteq {modal.name}

(* "Al terminar podras descargarlas para entregarselas"                    *)
(* (StudentBulkImportModal.tsx:296-297): whoever was given a password in   *)
(* an answer that was heard is among the results on the screen, unless the *)
(* dialog was opened from the first steps.                                 *)
PasswordsInHand ==
    \A i \in DOMAIN calls :
        calls[i].fate = "heard" /\ calls[i].from = "students"
        => /\ modal.shown /\ modal.step = "results" /\ modal.nth = calls[i].nth
           /\ calls[i].made \subseteq modal.told

(* The rows on the screen are those of the file named above them, unless it *)
(* was chosen while another was being read, and a row is refused by the     *)
(* number it has in the file, unless there are blank lines before it.       *)
ShowsTheNamedFile ==
    modal.shown /\ ~modal.crossed =>
        /\ modal.rows # {} => modal.rows = Parsed(modal.name).rows
        /\ \A n \in modal.wrong \ {0} :
              (\A k \in 1..n : modal.name[k] # "blank") => modal.name[n] \in {"unnamed", "badmail"}

ImportInv ==
    TypeOK /\ OneUnderWay /\ ReadsTheNamed /\ PasswordsInHand /\ ShowsTheNamedFile
===============================================================================
