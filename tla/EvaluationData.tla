--------------------------- MODULE EvaluationData ---------------------------
(***************************************************************************)
(* The data sets of the offline evaluation (management/commands): drafted, *)
(* exported for review, imported, split into dev and test, frozen, run     *)
(* through retrieval and compared.  Commands hand files to each other that *)
(* people edit, and read them more than once.                              *)
(*                                                                         *)
(* A file is a set of rows; a hash is the content it is taken of.  What    *)
(* else a row holds, its evidence and its key points, is left out with the *)
(* checks of it, and so are --minimum-cases and the validating command,    *)
(* which writes nothing.                                                   *)
(***************************************************************************)
EXTENDS Naturals, FiniteSets

CONSTANTS
  Cases,       \* case ids
  Near,        \* the pairs of cases with nearly the same question
  MaxReports, MaxEdits   \* bounds on evaluations and on edits by hand

Missing == {}     \* a file that is there has rows
Written == {"draft", "approved", "dev", "test", "frozen"}
Splits  == {"dev", "test"}

VARIABLES
  file,       \* the files; a row has a case id, a split and a review status
  review,     \* the review package: rows with a decision, "" when there is none
  command,    \* the command that has read its input, or "none"
  cases,      \* the cases that it has read
  source,     \* the file they are from
  reports,    \* a report: the data set's hash, and the cases it is about
  compared,   \* the two reports that were last compared
  edits,      \* auxiliary: edits by hand
  crossed     \* auxiliary: a file was edited while a command read it

vars == <<file, review, command, cases, source, reports, compared, edits, crossed>>

Init ==
  /\ file = [f \in Written |-> Missing] /\ review = Missing
  /\ command = "none" /\ cases = {} /\ source = "draft"
  /\ reports = {} /\ compared = {}
  /\ edits = 0 /\ crossed = FALSE

-----------------------------------------------------------------------------
Duplicates(c, d) == c = d \/ {c, d} \in Near
Exists(f)        == file[f] # Missing
Of(rows, split)  == {r \in rows : r.split = split}
Approved(rows)   == \A r \in rows : r.status = "HUMAN_APPROVED"

\* Fault: only the ids of the cases are compared.
ValidIds(rows) == rows # {} /\ \A r, s \in rows : r # s => r.case # s.case

(* load_stage11_cases: no question twice, nor nearly.                      *)
Valid(rows) == rows # {} /\ \A r, s \in rows : r # s => ~Duplicates(r.case, s.case)

(* A command that ends with what it has validated, or without it: the file *)
(* that was there before is gone.                                          *)
WriteIfValid(f, rows) ==
  file' = [file EXCEPT ![f] = IF Valid(rows) THEN rows ELSE Missing]

Idle == command = "none"
Read(name, f) ==
  /\ Idle /\ Exists(f)
  /\ command' = name /\ cases' = file[f] /\ source' = f
  /\ crossed' = FALSE
  /\ UNCHANGED <<file, review, reports, compared, edits>>
Done == command' = "none" /\ cases' = {} /\ source' = "draft" /\ crossed' = FALSE

Generate ==
  /\ Idle /\ ~Exists("draft")
  /\ \E S \in SUBSET Cases, split \in [Cases -> Splits] :
       WriteIfValid("draft", {[case |-> c, split |-> split[c], status |-> "AUTO_DRAFT"] : c \in S})
  /\ UNCHANGED <<review, command, cases, source, reports, compared, edits, crossed>>

Export ==
  /\ Idle /\ Exists("draft") /\ Valid(file["draft"])
  /\ review' = {[row |-> r, decision |-> ""] : r \in file["draft"]}
  /\ UNCHANGED <<file, command, cases, source, reports, compared, edits, crossed>>

(* A person fills in the decisions.                                        *)
Decide ==
  /\ review # Missing /\ \A x \in review : x.decision = ""
  /\ \E decide \in [review -> {"APPROVE", "REJECT"}] :
       review' = {[x EXCEPT !.decision = decide[x]] : x \in review}
  /\ UNCHANGED <<file, command, cases, source, reports, compared, edits, crossed>>

Import ==
  /\ Idle /\ review # Missing
  /\ \A x \in review : x.decision # ""
  /\ LET rows == {[x.row EXCEPT !.status = "HUMAN_APPROVED"] :
                    x \in {y \in review : y.decision = "APPROVE"}}
     IN rows # {} /\ WriteIfValid("approved", rows)
  /\ UNCHANGED <<review, command, cases, source, reports, compared, edits, crossed>>

SplitRead ==
  /\ ~Exists("dev") /\ ~Exists("test")
  /\ Read("split", "approved")
  /\ Valid(cases') /\ Approved(cases')

(* The file is read again; one output is written after the other.          *)
SplitWrite ==
  /\ command = "split"
  /\ LET rows == file["approved"]
         dev  == Of(rows, "dev")
         test == Of(rows, "test")
     IN IF Cardinality(rows) = Cardinality(cases) /\ dev # {} /\ test # {}
        THEN file' = [file EXCEPT !["dev"] = dev, !["test"] = test]
             \/ file' = [file EXCEPT !["dev"] = dev]     \* it dies in between
        ELSE UNCHANGED file
  /\ Done
  /\ UNCHANGED <<review, reports, compared, edits>>

(* --dataset may name any file; --dev-dataset is optional.                 *)
FreezeRead ==
  /\ ~Exists("frozen")
  /\ \E f \in {"approved", "test"} : Read("freeze", f)
  /\ Valid(cases') /\ Approved(cases')
  /\ Of(cases', "test") = cases'
  /\ \E check \in BOOLEAN : check => 
       /\ Exists("dev") /\ Valid(file["dev"]) /\ Approved(file["dev"])
       /\ Of(file["dev"], "dev") = file["dev"]
       /\ \A r \in file["dev"], s \in cases' : ~Duplicates(r.case, s.case)

FreezeWrite ==
  /\ command = "freeze"
  /\ file' = [file EXCEPT !["frozen"] = file[source]]
  /\ Done
  /\ UNCHANGED <<review, reports, compared, edits>>

(* Without --allow-dev only cases that people approved are run, with it    *)
(* none of the test.                                                       *)
EvaluateRead ==
  /\ Cardinality(reports) < MaxReports
  /\ \E f \in Written : Read("evaluate", f)
  /\ Valid(cases')
  /\ Approved(cases') \/ Of(cases', "test") = {}

EvaluateReport ==
  /\ command = "evaluate"
  /\ reports' = reports \cup {[hash |-> file[source], cases |-> cases, crossed |-> crossed]}
  /\ Done
  /\ UNCHANGED <<file, review, compared, edits>>

\* Fault: whatever two reports are named are compared.
CompareAny ==
  /\ Idle
  /\ \E a, b \in reports : compared' = {a, b}
  /\ UNCHANGED <<file, review, command, cases, source, reports, edits, crossed>>

Compare ==
  /\ Idle
  /\ \E a, b \in reports : a.hash = b.hash /\ compared' = {a, b}
  /\ UNCHANGED <<file, review, command, cases, source, reports, edits, crossed>>

(* A person puts another case in the place of a row's.                     *)
Edit ==
  /\ edits < MaxEdits /\ edits' = edits + 1
  /\ \E f \in {g \in Written : Exists(g)} :
       /\ \E r \in file[f], c \in Cases :
            r.case # c /\ file' = [file EXCEPT ![f] = (@ \ {r}) \cup {[r EXCEPT !.case = c]}]
       /\ crossed' = (crossed \/ (~Idle /\ f = source))
  /\ UNCHANGED <<review, command, cases, source, reports, compared>>

Next ==
  \/ Generate \/ Export \/ Decide \/ Import \/ SplitRead \/ SplitWrite
  \/ FreezeRead \/ FreezeWrite \/ EvaluateRead \/ EvaluateReport
  \/ Compare \/ Edit

Spec == Init /\ [][Next]_vars

-----------------------------------------------------------------------------
(* As long as nobody edits a file, whatever is reviewed, imported again or *)
(* frozen from elsewhere, the frozen test asks nothing that dev asks.      *)
FrozenTestIsBlind ==
  edits = 0 /\ Exists("frozen") /\ Exists("dev") =>
    \A r \in file["frozen"], s \in file["dev"] : ~Duplicates(r.case, s.case)

(* Two reports that were compared are about the same cases, unless a file  *)
(* was edited between the reading of the cases and the hash.               *)
LikeIsComparedWithLike ==
  \A a, b \in compared : a.crossed \/ b.crossed \/ a.cases = b.cases

(* The inductive invariant.  As long as nobody edits a file, all rows are   *)
(* rows of one valid draft, with their split; and a command writes what it *)
(* has validated.                                                          *)
Row == [case : Cases, split : Splits, status : {"AUTO_DRAFT", "HUMAN_APPROVED"}]

TypeOK ==
  /\ file \in [Written -> SUBSET Row]
  /\ review \in SUBSET [row : Row, decision : {"", "APPROVE", "REJECT"}]
  /\ command \in {"none", "split", "freeze", "evaluate"}
  /\ cases \in SUBSET Row /\ source \in Written
  /\ reports \in SUBSET [hash : SUBSET Row, cases : SUBSET Row, crossed : BOOLEAN]
  /\ compared \in SUBSET reports
  /\ edits \in Nat /\ crossed \in BOOLEAN

Drafted(r) == \E d \in file["draft"] : d.case = r.case /\ d.split = r.split

RowsAreDrafted ==
  /\ Exists("draft") => Valid(file["draft"])
  /\ \A f \in Written : \A r \in file[f] : Drafted(r)
  /\ \A x \in review : Drafted(x.row)

FilesAreSplit ==
  /\ \A r \in file["dev"] : r.split = "dev"
  /\ \A r \in file["frozen"] : r.split = "test"
  /\ command = "freeze" => \A r \in cases : r.split = "test"

UntouchedIsRead == ~Idle /\ ~crossed => cases = file[source]
CrossedByEdits  == edits = 0 => ~crossed

ReportsNameTheirCases == \A a \in reports : a.crossed \/ a.cases = a.hash
ComparedAreEqual      == \A a, b \in compared : a.hash = b.hash

IInv ==
  /\ TypeOK /\ UntouchedIsRead /\ CrossedByEdits /\ ReportsNameTheirCases /\ ComparedAreEqual
  /\ edits = 0 => RowsAreDrafted /\ FilesAreSplit
=============================================================================
