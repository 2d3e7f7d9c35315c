------------------------------- MODULE Materials -------------------------------
(***************************************************************************)
(* What is in the files a job is applied with: stages/tailor.py and        *)
(* stages/cover_letter.py have the LLM write them, check what it wrote,    *)
(* have it tried once more, and render the files before the row moves on;  *)
(* scripts/verify_letters.py looks at the rendered letters afterwards.     *)
(*                                                                         *)
(* One job.  The files are on disk under its id, and outside of the        *)
(* compare-and-set that the row is committed by (StageCommit): whoever     *)
(* works on the job writes them, also one whose result is discarded.       *)
(*                                                                         *)
(* A résumé is the set of the facts in it and a summary, the base's or one *)
(* that the model wrote, which nothing checks.  Of a letter two things     *)
(* matter: whether it claims a language beyond the candidate's level       *)
(* without saying so, and what it has of the model's talk about it.        *)
(***************************************************************************)
EXTENDS Naturals

CONSTANTS Facts,       \* the facts of the base résumé
          Optional,    \* those that a selection may drop
          Inventions,  \* facts that are not in it
          Replies,     \* what the model answers to a tailoring prompt
          Workers,     \* threads and processes that tailor or write letters
          MaxMarks     \* bound: times a human sets the status

ASSUME MaterialsAssumption ==
    Optional \subseteq Facts /\ Facts \cap Inventions = {} /\ MaxMarks \in Nat

VARIABLES status,    \* jobs.status
          selects,   \* the base résumé is a master that the LLM selects from
          resume,    \* resume.pdf: what is rendered
          kept,      \* resume.tailored.yaml, which provenance attests the PDF by
          letter,    \* cover_letter.pdf
          worker,    \* worker[w]: the stage it is in, where, and what it holds
          checker,   \* where verify_letters is
          checked,   \* history: the letter on disk was passed by verify_letters
          crossed,   \* history: the stages that two workers were in at once
          vouched,   \* history: the stages whose work a human vouched for instead
          marks      \* what MaxMarks bounds, so far

materialVars == <<status, selects, resume, kept, letter, worker, checker, checked,
                  crossed, vouched, marks>>
filesVars == <<resume, kept, letter>>

\* Set aside: needs_human, or failed.
Statuses == {"scored", "tailored", "covered", "set aside"}
Stages == {"tailor", "cover"}
Expects(stage) == IF stage = "tailor" THEN "scored" ELSE "tailored"
Produces(stage) == IF stage = "tailor" THEN "tailored" ELSE "covered"

Resumes == [facts : SUBSET (Facts \union Inventions), summary : {"base", "written"}]
NoResume == [facts |-> {}, summary |-> "no file"]

\* Of a reply: the facts of the data in it; whose summary it has; whether all facts are
\* mentioned somewhere in it; whether it is YAML, and of a résumé.
AllReplies == {r \in [facts : SUBSET (Facts \union Inventions), summary : {"base", "written"},
                      mentions : BOOLEAN, form : {"resume", "yaml", "prose"}] :
                  /\ Facts \subseteq r.facts => r.mentions
                  /\ r.form # "resume" => r.facts = {}}

ASSUME RepliesAssumption == Replies \subseteq AllReplies

\* What strip_model_preamble leaves of a draft: it trims marked lines at both ends, so
\* that any talk may be left.  It is telling if verify_letters recognises it, or that the
\* letter is cut short; it is unseen if there is none, or in words that it does not know
\* or further down than it looks.
Letters == [overclaims : BOOLEAN, talk : {"unseen", "telling"}]
NoLetter == [overclaims |-> FALSE, talk |-> "no file"]

NoWork == [stage |-> "none", at |-> "idle", try |-> 1, resume |-> NoResume,
           letter |-> NoLetter, verdict |-> "none"]

MaterialsInit ==
    /\ status = "scored"
    /\ selects \in BOOLEAN
    /\ resume = NoResume /\ kept = NoResume /\ letter = NoLetter
    /\ worker = [w \in Workers |-> NoWork]
    /\ checker = "off"
    /\ checked = FALSE
    /\ crossed = {} /\ vouched = {}
    /\ marks = 0

Works(w, stage, at) == worker[w].stage = stage /\ worker[w].at = at

\* run_stage_on_job: the job is read, and worked on if it is at the stage.
ReadJob(w, stage) ==
    /\ worker[w].at = "idle"
    /\ status = Expects(stage)
    /\ worker' = [worker EXCEPT ![w] = [NoWork EXCEPT !.stage = stage, !.at = "ask"]]
    /\ crossed' = IF \E v \in Workers : worker[v].stage = stage
                  THEN crossed \union {stage} ELSE crossed
    /\ UNCHANGED <<status, selects, filesVars, checker, checked, vouched, marks>>

\* The work of a stage is over; what is left is to commit its verdict.
Done(w, verdict) ==
    [worker EXCEPT ![w] = [NoWork EXCEPT !.stage = worker[w].stage, !.at = "commit",
                                       !.verdict = verdict]]

\* The work raises, or no résumé or base fits: nothing is rendered.
GiveUp(w) ==
    /\ worker[w].at \in {"ask", "kept", "render"}
    /\ worker' = Done(w, "set aside")
    /\ UNCHANGED <<status, selects, filesVars, checker, checked, crossed, vouched, marks>>

-----------------------------------------------------------------------------
(* Tailoring *)

\* validate_selection: nothing that is not in the master, and all that is not optional.
SelectionAccepted(r) ==
    r.form = "resume" /\ r.facts \subseteq Facts /\ Facts \ Optional \subseteq r.facts

\* validate_immutable_facts: every fact is somewhere in the text.
FactsAccepted(r) == r.mentions

Accepted(r) == IF selects THEN SelectionAccepted(r) ELSE FactsAccepted(r)

\* Mutated form of AskAgain: what comes of the retry is taken as it is.
TakeReply_Retried(w, r) == Accepted(r) \/ worker[w].try = 2

TakeReply(w, r) == Accepted(r)

\* What is rendered of an accepted answer: the facts it has, or all if it has none, and
\* its summary, whatever that says.
Tailored(r) == [facts |-> IF r.facts = {} THEN Facts ELSE r.facts, summary |-> r.summary]

\* _tailor_one: an answer is refused, and asked for once more, then left to a human;
\* prose in the place of YAML goes to a human at once, if the facts are in it.
AskTailor(w) ==
    /\ Works(w, "tailor", "ask")
    /\ \E r \in Replies :
          worker' =
             CASE TakeReply(w, r) /\ r.form # "prose" ->
                      [worker EXCEPT ![w].at = "kept", ![w].resume = Tailored(r)]
               [] TakeReply(w, r) /\ r.form = "prose" ->
                      Done(w, "set aside")
               [] OTHER ->
                      IF worker[w].try = 1 THEN [worker EXCEPT ![w].try = 2]
                      ELSE Done(w, "set aside")
    /\ UNCHANGED <<status, selects, filesVars, checker, checked, crossed, vouched, marks>>

\* Mutated form of WriteKept: an earlier file is left.
WriteKept_Once(w) ==
    /\ Works(w, "tailor", "kept")
    /\ kept' = IF kept = NoResume THEN worker[w].resume ELSE kept
    /\ worker' = [worker EXCEPT ![w].at = "render"]
    /\ UNCHANGED <<status, selects, resume, letter, checker, checked, crossed, vouched, marks>>

\* The selection is written, and then the PDF is rendered.
WriteKept(w) ==
    /\ Works(w, "tailor", "kept")
    /\ kept' = worker[w].resume
    /\ worker' = [worker EXCEPT ![w].at = "render"]
    /\ UNCHANGED <<status, selects, resume, letter, checker, checked, crossed, vouched, marks>>

RenderResume(w) ==
    /\ Works(w, "tailor", "render")
    /\ resume' = worker[w].resume
    /\ worker' = Done(w, "tailored")
    /\ UNCHANGED <<status, selects, kept, letter, checker, checked, crossed, vouched, marks>>

-----------------------------------------------------------------------------
(* Letters *)

\* validate_cover_letter: a language claimed beyond the candidate's level, in a sentence
\* that does not say what that level is.
Overclaims(l) == l.overclaims

\* _cover_one: a draft that claims too much is refused, once more, then left to a human.
AskLetter(w) ==
    /\ Works(w, "cover", "ask")
    /\ \E l \in Letters :
          worker' = CASE ~Overclaims(l) ->
                             [worker EXCEPT ![w].at = "render", ![w].letter = l]
                      [] Overclaims(l) /\ worker[w].try = 1 -> [worker EXCEPT ![w].try = 2]
                      [] OTHER ->
                             Done(w, "set aside")
    /\ UNCHANGED <<status, selects, filesVars, checker, checked, crossed, vouched, marks>>

RenderLetter(w) ==
    /\ Works(w, "cover", "render")
    /\ letter' = worker[w].letter
    /\ worker' = Done(w, "covered")
    /\ UNCHANGED <<status, selects, resume, kept, checker, checked, crossed, vouched, marks>>

\* commit_if_status: the row moves if it is where it was read, else the result is
\* dropped; the files are as they are.
CommitStage(w) ==
    LET stage == worker[w].stage
        verdict == worker[w].verdict
        moves == status = Expects(stage)
    IN  /\ worker[w].at = "commit"
        /\ status' = IF moves THEN verdict ELSE status
        /\ checked' = (checked /\ ~moves)
        /\ vouched' = IF moves /\ verdict = Produces(stage) THEN vouched \ {stage} ELSE vouched
        /\ worker' = [worker EXCEPT ![w] = NoWork]
        /\ UNCHANGED <<selects, filesVars, checker, crossed, marks>>

\* A worker dies with its process.
Die(w) ==
    /\ worker[w].at # "idle"
    /\ worker' = [worker EXCEPT ![w] = NoWork]
    /\ UNCHANGED <<status, selects, filesVars, checker, checked, crossed, vouched, marks>>

-----------------------------------------------------------------------------
(* Provenance, verify_letters, and the human *)

\* attest_job: the claims a résumé is attested by ...
Claims == IF selects /\ kept # NoResume THEN kept.facts ELSE Facts

\* ... and attest: those that are not in the PDF.
Unverified == Claims \ resume.facts

\* The phrases and the narration that verify_letters looks for, or no file.
Suspicious(l) == l.talk \in {"telling", "no file"}

\* The covered jobs are loaded ...
VerifyLoads ==
    /\ checker = "off" /\ status = "covered"
    /\ checker' = "loaded"
    /\ UNCHANGED <<status, selects, filesVars, worker, checked, crossed, vouched, marks>>

\* ... then the PDFs are read ...
VerifyReads ==
    /\ checker = "loaded"
    /\ checked' = ~Suspicious(letter)
    /\ checker' = IF Suspicious(letter) THEN "offender" ELSE "off"
    /\ UNCHANGED <<status, selects, filesVars, worker, crossed, vouched, marks>>

\* ... and then an offender goes to a human, whatever became of it meanwhile.
VerifyRoutes ==
    /\ checker = "offender"
    /\ status' = "set aside"
    /\ checked' = FALSE
    /\ checker' = "off"
    /\ UNCHANGED <<selects, filesVars, worker, crossed, vouched, marks>>

\* honestapply mark: a human sets any status whatever it was, and so vouches for the
\* work of the stages that it says are over.
Mark ==
    /\ marks < MaxMarks /\ marks' = marks + 1
    /\ status' \in Statuses \ {status}
    /\ checked' = FALSE
    /\ vouched' = vouched \union
          CASE status' = "tailored" -> {"tailor"} [] status' = "covered" -> Stages [] OTHER -> {}
    /\ UNCHANGED <<selects, filesVars, worker, checker, crossed>>

MaterialsNext ==
    \/ \E w \in Workers :
          \/ \E stage \in Stages : ReadJob(w, stage)
          \/ GiveUp(w) \/ CommitStage(w) \/ Die(w)
          \/ AskTailor(w) \/ WriteKept(w) \/ RenderResume(w)
          \/ AskLetter(w) \/ RenderLetter(w)
    \/ VerifyLoads \/ VerifyReads \/ VerifyRoutes \/ Mark

MaterialsSpec == MaterialsInit /\ [][MaterialsNext]_materialVars

-----------------------------------------------------------------------------
MaterialsTypeOK ==
    /\ status \in Statuses
    /\ selects \in BOOLEAN
    /\ {resume, kept} \subseteq Resumes \union {NoResume}
    /\ letter \in Letters \union {NoLetter}
    /\ worker \in [Workers -> [stage : Stages \union {"none"},
                               at : {"idle", "ask", "kept", "render", "commit"},
                               try : {1, 2}, resume : Resumes \union {NoResume},
                               letter : Letters \union {NoLetter},
                               verdict : {"none", "tailored", "covered", "set aside"}]]
    /\ checker \in {"off", "loaded", "offender"}
    /\ checked \in BOOLEAN
    /\ crossed \subseteq Stages /\ vouched \subseteq Stages
    /\ marks \in 0..MaxMarks

\* tailor.py:18-22: whoever wrote it last, and whatever became of the row, the résumé of
\* a master has no fact that is not in it and all that must be; and a job is tailored
\* with one on disk, unless a human said that it is.  Its summary is not checked.
ResumeWasChecked ==
    /\ selects /\ resume # NoResume =>
           resume.facts \subseteq Facts /\ Facts \ Optional \subseteq resume.facts
    /\ status \in {"tailored", "covered"} => resume # NoResume \/ "tailor" \in vouched

\* cover_letter.py:398: whoever wrote it last, a letter claims no language beyond the
\* candidate's level; and a job is covered with one, unless a human said that it is.
LetterWasChecked ==
    /\ ~letter.overclaims
    /\ status = "covered" => letter # NoLetter \/ "cover" \in vouched

\* verify_letters.py:3-7: the letter of a job it passed stays one that it would pass, for
\* as long as the job stays where it is, unless two workers wrote letters at once or one
\* did under a human's mark.
PassedStaysClean ==
    \/ "cover" \in crossed \union vouched
    \/ checked /\ status = "covered" => letter.talk = "unseen"

\* The files of a job have been through the checks there are, although they are written
\* outside of the compare-and-set, a loser's stay, and a human may set any status.
FilesWereChecked == ResumeWasChecked /\ LetterWasChecked /\ PassedStaysClean

\* tailor.py:454-455: the selection that provenance attests a résumé by is the one it
\* was rendered from, and of a master every claim is found in the PDF, unless two
\* workers tailored at once, one is at it again, or a human said that it is tailored.
KeptIsRendered ==
    \/ "tailor" \in crossed \union vouched
    \/ \E w \in Workers : worker[w].stage = "tailor"
    \/ status \in {"tailored", "covered"} => kept = resume /\ (selects => Unverified = {})
=============================================================================
