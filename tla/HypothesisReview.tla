--------------------------- MODULE HypothesisReview ---------------------------
(* The review of the strategy: a language model proposes hypotheses, each of high *)
(* priority is planned, its data are fetched and computed by generated code, and  *)
(* the language model judges it. What was found is a feedback file, which later   *)
(* runs read again: a deep dive takes up what was left open, the next proposal is *)
(* told the newest result of every title. Whatever the language model answers, it *)
(* may also raise or not be parsed; the process may die.                          *)
EXTENDS Integers, FiniteSets, Sequences, SequencesExt, ListComprehension

CONSTANTS
    Proposals,      \* reports of the language model: sequences of [title, id, high]
    MaxReviews      \* runs

Hypothesis == UNION {Range(proposal) : proposal \in Proposals}

ASSUME ReviewAssumption ==
    /\ MaxReviews \in Nat
    /\ \A proposal \in Proposals : proposal \in Seq(Hypothesis)
    /\ \A h \in Hypothesis : h \in [title : {h.title}, id : {h.id}, high : BOOLEAN]

VARIABLES
    reviewsLeft, mode,          \* mode: "pipeline", "deep_dive", "adhoc"
    reviewStep,                 \* "idle", "propose", "plan", "data", "code", "judge", "tell"
    report,                     \* proposed last
    queue, setAside,            \* still to be verified, and left out for their priority
    directories,                \* ids whose directory this run has made
    plan, obtained, executed,   \* of the hypothesis at hand: plan, fetched index data, code
    findings,                   \* of this run
    feedback,                   \* of the finished runs, oldest first: [run, items]
    previous,                   \* what a deep dive was given of an earlier run
    reviewTold,                 \* last notification
    costed                      \* <<run, hypothesis>> the language model was asked about (ghost)

reviewVars == <<reviewsLeft, mode, reviewStep, report, queue, setAside, directories, plan, obtained,
                executed, findings, feedback, previous, reviewTold, costed>>

NoPlan == [internal |-> FALSE, indices |-> FALSE]
Nothing == [status |-> "none"]
ModelAnswer == {"supported", "rejected", "needs_data", "none"}
Quiet == [of |-> "nothing"]
Run == MaxReviews - reviewsLeft

\* Mutant: whatever was not judged is taken up, what was only left out included.
StillOpenUnjudged(item) == item.status # "judged" \/ item.verdict = "needs_data"

\* What a deep dive takes up again.
StillOpen(item) == item.verdict = "needs_data" \/ item.status = "unverifiable"

\* The newest feedback with an open item of this title.
LastOpen(title) ==
    LET runs == {f \in Range(feedback) :
                    \E item \in Range(f.items) : item.title = title /\ StillOpen(item)}
    IN  IF runs = {} THEN Nothing
        ELSE [status |-> "found", title |-> title,
              of |-> (CHOOSE f \in runs : \A g \in runs : g.run <= f.run).run]

-----------------------------------------------------------------------------

ReviewInit ==
    /\ reviewsLeft = MaxReviews /\ mode = "pipeline" /\ reviewStep = "idle"
    /\ report = <<>> /\ queue = <<>> /\ setAside = <<>> /\ directories = {}
    /\ plan = NoPlan /\ obtained = FALSE /\ executed = "not_requested"
    /\ findings = <<>> /\ feedback = <<>> /\ previous = Nothing /\ reviewTold = Quiet /\ costed = {}

caseVars == <<plan, obtained, executed>>

\* What a run has in memory is gone when it ends.
Clear == /\ queue' = <<>> /\ setAside' = <<>> /\ directories' = {} /\ findings' = <<>>
         /\ previous' = Nothing /\ plan' = NoPlan /\ obtained' = FALSE /\ executed' = "not_requested"

StartReview ==
    /\ reviewStep = "idle" /\ reviewsLeft > 0
    /\ reviewsLeft' = reviewsLeft - 1
    /\ mode' = "pipeline" /\ reviewStep' = "propose"
    /\ reviewTold' = Quiet
    /\ UNCHANGED <<report, queue, setAside, directories, caseVars, findings, feedback, previous, costed>>

FreeText == [title |-> "text", id |-> 1, high |-> TRUE]

\* A run of the verification alone: hypotheses of one id of the last report, or a free text.
StartAlone(how, id) ==
    /\ reviewStep = "idle" /\ reviewsLeft > 0
    /\ how = "deep_dive" => \E i \in DOMAIN report : report[i].id = id
    /\ reviewsLeft' = reviewsLeft - 1
    /\ mode' = how /\ reviewStep' = "plan"
    /\ queue' = IF how = "deep_dive" THEN Picked(report, {h \in Range(report) : h.id = id})
                ELSE <<FreeText>>
    /\ reviewTold' = Quiet
    /\ UNCHANGED <<report, setAside, directories, caseVars, findings, feedback, previous, costed>>

Abort(stage) ==
    /\ reviewStep' = "idle" /\ Clear
    /\ reviewTold' = IF mode = "pipeline" THEN [of |-> "failure", stage |-> stage] ELSE reviewTold
    /\ UNCHANGED <<reviewsLeft, mode, feedback>>

ProposalFails == reviewStep = "propose" /\ Abort("proposal") /\ UNCHANGED <<report, costed>>

\* Mutant: everything is verified.
UrgentAll(proposal) == proposal

\* Only high priority is verified, the rest is left out.
Urgent(proposal) == Picked(proposal, {h \in Range(proposal) : h.high})

\* The report is written, read again and split by priority.
Propose(proposal) ==
    /\ reviewStep = "propose"
    /\ report' = proposal
    /\ queue' = Urgent(proposal)
    /\ setAside' = Picked(proposal, {h \in Range(proposal) : ~h.high})
    /\ reviewStep' = "plan"
    /\ UNCHANGED <<reviewsLeft, mode, directories, caseVars, findings, feedback, previous, reviewTold, costed>>

\* Every case has a directory of its own, made when it is taken up or left out.
Distinct == {setAside[i].id : i \in DOMAIN setAside} \cap directories = {}
            /\ \A i, j \in DOMAIN setAside : setAside[i].id = setAside[j].id => i = j

\* One with that id is there already: the whole run ends without a feedback.
Collides ==
    /\ reviewStep = "plan"
    /\ IF queue # <<>> THEN Head(queue).id \in directories ELSE ~Distinct
    /\ Abort("verification")
    /\ UNCHANGED <<report, costed>>

\* The case is closed: its result is written whatever happened.
SettleCase(status, verdict, needed) ==
    /\ findings' = Append(findings, [title |-> Head(queue).title, id |-> Head(queue).id,
                                   status |-> status, verdict |-> verdict,
                                   needed |-> needed, ran |-> executed', found |-> obtained'])
    /\ queue' = Tail(queue)
    /\ reviewStep' = "plan"
    /\ plan' = NoPlan

\* The plan asks for computations over the own data, for index data, for both or for neither.
MakePlan(internal, indices) ==
    /\ reviewStep = "plan" /\ queue # <<>> /\ Head(queue).id \notin directories
    /\ directories' = directories \cup {Head(queue).id}
    /\ previous' = IF mode = "deep_dive" THEN LastOpen(Head(queue).title) ELSE Nothing
    /\ costed' = costed \cup {<<Run, Head(queue)>>}
    /\ plan' = [internal |-> internal, indices |-> indices]
    /\ obtained' = FALSE /\ executed' = "not_requested"
    /\ reviewStep' = IF indices THEN "data" ELSE IF internal THEN "code" ELSE "judge"
    /\ UNCHANGED <<reviewsLeft, mode, report, queue, setAside, findings, feedback, reviewTold>>

PlanFails ==
    /\ reviewStep = "plan" /\ queue # <<>> /\ Head(queue).id \notin directories
    /\ directories' = directories \cup {Head(queue).id}
    /\ previous' = IF mode = "deep_dive" THEN LastOpen(Head(queue).title) ELSE Nothing
    /\ costed' = costed \cup {<<Run, Head(queue)>>}
    /\ obtained' = FALSE /\ executed' = "generation_failed"
    /\ SettleCase("unverifiable", "needs_data", FALSE)
    /\ UNCHANGED <<reviewsLeft, mode, report, setAside, feedback, reviewTold>>

\* Every index is asked for; a failing one does not hinder the others.
LoadIndexData(some) ==
    /\ reviewStep = "data"
    /\ obtained' = some
    /\ reviewStep' = IF plan.internal THEN "code" ELSE "judge"
    /\ UNCHANGED <<reviewsLeft, mode, report, queue, setAside, directories, plan, executed, findings,
                   feedback, previous, reviewTold, costed>>

\* The code is generated, checked and run with a time limit.
RunCode(outcome) ==
    /\ reviewStep = "code"
    /\ executed' = outcome
    /\ reviewStep' = "judge"
    /\ UNCHANGED <<reviewsLeft, mode, report, queue, setAside, directories, plan, obtained, findings,
                   feedback, previous, reviewTold, costed>>

CodeFails ==
    /\ reviewStep = "code"
    /\ executed' = "generation_failed" /\ UNCHANGED obtained
    /\ SettleCase("unverifiable", "needs_data", plan.internal)
    /\ UNCHANGED <<reviewsLeft, mode, report, setAside, directories, feedback, previous, reviewTold, costed>>

\* Mutant: only index data that were asked for can be missing.
HopelessWithIndices == plan.internal /\ executed # "succeeded" /\ plan.indices /\ ~obtained

\* Nothing to judge: the computation failed, and no index data were asked for or none came.
Hopeless ==
    /\ plan.internal /\ executed # "succeeded"
    /\ plan.indices => ~obtained

\* The language model judges; an answer that cannot be parsed leaves the case open.
Pronounce(answer) ==
    /\ reviewStep = "judge"
    /\ UNCHANGED obtained
    /\ executed' = IF answer = "none" /\ executed = "not_requested" /\ ~Hopeless
                   THEN "generation_failed" ELSE executed
    /\ IF Hopeless \/ answer = "none"
       THEN SettleCase("unverifiable", "needs_data", plan.internal)
       ELSE SettleCase("judged", answer, plan.internal)
    /\ UNCHANGED <<reviewsLeft, mode, report, setAside, directories, feedback, previous, reviewTold, costed>>

\* All are verified: the rest is noted as untested and the feedback is written.
Untested(h) == [title |-> h.title, id |-> h.id, status |-> "untested", verdict |-> "untested",
                needed |-> FALSE, ran |-> "not_requested", found |-> FALSE]

Summary(result) == [title |-> result.title, id |-> result.id, status |-> result.status, verdict |-> result.verdict]

WriteFeedback ==
    /\ reviewStep = "plan" /\ queue = <<>>
    /\ Distinct
    /\ LET all == findings \o [i \in DOMAIN setAside |-> Untested(setAside[i])]
       IN  /\ findings' = all
           /\ feedback' = Append(feedback, [run |-> Run,
                                            items |-> [i \in DOMAIN all |-> Summary(all[i])]])
    /\ setAside' = <<>>
    /\ reviewStep' = "tell"
    /\ UNCHANGED <<reviewsLeft, mode, report, queue, directories, caseVars, previous, reviewTold, costed>>

Number(status) == Cardinality({i \in DOMAIN findings : findings[i].status = status})

\* Mutant: the verdicts of all findings are counted, not of the judged ones.
VerdictCountOfAll(verdict) == Cardinality({i \in DOMAIN findings : findings[i].verdict = verdict})

VerdictCount(verdict) ==
    Cardinality({i \in DOMAIN findings : findings[i].status = "judged" /\ findings[i].verdict = verdict})

\* Of a pipeline the numbers are told, with a summary of the language model when there is one.
TellReview(summarized) ==
    /\ reviewStep = "tell"
    /\ reviewStep' = "idle" /\ Clear
    /\ reviewTold' = IF mode # "pipeline" THEN reviewTold
               ELSE [of |-> "result", total |-> Len(findings), judged |-> Number("judged"),
                     unverifiable |-> Number("unverifiable"), untested |-> Number("untested"),
                     supported |-> VerdictCount("supported"), rejected |-> VerdictCount("rejected"),
                     open |-> VerdictCount("needs_data"), summary |-> summarized]
    /\ UNCHANGED <<reviewsLeft, mode, report, feedback, costed>>

ReviewDies ==
    /\ reviewStep # "idle"
    /\ reviewStep' = "idle" /\ Clear
    /\ UNCHANGED <<reviewsLeft, mode, report, feedback, reviewTold, costed>>

ReviewNext ==
    \/ StartReview
    \/ \E how \in {"deep_dive", "adhoc"}, id \in 1..2 : StartAlone(how, id)
    \/ ProposalFails
    \/ \E proposal \in Proposals : Propose(proposal)
    \/ Collides
    \/ \E internal, indices \in BOOLEAN : MakePlan(internal, indices)
    \/ PlanFails
    \/ \E some \in BOOLEAN : LoadIndexData(some)
    \/ \E outcome \in {"succeeded", "failed"} : RunCode(outcome)
    \/ CodeFails
    \/ \E answer \in ModelAnswer : Pronounce(answer)
    \/ WriteFeedback
    \/ \E summarized \in BOOLEAN : TellReview(summarized)
    \/ ReviewDies

ReviewSpec == ReviewInit /\ [][ReviewNext]_reviewVars

-----------------------------------------------------------------------------
(* Properties *)

ReviewTypeOK ==
    /\ reviewsLeft \in 0..MaxReviews
    /\ mode \in {"pipeline", "deep_dive", "adhoc"}
    /\ reviewStep \in {"idle", "propose", "plan", "data", "code", "judge", "tell"}
    /\ executed \in {"not_requested", "succeeded", "failed", "generation_failed"}
    /\ Len(feedback) <= MaxReviews

\* A verdict of the language model stands on data: when a computation was planned and did not
\* succeed there are index data, and nothing without a parsed answer counts as judged.
JudgedOnData ==
    \A i \in DOMAIN findings :
        /\ findings[i].status = "judged" /\ findings[i].needed /\ findings[i].ran # "succeeded"
               => findings[i].found
        /\ findings[i].status # "judged" => findings[i].verdict \in {"needs_data", "untested"}

\* What the language model was asked about in a run.
AskedIn(run) == {asked[2] : asked \in {a \in costed : a[1] = run}}

\* What a review leaves out for its priority is never worked on, and its feedback names every
\* hypothesis of the report, however many of them failed.
FeedbackWhole ==
    /\ \A f \in Range(feedback) : \A item \in Range(f.items) :
           item.status = "untested" <=> item.id \notin {h.id : h \in AskedIn(f.run)}
    /\ mode = "pipeline" /\ reviewStep # "idle" =>
           \A i \in DOMAIN report : report[i] \in AskedIn(Run) => report[i].high
    /\ mode = "pipeline" /\ reviewStep = "tell" =>
           {findings[i].title : i \in DOMAIN findings} = {report[i].title : i \in DOMAIN report}

\* A deep dive is given the newest result that was left open, never one that was only left out
\* and none of a run that did not end.
PreviousOpen ==
    previous.status = "found" =>
        /\ \E f \in Range(feedback) : f.run = previous.of /\ f.run < Run
               /\ \E item \in Range(f.items) :
                      item.title = previous.title /\ item.verdict = "needs_data"
        /\ \A f \in Range(feedback) : f.run > previous.of /\ f.run < Run =>
               \A item \in Range(f.items) :
                   item.title = previous.title => item.verdict # "needs_data"

\* The numbers that are told add up to the hypotheses of the report.
CountsAdd ==
    reviewTold.of = "result" =>
        /\ reviewTold.total = reviewTold.judged + reviewTold.unverifiable + reviewTold.untested
        /\ reviewTold.judged = reviewTold.supported + reviewTold.rejected + reviewTold.open

\* The four together.
ReviewSound == JudgedOnData /\ FeedbackWhole /\ PreviousOpen /\ CountsAdd
=============================================================================
