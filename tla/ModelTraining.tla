---------------------------- MODULE ModelTraining ----------------------------
(* The training steps of the ML pipeline (src/main.rs, cmd_ml_pipeline_refresh)  *)
(* and the commands that do one of them by hand (src/ml.rs): dataset files,      *)
(* written in place and remembered by the process that wrote them; LightGBM and  *)
(* XGBoost with the fallback from the GPU to the CPU; the yearly folds of the    *)
(* walk-forward validation; and the prediction with the models that are left.    *)
(* The update lock keeps pipelines apart (module UpdateLock); a command by hand  *)
(* takes no lock, and a child that trains XGBoost outlives the process that      *)
(* waits for it.  What a step computes is left out; the LSTM is in module        *)
(* LstmTraining, the order of predictions in MlPredictions.                      *)
EXTENDS Naturals, Sequences, SequencesExt

CONSTANTS
  Years,     \* the folds, walk_forward_years(), the first one first
  SkipSets,  \* values of ml.skip_steps
  ByHand,    \* steps that are also done by hand
  MaxRuns,   \* bound on the attempts of pipelines
  MaxHands   \* bound on the commands by hand

ASSUME ModelsAssumption ==
  /\ Years # <<>> /\ ByHand \subseteq {"train", "walk", "baselines", "variants"}
  /\ Years \in Seq(STRING \ {"all", "variant", "none"})
  /\ {MaxRuns, MaxHands} \subseteq Nat

Workers == {"run", "hand"}
Folds == Range(Years)
Sets == {"all", "variant"} \cup Folds \* pairs of dataset files, by their names

VARIABLES
  sets,        \* each pair of files: absent, in part or whole, and who writes it
  models,      \* each model file: the set and the chain of runs it is of, and its state
  worker,      \* each process: the steps left, where it stands, what it remembers
  orphans,     \* children of killed processes that train XGBoost yet, and what they save
  completed,   \* steps that an attempt of the pipeline left to do: its checkpoint
  chain,       \* number of the pipeline, whose attempts share a checkpoint
  runs, hands, \* attempts so far
  spoiled,     \* a command by hand wrote what the pipeline uses
  replaced,   \* the XGBoost model was saved by an orphan
  excused,     \* the pipeline's baselines were skipped, or had no XGBoost
  predicted    \* the XGBoost model of the pipeline's predictions, and its chain

modelVars == <<sets, models, worker, orphans, completed, chain, runs, hands, spoiled, replaced,
               excused, predicted>>

NoSet == [rows |-> "none", by |-> "none"]
NoModel == [of |-> "none", chain |-> 0, data |-> "whole", torn |-> FALSE]
AtRestW == [todo |-> <<>>, at |-> "rest", set |-> "all", folds |-> <<>>, cached |-> {},
            tries |-> <<>>, due |-> FALSE]
None == [m \in {"lgb", "xgb"} |-> NoModel]
NoPrediction == [with |-> None, chain |-> 0]

ModelInit ==
  /\ sets = [s \in Sets |-> NoSet]
  /\ models = None
  /\ worker = [w \in Workers |-> AtRestW]
  /\ completed = {} /\ orphans = {}
  /\ chain = 0 /\ runs = 0 /\ hands = 0
  /\ spoiled = FALSE /\ replaced = FALSE /\ excused = FALSE
  /\ predicted = NoPrediction

-----------------------------------------------------------------------------
(* Pipelines and commands                                                   *)

Kept(step, skips) == IF step \in skips THEN << >> ELSE <<step>>

\* Mutant of Steps: the baselines come last, so that a fold's model may predict.
StepsBaselinesLast(skips) ==
  Kept("train", skips) \o Kept("walk", skips)
    \o Kept("variants", skips) \o Kept("predict", skips) \o Kept("baselines", skips)

\* Steps 8 to 11 and 14 of cmd_ml_pipeline_refresh(), without those of ml.skip_steps.
Steps(skips) ==
  Kept("train", skips) \o Kept("walk", skips) \o Kept("baselines", skips)
    \o Kept("variants", skips) \o Kept("predict", skips)

\* ml_research_artifacts_due() and ml.skip_steps are read by every attempt; the profile
\* of the checkpoint does not tell of them.
RunBegins ==
  /\ worker["run"].at = "rest" /\ runs < MaxRuns
  /\ runs' = runs + 1
  /\ \E skips \in SkipSets, due, restart \in BOOLEAN :
       LET resumes == completed # {} /\ ~restart
           done == IF resumes THEN completed ELSE {}
       IN  /\ worker' = [worker EXCEPT !["run"] =
                [AtRestW EXCEPT !.todo = Steps(skips \cup done), !.at = "step", !.due = due]]
           /\ completed' = done
           /\ chain' = IF resumes THEN chain ELSE chain + 1
           /\ spoiled' = (resumes /\ spoiled)
           /\ excused' = IF "baselines" \in done THEN excused \/ "walk" \notin skips \cup done
                         ELSE "baselines" \in skips
  /\ UNCHANGED <<sets, models, orphans, hands, replaced, predicted>>

HandBegins(step) ==
  /\ worker["hand"].at = "rest" /\ hands < MaxHands
  /\ hands' = hands + 1
  /\ worker' = [worker EXCEPT !["hand"] = [AtRestW EXCEPT !.todo = <<step>>, !.at = "step", !.due = TRUE]]
  /\ UNCHANGED <<sets, models, orphans, completed, chain, runs, spoiled, replaced, excused, predicted>>

ByRuns == <<chain, runs, hands, orphans>>
StepOf(w) == Head(worker[w].todo)
StandsAt(w, place) == worker' = [worker EXCEPT ![w].at = place]

\* A step fails, or its process is killed: a pipeline's checkpoint stays.
StepFails(w) == worker' = [worker EXCEPT ![w] = AtRestW] /\ UNCHANGED completed

\* complete_step(), unless its write fails or the process is killed before it.
StepDone(w) ==
  \/ /\ worker' = [worker EXCEPT ![w].todo = Tail(@), ![w].at = "step", ![w].tries = << >>]
     /\ completed' = IF w = "run" THEN completed \cup {StepOf(w)} ELSE completed
  \/ w = "run" /\ StepFails(w)

\* No step is left: the pipeline removes its checkpoint, and the command ends.
Ends(w) ==
  /\ worker[w].at = "step" /\ worker[w].todo = << >>
  /\ worker' = [worker EXCEPT ![w] = AtRestW]
  /\ completed' = IF w = "run" THEN {} ELSE completed
  /\ UNCHANGED <<sets, models, ByRuns, spoiled, replaced, excused, predicted>>

Broken(w) ==
  /\ worker[w].at # "rest"
  /\ StepFails(w)
  /\ UNCHANGED <<sets, models, ByRuns, spoiled, replaced, excused, predicted>>

\* The pairs of files that a step trains on, one after the other.
FilesOf(step) ==
  CASE step = "walk" -> Years
    [] step = "variants" -> <<"variant">>
    [] OTHER -> <<"all">>

\* Folds and variants are done once a week.
StepBegins(w) ==
  LET research == StepOf(w) \in {"walk", "variants"}
      files == FilesOf(StepOf(w))
  IN  /\ worker[w].at = "step" /\ worker[w].todo # << >>
      /\ \/ research /\ ~worker[w].due /\ StepDone(w)
         \/ StepOf(w) = "predict" /\ StandsAt(w, "predicting") /\ UNCHANGED completed
         \/ /\ StepOf(w) # "predict" /\ (research => worker[w].due)
            /\ worker' = [worker EXCEPT ![w].at = "files", ![w].set = Head(files),
                                        ![w].folds = Tail(files)]
            /\ UNCHANGED completed
      /\ UNCHANGED <<sets, models, ByRuns, spoiled, replaced, excused, predicted>>

-----------------------------------------------------------------------------
(* Dataset files                                                            *)

SetOf(w) == worker[w].set
Spoils(w, set) == spoiled' = (spoiled \/ (w = "hand" /\ set = "all"))

\* The process remembers the files it wrote, and uses them while they exist, whoever
\* has written them since.
Remembers(w) == SetOf(w) \in worker[w].cached /\ sets[SetOf(w)].rows # "none"

FilesReused(w) ==
  /\ worker[w].at = "files" /\ Remembers(w)
  /\ StandsAt(w, "fitting")
  /\ UNCHANGED <<sets, models, completed, ByRuns, spoiled, replaced, excused, predicted>>

\* Both files are truncated, and then written row by row.
FilesTruncated(w) ==
  /\ worker[w].at = "files" /\ ~Remembers(w)
  /\ sets' = [sets EXCEPT ![SetOf(w)] = [rows |-> "part", by |-> w]]
  /\ StandsAt(w, "writing")
  /\ Spoils(w, SetOf(w))
  /\ UNCHANGED <<models, completed, ByRuns, replaced, excused, predicted>>

\* Files that another process has truncated or removed meanwhile are not made whole.
FilesWritten(w) ==
  /\ worker[w].at = "writing"
  /\ sets' = [sets EXCEPT ![SetOf(w)].rows = IF sets[SetOf(w)].by = w THEN "whole" ELSE @]
  /\ worker' = [worker EXCEPT ![w].at = "fitting", ![w].cached = @ \cup {SetOf(w)}]
  /\ Spoils(w, SetOf(w))
  /\ UNCHANGED <<models, completed, ByRuns, replaced, excused, predicted>>

-----------------------------------------------------------------------------
(* Training                                                                 *)

ModelOf(w) == [of |-> SetOf(w), chain |-> IF w = "run" THEN chain ELSE 0,
               data |-> sets[SetOf(w)].rows, torn |-> FALSE]

\* The attempts of backend auto in a build with CUDA, and of one backend.  On the GPU
\* a child trains, so that a crash of native code is no crash of the process.
Attempts == {<<"cuda", "cpu">>, <<"cuda">>, <<"cpu">>}

\* Without files a step fails.
IsFitting(w) == worker[w].at = "fitting" /\ sets[SetOf(w)].rows # "none"

\* LightGBM's production model.  Its attempt on the GPU, a child, has files of its own.
ProductionTrained(w) ==
  /\ IsFitting(w) /\ StepOf(w) = "train"
  /\ models' = [models EXCEPT !["lgb"] = ModelOf(w)]
  /\ Spoils(w, "all") /\ StepDone(w)
  /\ UNCHANGED <<sets, ByRuns, replaced, excused, predicted>>

BeginsXgb(w) ==
  /\ \E tries \in Attempts : worker' = [worker EXCEPT ![w].at = "xgb", ![w].tries = tries]
  /\ UNCHANGED <<sets, models, completed, ByRuns, spoiled, replaced, excused, predicted>>

\* LightGBM of a fold or a variant, whose model is not kept.
ComparisonTrained(w) == IsFitting(w) /\ StepOf(w) \in {"walk", "variants"} /\ BeginsXgb(w)

\* Ridge, whose model is not kept.
RidgeTrained(w) == IsFitting(w) /\ StepOf(w) = "baselines" /\ BeginsXgb(w)

\* xgboost_model_path(): a fold's model has the path of the baseline's; a variant's has
\* its own, which no prediction reads.
Saved(w, model) ==
  /\ models' = IF StepOf(w) = "variants" THEN models ELSE [models EXCEPT !["xgb"] = model]
  /\ spoiled' = (spoiled \/ (w = "hand" /\ StepOf(w) # "variants"))
  /\ replaced' = (replaced /\ StepOf(w) = "variants")

\* The training of XGBoost ended, well or not: a report says so.  The files of folds
\* and variants are removed, and the next fold begins.
AfterXgb(w) ==
  IF StepOf(w) = "walk" /\ worker[w].folds # <<>>
  THEN /\ worker' = [worker EXCEPT ![w].at = "files", ![w].set = Head(worker[w].folds),
                                   ![w].folds = Tail(@), ![w].tries = << >>]
       /\ UNCHANGED completed
  ELSE StepDone(w)

RemovesSet(w) ==
  sets' = IF StepOf(w) = "baselines" THEN sets ELSE [sets EXCEPT ![SetOf(w)] = NoSet]

XgbTrained(w) ==
  /\ worker[w].at = "xgb" /\ sets[SetOf(w)].rows # "none"
  /\ Saved(w, ModelOf(w))
  /\ RemovesSet(w) /\ AfterXgb(w)
  /\ UNCHANGED <<ByRuns, excused, predicted>>

\* An attempt fails, perhaps while or after it saves the model in place.  Errors of the
\* last one are put into the report, and the step goes on.
XgbFails(w) ==
  /\ worker[w].at = "xgb"
  /\ \/ UNCHANGED <<models, spoiled, replaced>>
     \/ /\ sets[SetOf(w)].rows # "none"
        /\ \E torn \in BOOLEAN : Saved(w, [ModelOf(w) EXCEPT !.torn = torn])
  /\ IF Len(worker[w].tries) > 1
     THEN /\ worker' = [worker EXCEPT ![w].tries = Tail(@)]
          /\ UNCHANGED <<sets, completed, excused>>
     ELSE /\ RemovesSet(w) /\ AfterXgb(w)
          /\ excused' = (excused \/ (w = "run" /\ StepOf(w) = "baselines"))
  /\ UNCHANGED <<ByRuns, predicted>>

\* The process is killed while its child trains: the child goes on, with the files and
\* the path that it was given, and has read the files or not.  A variant's has a path of
\* its own.
ChildLeft(w) ==
  /\ worker[w].at = "xgb" /\ Head(worker[w].tries) = "cuda" /\ StepOf(w) # "variants"
  /\ \E data \in {"none", sets[SetOf(w)].rows} :
       orphans' = orphans \cup {[saves |-> [ModelOf(w) EXCEPT !.data = data], nr |-> runs + hands]}
  /\ StepFails(w)
  /\ UNCHANGED <<sets, models, chain, runs, hands, spoiled, replaced, excused, predicted>>

OrphanReads(o) ==
  /\ o.saves.data = "none" /\ sets[o.saves.of].rows # "none"
  /\ orphans' = (orphans \ {o}) \cup {[o EXCEPT !.saves.data = sets[o.saves.of].rows]}
  /\ UNCHANGED <<sets, models, worker, completed, chain, runs, hands, spoiled, replaced, excused, predicted>>

\* The child saves its model, fails to, or ends before.
OrphanEnds(o) ==
  /\ orphans' = orphans \ {o}
  /\ \/ UNCHANGED <<models, replaced>>
     \/ /\ o.saves.data # "none"
        /\ \E torn \in BOOLEAN : models' = [models EXCEPT !["xgb"] = [o.saves EXCEPT !.torn = torn]]
        /\ replaced' = TRUE
  /\ UNCHANGED <<sets, worker, completed, chain, runs, hands, spoiled, excused, predicted>>

\* cmd_ml_predict() needs a LightGBM model.  A model of XGBoost that is absent or does
\* not load is a warning.  cleanup_transient_training_datasets() removes all files.
Predicts(w) ==
  /\ worker[w].at = "predicting"
  /\ models["lgb"] # NoModel
  /\ predicted' = IF \/ spoiled \/ excused \/ replaced \/ models["xgb"].torn
                     \/ w = "run" /\ "train" \notin completed
                  THEN NoPrediction ELSE [with |-> models, chain |-> chain]
  /\ sets' = [s \in Sets |-> NoSet]
  /\ StepDone(w)
  /\ UNCHANGED <<models, ByRuns, spoiled, replaced, excused>>

ModelNext ==
  \/ RunBegins
  \/ \E step \in ByHand : HandBegins(step)
  \/ \E w \in Workers :
       \/ StepBegins(w) \/ Broken(w) \/ ChildLeft(w) \/ Ends(w)
       \/ FilesReused(w) \/ FilesTruncated(w) \/ FilesWritten(w)
       \/ ProductionTrained(w) \/ ComparisonTrained(w) \/ RidgeTrained(w) \/ XgbTrained(w) \/ XgbFails(w) \/ Predicts(w)
  \/ \E o \in orphans : OrphanReads(o) \/ OrphanEnds(o)

ModelSpec == ModelInit /\ [][ModelNext]_modelVars

-----------------------------------------------------------------------------
AModel == [of : Sets \cup {"none"}, chain : 0 .. MaxRuns, data : {"none", "part", "whole"}, torn : BOOLEAN]

ModelTypeOK ==
  /\ sets \in [Sets -> [rows : {"none", "part", "whole"}, by : Workers \cup {"none"}]]
  /\ models \in [{"lgb", "xgb"} -> AModel]
  /\ predicted \in [with : [{"lgb", "xgb"} -> AModel], chain : 0 .. MaxRuns]
  /\ orphans \subseteq [saves : {m \in AModel : m.of # "none"}, nr : 0 .. MaxRuns + MaxHands]
  /\ chain <= runs /\ runs <= MaxRuns /\ hands <= MaxHands

\* The scores of LightGBM and XGBoost that a pipeline writes are of models of all
\* years, trained on whole files by its own steps, through failures, kills, resumed
\* attempts, files that are reused and whatever an earlier pipeline or command left:
\* never of a fold of the walk-forward validation, whose model has the same path
\* (ml.rs, xgboost_model_path, cmd_ml_walk_forward).  Excepted are pipelines that skip
\* the training or the baselines or have no XGBoost, whose error is no failure of the step,
\* those beside which a command by hand wrote the files or a model, those whose XGBoost
\* model was overwritten by a child of an attempt or a command that was killed (its
\* Command::output() waits no more, ml.rs:4330), and those that an edit of ml.skip_steps
\* between two attempts made validate the folds last.
FoldsDoNotPredict ==
  predicted.chain # 0 =>
    \A m \in {"lgb", "xgb"} : predicted.with[m] =
      [of |-> "all", chain |-> predicted.chain, data |-> "whole", torn |-> FALSE]
=============================================================================
