---------------------------- MODULE LstmTraining ----------------------------
(* `ml lstm-train` (src/lstm.rs): the choice of an engine, the child process  *)
(* in which an accelerated engine runs, the fallback of backend auto to the   *)
(* CPU, the epochs with early stopping, and the files a training leaves: the  *)
(* model, saved in place, and the report.  Commands run at once, by hand and  *)
(* from the pipeline; no lock is taken for them.  What Core ML makes of a     *)
(* saved model is in module NeuralArtifact; its errors are ignored here.      *)
EXTENDS Naturals

CONSTANTS
  Trainers,     \* places, 1 .. n, for the commands that may be under way
  Losses,       \* values of a validation loss
  MinDelta,     \* lstm.early_stopping_min_delta
  Patience,     \* lstm.early_stopping_patience
  Epochs,       \* lstm.epochs
  MaxAttempts   \* bound on the attempts of all commands

Infinity == 1000 \* f64::INFINITY, over every loss

ASSUME TrainingAssumption ==
  /\ Losses \subseteq Nat /\ MinDelta \in Nat
  /\ \A loss \in Losses : loss + MinDelta < Infinity
  /\ {Patience, Epochs, MaxAttempts} \subseteq Nat \ {0}

VARIABLES
  built,        \* the accelerated engine of the build that is available, or "none"
  training,     \* each command: where it stands and what it has reached
  trainedFile,  \* lstm_model.bin: the attempt and the epoch it is of, and whole or torn
  trainReport,  \* lstm_training_report.json: the attempt it tells of
  attempts      \* attempts so far, which numbers them

trainVars == <<built, training, trainedFile, trainReport, attempts>>

\* best, bestEpoch, idle: the variables of the loop; least: the least loss seen so far;
\* alone: no other command was under way since this one was asked.
NoTraining ==
  [at |-> "rest", asked |-> "none", engine |-> "none", early |-> FALSE, orphan |-> FALSE,
   attempt |-> 0, epoch |-> 0, best |-> Infinity, bestEpoch |-> 0, idle |-> 0,
   least |-> Infinity, alone |-> FALSE]

IsAtWork(t) == training[t].at \in {"loading", "epochs", "saving", "torn", "reporting"}
InChild(t) == training[t].engine # "cpu"
StaysWith(t, place) == training' = [training EXCEPT ![t].at = place]
Gone(t) == training' = [training EXCEPT ![t] = NoTraining]

TrainInit ==
  /\ built \in {"mlx", "tch", "none"}
  /\ training = [t \in Trainers |-> NoTraining]
  /\ trainedFile = [attempt |-> 0, epoch |-> 0, whole |-> FALSE]
  /\ trainReport = 0
  /\ attempts = 0

-----------------------------------------------------------------------------
(* The command                                                              *)

\* resolve_lstm_backend(): an engine that is not there is an error when named, and
\* the CPU when auto.
EngineFor(asked) ==
  CASE asked = "auto" -> IF built = "none" THEN "cpu" ELSE built
    [] asked = "cpu" -> "cpu"
    [] OTHER -> IF asked = built THEN built ELSE "none"

Attempted(t, asked, engine, early, alone) ==
  [NoTraining EXCEPT !.at = "loading", !.asked = asked, !.engine = engine, !.early = early,
                     !.attempt = attempts + 1, !.alone = alone]

\* A configuration that does not fit together is refused as an engine that is not there.
AsksTraining(t, asked, early) ==
  /\ ~IsAtWork(t) /\ \A u \in Trainers : u < t => IsAtWork(u)
  /\ attempts < MaxAttempts
  /\ EngineFor(asked) # "none"
  /\ attempts' = attempts + 1
  /\ training' = [u \in Trainers |->
       IF u = t THEN Attempted(t, asked, EngineFor(asked), early, ~\E v \in Trainers : IsAtWork(v))
       ELSE [training[u] EXCEPT !.alone = FALSE]]
  /\ UNCHANGED <<built, trainedFile, trainReport>>

\* An attempt failed.  The command falls back if it was asked for auto and the attempt
\* was a child's; the CPU has its own configuration.
Failed(t) ==
  LET falls == InChild(t) /\ training[t].asked = "auto" /\ ~training[t].orphan
  IN  IF falls
      THEN /\ attempts < MaxAttempts
           /\ attempts' = attempts + 1
           /\ \E early \in BOOLEAN : training' =
                [training EXCEPT ![t] = Attempted(t, "auto", "cpu", early, training[t].alone)]
      ELSE Gone(t) /\ UNCHANGED attempts

\* The native code of a child crashes or panics, or the child is killed: wherever it stands.
ChildCrashes(t) ==
  /\ IsAtWork(t) /\ InChild(t)
  /\ Failed(t)
  /\ UNCHANGED <<built, trainedFile, trainReport>>

\* The command is killed: a child goes on, with nobody who falls back.
CommandKilled(t) ==
  /\ IsAtWork(t) /\ ~training[t].orphan
  /\ IF InChild(t)
     THEN training' = [training EXCEPT ![t].orphan = TRUE]
     ELSE Gone(t)
  /\ UNCHANGED <<built, trainedFile, trainReport, attempts>>

-----------------------------------------------------------------------------
(* An attempt                                                               *)

\* load_sequences(): windows of twenty rows of a symbol, in order of their dates, of
\* which the last fifth validates; fewer than a thousand are too few.
LoadsSequences(t) ==
  /\ training[t].at = "loading"
  /\ \/ StaysWith(t, "epochs") /\ UNCHANGED attempts
     \/ Failed(t)
  /\ UNCHANGED <<built, trainedFile, trainReport>>

Improves(run, loss) == loss + MinDelta < run.best

\* Mutant of AfterEpoch: an epoch is compared with the one before it.
AfterEpochOfLast(run, loss) ==
  LET better == Improves(run, loss)
  IN  [run EXCEPT !.epoch = @ + 1,
                  !.best = loss,
                  !.bestEpoch = IF better THEN run.epoch + 1 ELSE @,
                  !.idle = IF better THEN 0 ELSE @ + 1,
                  !.least = IF loss < @ THEN loss ELSE @]

\* What an epoch does to the variables of the loop.
AfterEpoch(run, loss) ==
  LET better == Improves(run, loss)
  IN  [run EXCEPT !.epoch = @ + 1,
                  !.best = IF better THEN loss ELSE @,
                  !.bestEpoch = IF better THEN run.epoch + 1 ELSE @,
                  !.idle = IF better THEN 0 ELSE @ + 1,
                  !.least = IF loss < @ THEN loss ELSE @]

\* Without early stopping the loss of the training stands for that of validation.
LoopIsOver(run) ==
  run.epoch = Epochs \/ (run.early /\ run.idle >= Patience)

Epoch(t, engine) ==
  /\ training[t].at = "epochs" /\ training[t].engine = engine
  /\ \E loss \in Losses :
       LET run == AfterEpoch(training[t], loss)
       IN  training' = [training EXCEPT ![t] =
             [run EXCEPT !.at = IF LoopIsOver(run) THEN "saving" ELSE "epochs"]]
  /\ UNCHANGED <<built, trainedFile, trainReport, attempts>>

CpuEpoch(t) == Epoch(t, "cpu")
TchEpoch(t) == Epoch(t, "tch")
MlxEpoch(t) == Epoch(t, "mlx")

\* The CPU keeps the best model with early stopping only, the others keep it always.
CpuKeeps(run) == IF run.early /\ run.bestEpoch > 0 THEN run.bestEpoch ELSE run.epoch
TchKeeps(run) == IF run.bestEpoch > 0 THEN run.bestEpoch ELSE run.epoch
MlxKeeps(run) == IF run.bestEpoch > 0 THEN run.bestEpoch ELSE run.epoch
KeptEpoch(run) ==
  CASE run.engine = "cpu" -> CpuKeeps(run)
    [] run.engine = "tch" -> TchKeeps(run)
    [] run.engine = "mlx" -> MlxKeeps(run)

\* LstmModel::save() truncates the file that predictions read, and writes it.
ModelTruncated(t) ==
  /\ training[t].at = "saving"
  /\ trainedFile' = [attempt |-> training[t].attempt, epoch |-> KeptEpoch(training[t]), whole |-> FALSE]
  /\ StaysWith(t, "torn")
  /\ UNCHANGED <<built, trainReport, attempts>>

ModelWritten(t) ==
  /\ training[t].at = "torn"
  /\ \/ /\ trainedFile' = [trainedFile EXCEPT !.whole = trainedFile.attempt = training[t].attempt]
        /\ StaysWith(t, "reporting") /\ UNCHANGED attempts
     \/ Failed(t) /\ UNCHANGED trainedFile
  /\ UNCHANGED <<built, trainReport>>

\* The report is written last; a report that cannot be written fails the attempt, whose
\* model stays.
ReportWritten(t) ==
  /\ training[t].at = "reporting"
  /\ \/ /\ trainReport' = training[t].attempt
        /\ StaysWith(t, "succeeded") /\ UNCHANGED attempts
     \/ Failed(t) /\ UNCHANGED trainReport
  /\ UNCHANGED <<built, trainedFile>>

TrainNext ==
  \E t \in Trainers :
    \/ \E asked \in {"auto", "cpu", "mlx", "tch"}, early \in BOOLEAN : AsksTraining(t, asked, early)
    \/ ChildCrashes(t) \/ CommandKilled(t)
    \/ LoadsSequences(t) \/ CpuEpoch(t) \/ TchEpoch(t) \/ MlxEpoch(t)
    \/ ModelTruncated(t) \/ ModelWritten(t) \/ ReportWritten(t)

TrainSpec == TrainInit /\ [][TrainNext]_trainVars

-----------------------------------------------------------------------------
TrainTypeOK ==
  /\ built \in {"mlx", "tch", "none"}
  /\ attempts \in 0 .. MaxAttempts /\ trainReport \in 0 .. MaxAttempts
  /\ trainedFile \in [attempt : 0 .. MaxAttempts, epoch : 0 .. Epochs, whole : BOOLEAN]
  /\ \A t \in Trainers :
       /\ training[t].engine \in {"none", "cpu", "tch", "mlx"}
       /\ training[t].bestEpoch <= training[t].epoch

\* The loss of the epoch that the model file is of, for the attempt that saved it.
KeepsBest(run) ==
  run.engine # "cpu" \/ run.early => run.best <= run.least + MinDelta /\ KeptEpoch(run) = run.bestEpoch

\* A training that ended well, with no other beside it, leaves its model whole, the
\* report of the same attempt although an earlier attempt may have left a model, torn
\* or whole, without a report (run_accelerated_lstm_child, cmd_ml_lstm_train); and no
\* epoch of it had a loss that was less by more than early_stopping_min_delta.  On the
\* CPU without early stopping the model is the last epoch's, whatever best_epoch of the
\* report says (train_on_data).
ReportTellsOfModel ==
  \A t \in Trainers :
    training[t].at = "succeeded" /\ training[t].alone =>
      /\ trainedFile.whole
      /\ trainedFile.attempt = training[t].attempt /\ trainReport = training[t].attempt
      /\ trainedFile.epoch = KeptEpoch(training[t])
      /\ KeepsBest(training[t])
=============================================================================
