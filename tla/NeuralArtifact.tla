-------------------------- MODULE NeuralArtifact --------------------------
(* The Core ML copy of the LSTM model that the Neural Engine runs           *)
(* (src/lstm.rs and the exporter scripts/export-lstm-coreml.py).            *)
(* A training saves the portable model and exports it; `ml lstm-npu-setup`  *)
(* exports it too.  Neither takes a lock, so exports overlap trainings and  *)
(* other exports, write the same package, compiled model and metadata, and  *)
(* may die between any two of their steps.  The model file is truncated and *)
(* written in place: a reader, or a crash, may find it torn.  An inference  *)
(* first checks the artifact and later runs it, with no lock in between.    *)
EXTENDS Integers, FiniteSets

CONSTANTS Exporters,    \* commands that train or export
          MaxTrained,   \* bound: models trained
          MaxExports    \* bound: exports begun

ASSUME NeuralAssumption == MaxTrained \in Nat /\ MaxExports \in Nat

VARIABLES modelFile,  \* the model in the portable file, or Torn
          package,    \* the model in the package, or Nothing
          compiled,   \* the model in the compiled artifact, or Nothing
          metadata,   \* what the metadata say of the artifact
          export,     \* exporter -> where its command is
          versions,    \* models trained so far
          exports,    \* exports begun so far
          overtaken,  \* an export may have compiled a model and named another
          vetted      \* the model that an inference has found validated and is about
                      \* to run, or Nothing: none is, or a model was saved since

neuralVars == <<modelFile, package, compiled, metadata, export, versions, exports, overtaken,
                vetted>>

Torn == -1
Nothing == 0
Versions == 1..MaxTrained
Contents == Versions \cup {Torn, Nothing}
NoMetadata == [hash |-> Nothing, validated |-> FALSE]

Rest == [at |-> "rest"]
Stands(e) == export[e].at
\* The exporter's script has read the model and not yet named it.
Converts(e) == Stands(e) \in {"converting", "cleared", "packed", "compiled"}
IsExporting(e) == Stands(e) \notin {"rest", "saving"}
Step(e, place) == export' = [export EXCEPT ![e].at = place]

NeuralInit ==
  /\ modelFile = Nothing
  /\ package = Nothing
  /\ compiled = Nothing
  /\ metadata = NoMetadata
  /\ export = [e \in Exporters |-> Rest]
  /\ versions = 0
  /\ exports = 0
  /\ overtaken = FALSE
  /\ vetted = Nothing

-----------------------------------------------------------------------------
(* A training, at its end: the model file is created empty, then filled.    *)
\* Exports that have read the model and not named it name another now.
SavedOver == overtaken' = (overtaken \/ \E e \in Exporters : Converts(e))
Late(f) == [e \in Exporters |-> IF Converts(e) THEN [f[e] EXCEPT !.late = TRUE] ELSE f[e]]

SaveBegins(e) ==
  /\ Stands(e) = "rest"
  /\ versions < MaxTrained
  /\ \A d \in Exporters : Stands(d) # "saving"
  /\ versions' = versions + 1
  /\ modelFile' = Torn
  /\ export' = [Late(export) EXCEPT ![e] = [at |-> "saving"]]
  /\ vetted' = Nothing
  /\ SavedOver
  /\ UNCHANGED <<package, compiled, metadata, exports>>

\* The accelerator's tools may be missing: then no export follows.
SaveEnds(e) ==
  /\ Stands(e) = "saving"
  /\ modelFile' = versions
  /\ \E place \in {"rest", "asked"} :
       export' = [Late(export) EXCEPT ![e] = [at |-> place]]
  /\ vetted' = Nothing
  /\ SavedOver
  /\ UNCHANGED <<package, compiled, metadata, versions, exports>>

-----------------------------------------------------------------------------
(* An export: load the model, convert, clear, pack, compile, name, judge.   *)
SetupIsAsked(e) ==
  /\ Stands(e) = "rest"
  /\ modelFile # Nothing
  /\ Step(e, "asked")
  /\ UNCHANGED <<modelFile, package, compiled, metadata, versions, exports, overtaken, vetted>>

ExportBegins(e) ==
  /\ Stands(e) = "asked"
  /\ modelFile # Torn
  /\ exports < MaxExports
  /\ exports' = exports + 1
  /\ export' = [export EXCEPT ![e] = [at |-> "loaded", held |-> modelFile]]
  /\ UNCHANGED <<modelFile, package, compiled, metadata, versions, overtaken, vetted>>

ScriptLoads(e) ==
  /\ Stands(e) = "loaded"
  /\ modelFile # Torn
  /\ export' = [export EXCEPT ![e] = [at |-> "converting", held |-> export[e].held,
                                      read |-> modelFile, late |-> FALSE]]
  /\ UNCHANGED <<modelFile, package, compiled, metadata, versions, exports, overtaken, vetted>>

\* The artifact begins anew: what is known of it is known of this export.
ScriptClears(e) ==
  /\ Stands(e) = "converting"
  /\ package' = Nothing
  /\ compiled' = Nothing
  /\ Step(e, "cleared")
  /\ overtaken' = \E d \in Exporters : Converts(d) /\ export[d].late
  /\ UNCHANGED <<modelFile, metadata, versions, exports, vetted>>

ScriptPacks(e) ==
  /\ Stands(e) = "cleared"
  /\ package' = export[e].read
  /\ Step(e, "packed")
  /\ UNCHANGED <<modelFile, compiled, metadata, versions, exports, overtaken, vetted>>

ScriptCompiles(e) ==
  /\ Stands(e) = "packed"
  /\ package # Nothing
  /\ compiled' = package
  /\ Step(e, "compiled")
  /\ UNCHANGED <<modelFile, package, metadata, versions, exports, overtaken, vetted>>

\* The hash is of the file as it is now, not of the model that was converted.
ScriptNames(e) ==
  /\ Stands(e) = "compiled"
  /\ metadata' = [hash |-> modelFile, validated |-> FALSE]
  /\ export' = [export EXCEPT ![e] = [at |-> "named", held |-> export[e].held]]
  /\ UNCHANGED <<modelFile, package, compiled, versions, exports, overtaken, vetted>>

\* The metadata are loaded, whichever export wrote them.
Examines(e) ==
  /\ Stands(e) = "named"
  /\ export' = [export EXCEPT ![e] =
                  [at |-> "examined", held |-> export[e].held, hash |-> metadata.hash]]
  /\ UNCHANGED <<modelFile, package, compiled, metadata, versions, exports, overtaken, vetted>>

\* Later, the scores of the artifact that is there then are compared with the model's.
Judges(e) ==
  /\ Stands(e) = "examined"
  /\ compiled # Nothing
  /\ export' = [export EXCEPT ![e] =
                  [at |-> "judged", hash |-> export[e].hash,
                   agrees |-> compiled = export[e].held]]
  /\ UNCHANGED <<modelFile, package, compiled, metadata, versions, exports, overtaken, vetted>>

\* Agreement is not enough: the engine must take operations, the half floats be
\* near enough.
Records(e) ==
  /\ Stands(e) = "judged"
  /\ \E precise \in BOOLEAN :
       metadata' = [hash |-> export[e].hash, validated |-> export[e].agrees /\ precise]
  /\ export' = [export EXCEPT ![e] = Rest]
  /\ UNCHANGED <<modelFile, package, compiled, versions, exports, overtaken, vetted>>

\* An error or a crash, wherever the command is.
Breaks(e) ==
  /\ Stands(e) # "rest"
  /\ export' = [export EXCEPT ![e] = Rest]
  /\ UNCHANGED <<modelFile, package, compiled, metadata, versions, exports, overtaken, vetted>>

-----------------------------------------------------------------------------
(* An inference: the artifact is checked, then run.                         *)
\* Mutant of IsUsable: any validated artifact is taken, whatever model it names.
IsUsableAnyModel == modelFile # Torn /\ compiled # Nothing /\ metadata.validated

IsUsable ==
  /\ modelFile # Torn
  /\ compiled # Nothing
  /\ metadata.validated
  /\ metadata.hash = modelFile

ArtifactIsChecked ==
  /\ vetted = Nothing
  /\ IsUsable
  /\ vetted' = modelFile
  /\ UNCHANGED <<modelFile, package, compiled, metadata, export, versions, exports, overtaken>>

\* It runs what is compiled then, or falls back to another backend.
ArtifactIsRun ==
  /\ vetted # Nothing
  /\ vetted' = Nothing
  /\ UNCHANGED <<modelFile, package, compiled, metadata, export, versions, exports, overtaken>>

NeuralNext ==
  \/ ArtifactIsChecked
  \/ ArtifactIsRun
  \/ \E e \in Exporters :
    \/ SaveBegins(e)
    \/ SaveEnds(e)
    \/ SetupIsAsked(e)
    \/ ExportBegins(e)
    \/ ScriptLoads(e)
    \/ ScriptClears(e)
    \/ ScriptPacks(e)
    \/ ScriptCompiles(e)
    \/ ScriptNames(e)
    \/ Examines(e)
    \/ Judges(e)
    \/ Records(e)
    \/ Breaks(e)

NeuralSpec == NeuralInit /\ [][NeuralNext]_neuralVars

-----------------------------------------------------------------------------
NeuralTypeOK ==
  /\ {modelFile, package, compiled, metadata.hash} \subseteq Contents
  /\ metadata.validated \in BOOLEAN
  /\ versions \in 0..MaxTrained
  /\ exports \in 0..MaxExports
  /\ overtaken \in BOOLEAN
  /\ vetted \in Versions \cup {Nothing}
  /\ \A e \in Exporters :
       Stands(e) \in {"rest", "saving", "asked", "loaded", "converting", "cleared",
                      "packed", "compiled", "named", "examined", "judged"}

\* What an inference runs on the Neural Engine is the model that it found validated,
\* or nothing, however exports fail, break and overlap between its check and its
\* use: except when a model is saved in between, whose artifact may then be run,
\* and after a model was saved between an export's reading of the model and its
\* naming of it, which names the new model for the old one's artifact, until a
\* later export begins (lstm.rs, coreml_inference, export_and_validate_coreml).
NeuralEngineRunsTheModel ==
  vetted # Nothing /\ ~overtaken => compiled \in {Nothing, vetted}
=============================================================================
