--------------------------- MODULE MCTrainingRuns ---------------------------
(* The train-release workers for the run of TrainingRuns.                  *)
EXTENDS TrainingRuns

CONSTANTS w1, w2
=============================================================================
