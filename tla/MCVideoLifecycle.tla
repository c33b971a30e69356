--------------------------- MODULE MCVideoLifecycle ---------------------------
(* Instances of VideoLifecycle for TLC.                                    *)
EXTENDS VideoLifecycle, TLC

\* Workers, handlers and messages are interchangeable: safety runs only.
Symmetry == Permutations(Workers) \union Permutations(Handlers)
            \union Permutations(Messages)
=============================================================================
