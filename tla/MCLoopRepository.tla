-------------------------- MODULE MCLoopRepository --------------------------
(* Values of the constants of LoopRepository for the model checker. *)
EXTENDS LoopRepository, TLC

\* Every run resumes the same conversation, or each has its own (then the
\* conversations are named as the sessions are).
OneConversation == [s \in Sessions |-> CHOOSE c \in Conversations : TRUE]
OwnConversation == [s \in Sessions |-> s]

SessionSymmetry == Permutations(Sessions)
=============================================================================
