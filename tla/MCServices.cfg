SPECIFICATION MCSpec
CONSTANT None = None
INVARIANTS TypesOK EffectsOnce OneOwner BreakersDecide LimitsHold AnswersAreSound ReplicasAgree
PROPERTIES StepsForward WorkCompletes
\* Each part stops once its bounded work is done.
CHECK_DEADLOCK FALSE
