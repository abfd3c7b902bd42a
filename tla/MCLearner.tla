----------------------------- MODULE MCLearner ------------------------------
EXTENDS Learner
=============================================================================
