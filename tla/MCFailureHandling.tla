-------------------------- MODULE MCFailureHandling --------------------------
EXTENDS FailureHandling, TLC

==============================================================================
