SPECIFICATION Spec
INVARIANT RunningTrialsContinue
