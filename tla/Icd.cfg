SPECIFICATION Spec
INVARIANTS RunsWhatWasCalled SampleCallsRun
CHECK_DEADLOCK FALSE
