SPECIFICATION CallsSpec
CONSTANT NoAnswer = NoAnswer
INVARIANT ServerErrorsBackOff
