SPECIFICATION Spec
INVARIANT CorrectAnswersPass
