\* Answers of up to three lines, with an end mark.
CONSTANT MaxLines = 3
SPECIFICATION StreamSpec
INVARIANT DoneAnswersAreWhole
CHECK_DEADLOCK FALSE
