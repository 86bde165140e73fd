\* Bond stores with up to five faults at once; links and radios with every
\* combination of theirs.
CONSTANT MaxFaults = 5
SPECIFICATION SuiteSpec
INVARIANTS SuiteTypeOK BondsDetect LinkDetects RadioDetects SuiteNoFalseAlarm
CHECK_DEADLOCK FALSE
