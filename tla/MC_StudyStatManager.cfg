CONSTANTS
    n1 = n1
    n2 = n2
    n3 = n3
    StatNames <- MCStatNames
    MeasureValues = {0, 1}
    MaxMeasures = 2
    DescribeKey <- MCDescribeKey

SPECIFICATION Spec

INVARIANTS
    MeasuresKept

