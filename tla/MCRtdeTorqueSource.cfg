SPECIFICATION FairSpec
CONSTANTS
    HeaderSize = 3
    DataSize = 5
    OtherSize = 4
    SampleNumbers = 4
    MaxBytes = 15
    None = none
INVARIANTS
    TypeOK
    FreshestSample
    NoSocketLeak
PROPERTIES
    SamplesResume
