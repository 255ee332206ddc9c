CONSTANTS
    MaxIgnitions = 5
    MaxConfigs = 3
SPECIFICATION InstallSpec
INVARIANT CredentialsKept FencesOnlyACluster
PROPERTY IgnitionIsCurrent InstallFinishes
