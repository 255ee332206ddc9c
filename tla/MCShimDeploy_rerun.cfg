SPECIFICATION DeploySpec
CONSTANTS
    first = first
    retagged = retagged
    rekeyed = rekeyed
    blank = blank
    Complete <- MCComplete
    Nothing = Nothing
    Settings <- MCSettings
    SystemsOf <- MCSystemsOf
    PasswordOf <- MCPasswordOf
INVARIANTS
    RunsWhatWasInstalled
PROPERTIES
    ComesBack
    RoleSucceeds
