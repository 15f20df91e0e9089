CONSTANTS
    sms = sms
    yes = yes
    no = no
    none = none
    LastUpdate = 2
    Owned = {1, 2}
    Groups = {1}
    Sms = {sms}
    Texts = {yes, no}
    NoText = none
    PullLimit = 1
    MaxAttempts = 2
    MaxFaults = 2
SPECIFICATION FairSpec
INVARIANT TypeOK
PROPERTIES KeepsPromise Drained
