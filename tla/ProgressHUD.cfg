SPECIFICATION FairSpec
CHECK_DEADLOCK FALSE
INVARIANTS TypeOK StandsForARequest
PROPERTIES LoginIndicatorGoesAway RegistrationIndicatorGoesAway
