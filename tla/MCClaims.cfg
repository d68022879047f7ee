CONSTANTS
    alice = alice
    bob = bob
    tab1 = tab1
    tab2 = tab2
    tab3 = tab3
    Users <- MCUsers
    Admins <- MCAdmins
    Requests <- MCTabs
    UserOf <- MCUserOf
    Boards = {ibex}
    Strays = {stray}
    Simulators = {sim}
    Nobody = Nobody
    NoRow = NoRow
    NoId = NoId
SPECIFICATION Spec
INVARIANTS
    TypeOK
    OneClaimPerUser
    DeviceGoneFirst
    NoStrandedDevice
PROPERTIES
    ClaimSticks
    ToldBeforeFreed
SYMMETRY Symmetry
