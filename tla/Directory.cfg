CONSTANTS
    r1 = r1
    r2 = r2
    Slots = {r1, r2}
    StoresFail = TRUE
    MaxRoleRequests = 3
    Users = {"root", "u"}
    Admin = "root"
    Builtin <- MCBuiltin
    Seeded <- MCSeeded
    CustomRoles = {"helper"}
    Masks <- MCMasks
    MaxRequests = 3
    ClientIds = {"c", "legacy-client"}
    SeededClients <- MCSeededClients
    Inputs <- MCInputs
    URILists <- MCURILists
    ShortCodes = {"k1", "k2"}
    Targets = {"t1", "t2"}
    MaxAttempts = 2
SPECIFICATION Spec
INVARIANTS RolesStand TrailTells PromisesKept CountsAddUp
CHECK_DEADLOCK FALSE
SYMMETRY Symmetry
