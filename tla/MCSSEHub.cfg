CONSTANTS
    author = author
    reader = reader
    admin = admin
    private = private
    own = own
    public = public
    unknown = unknown
    Clients = {reader, admin}
    Events = {private, own, public, unknown}
    UserOf <- MCUserOf
    RoleOf <- MCRoleOf
    VisibilityOf <- MCVisibilityOf
    CreatorOf <- MCCreatorOf
    BufferCap = 1
SPECIFICATION Spec
INVARIANTS
    TypeOK
    NoPanic
    NoClientAfterClose
    DeliveredToAudience
CHECK_DEADLOCK FALSE
