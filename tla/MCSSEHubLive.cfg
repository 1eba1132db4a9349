CONSTANTS
    author = author
    reader = reader
    admin = admin
    private = private
    own = own
    public = public
    unknown = unknown
    Clients = {author, reader}
    Events = {private, public}
    UserOf <- MCUserOf
    RoleOf <- MCRoleOf
    VisibilityOf <- MCVisibilityOf
    CreatorOf <- MCCreatorOf
    BufferCap = 1
SPECIFICATION FairSpec
PROPERTIES
    ServesFeeds
    BroadcastTerminates
    HandlersEnd
CHECK_DEADLOCK FALSE
