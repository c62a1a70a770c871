CONSTANTS
    p1 = p1
    p2 = p2
    p3 = p3
    c1 = c1
    Phone = phone
    Post = {p1, p2, p3}
    Comment = {c1}
    Device = {phone}
    Path <- MCPath
    Key = {p1, p2, p3, c1}
    Content <- MCContent
    Account <- MCAccount
    Degree = 1
    MayDeny = FALSE
    Scopes <- MCLiveScopes
SPECIFICATION Spec
PROPERTY Settles
CHECK_DEADLOCK FALSE
