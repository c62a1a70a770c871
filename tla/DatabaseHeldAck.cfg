CONSTANTS
    d1 = d1
    d2 = d2
    posts = posts
    comments = comments
    Device = {d1, d2}
    Path = {posts, comments}
    CommentPath = {comments}
    Key = {k1}
    MayDeny = FALSE
    Scopes <- MCClearedScopes
SPECIFICATION Spec
INVARIANT ReadYourWrites
CHECK_DEADLOCK FALSE
