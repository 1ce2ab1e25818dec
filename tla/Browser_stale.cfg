SPECIFICATION Spec
CONSTANTS
    t1 = t1
    u1 = u1
    u2 = u2
    q1 = q1
    q2 = q2
    Nobody = Nobody
    NoPassword = NoPassword
    Idle = Idle
    Tabs = {t1}
    Users = {u1, u2}
    Requests = {q1, q2}
    Passwords <- SomePasswords
    Bookmarks = {"home", "transfer"}
    Existing <- OneExisting
PROPERTY RequestsActForTheSession
