SPECIFICATION LockSpec
CONSTANTS
    Threads = {t1, t2, t3}
    Handlers = {"request", "update_login_policy", "lock"}
    NoThread = NoThread
INVARIANT NobodyStuck
