CONSTANTS
    r1 = r1
    r2 = r2
    t1 = t1
    t2 = t2
    nobody = nobody
    Requests <- MCRequests
    Tabs <- TwoTabs
    TabOf <- MCTabOf
    Nobody <- nobody
    Endings = {"admin", "logout"}
SPECIFICATION AuthSpec
INVARIANTS LogoutEndsSession
\* The browser's life is bounded.
CHECK_DEADLOCK FALSE
