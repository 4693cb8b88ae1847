SPECIFICATION MCSpec
INVARIANTS TenantsSafe AdmissionSafe 
PROPERTIES StepsSafe
CONSTANTS
    Keys = {"k1", "k2"}
    Names = {"bob", "Bob", "al", "d.t", "ka", "kb", "tok"}
    Lower <- MCLower
    Dotted = {"d.t"}
    Illegal = {}
    ReservedForm = {"ka", "kb"}
    KeyLocal <- MCKeyLocal
    Domains = {"x", "-x"}
    ValidDomains = {"x"}
    Locals = {"Bob", "ka"}
    Vanities = {"Bob", "al", "d.t", "ka"}
    Users = {"Bob"}
    Targets = {"n@y"}
    Tokens = {"tok"}
    Senders = {"s"}
    Quotas <- MCQuotas
    Sizes = {1}
    Ttls = {1}
    AdminToken = "secret"
    MaxClock = 1
    MaxMetered = 2
    Conns = {"c1", "c2"}
    Nonces = {"n1", "n2"}
    Applicants = {"s1", "s2"}
    Registered = {"s1"}
    OpenMode = FALSE
    TTL = 1
    MaxTime = 2
    Invocations <- MCInvocations
    TokenFiles <- MCTokenFiles
    CertRequests <- MCCertRequests
    MaxTicks = 2
CHECK_DEADLOCK FALSE
