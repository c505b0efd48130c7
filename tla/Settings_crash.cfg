CONSTANTS
    t1 = t1
    t2 = t2
    a1 = a1
    a2 = a2
    p1 = p1
    p2 = p2
    f1 = f1
    f2 = f2
    env = env
    eval = eval
    None = None
    Tasks = {t1, t2}
    Accounts = {a1, a2}
    Passwords = {p1, p2}
    EnvPassword = env
    EvalPassword = eval
    Folders = {f1}
    FirstFolder = f1
SYMMETRY Symmetry
SPECIFICATION Spec
INVARIANTS SettingsAgree CredentialIsFiled EnvStaysTransient
PROPERTIES AtomicSpec
