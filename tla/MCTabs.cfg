SPECIFICATION Spec
CONSTANTS
    Tabs = {t1, t2}
    Articles = {a1, a2}
    Storage = {"works"}
    LastTime = 4
PROPERTIES OpenedRemembered
