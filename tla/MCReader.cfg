SPECIFICATION Spec
CONSTANTS
    Tabs = {t1, t2}
    Articles = {a1, a2}
    Storage = {"works", "full", "blocked"}
    LastTime = 3
INVARIANTS TypeOK OpenedIsRead StarsKept PreviousVisit MarksOutlive
