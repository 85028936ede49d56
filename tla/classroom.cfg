CONSTANTS
    Users = {u1, u2, u3}
    Problems = {p1}
    Handlers = {h1, h2}
    FirstRoles = {"student", "teacher"}
    MaxRequests = 3
    MaxChanges = 1
SPECIFICATION Spec
INVARIANTS
    TypeOK
    DeadCodesAdmitNobody
    TeachersProblemsNeedInvitation
    OnlyOwnersEdit
    AnswersAgree
SYMMETRY Symmetry
CHECK_DEADLOCK FALSE
