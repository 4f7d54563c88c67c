SPECIFICATION Spec
INVARIANTS
    TypeOK
    ListsAgree
    ModesAgree
