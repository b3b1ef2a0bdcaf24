\* Every message the programs write, read by every program that gets it.
SPECIFICATION WireSpec
CONSTANTS
    Texts = {"x", "y", "z"}
    Indexes = {0, 1, 2}
INVARIANT
    Understood
