\* The fee payer is the sender's own address.
SPECIFICATION Spec
CONSTANTS
    Drivers = {"eos"}
    Sender = sender
    Payers = {sender}
    NoPayer = nobody
    Limit = 2
INVARIANTS RoundsAreBounded
CHECK_DEADLOCK FALSE
