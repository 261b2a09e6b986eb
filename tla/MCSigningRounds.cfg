\* Two drivers, with and without a fee payer, and every pattern of canonical
\* signatures over four expirations.
SPECIFICATION FairSpec
CONSTANTS
    Drivers = {"evm", "eos"}
    Sender = sender
    Payers = {sponsor}
    NoPayer = nobody
    Limit = 3
INVARIANTS TypeOK SignedAsSent NoSecondIsSkipped EveryHashOnce
PROPERTIES SigningEnds
\* The command is over after the last round.
CHECK_DEADLOCK FALSE
