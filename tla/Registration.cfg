SPECIFICATION SpecOnEither
CONSTANTS
    Faults = TRUE
    MaxCommands <- MCCommands
INVARIANT InstallSoundOnBoth RepeatRepairsOnBoth
