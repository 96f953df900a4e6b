SPECIFICATION Spec
CONSTANTS
    Crypts = {"disabled", "enabled", "required"}
    FirstPlugins = {"Srp256", "Legacy"}
    Ciphers = {"Arc4", "ChaCha"}
    Accounts <- MCAccounts
INVARIANTS InStep Encrypted ProvedOnce
PROPERTY Concludes
CHECK_DEADLOCK FALSE
