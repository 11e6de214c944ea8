SPECIFICATION LifecycleSpec
CONSTANTS
    Integrations <- OnOurThread
    Kinds = {"touch"}
INVARIANTS HooksOnEventLoop
